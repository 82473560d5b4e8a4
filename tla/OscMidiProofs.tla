--------------------------- MODULE OscMidiProofs ----------------------------
(***************************************************************************)
(* However messages are interleaved, what sounds once all have arrived is   *)
(* what is held down: from what each message does when it is handled alone. *)
(***************************************************************************)
EXTENDS OscMidiProps, SequenceTheorems, TLAPS

-----------------------------------------------------------------------------
(* The inductive invariant                                                  *)

\* Everything that may be under way.
NoteMessages ==
  {TouchMessage(pad, down) : pad \in Pads, down \in BOOLEAN}
    \cup {PushMessage(button, down) : button \in Buttons, down \in BOOLEAN}
    \cup {KeyMessage(k[1], k[2], k[3]) : k \in Keys \X Velocities \X BOOLEAN}

QuietMessages ==
  {SlideMessage(p[1], p[2], p[3]) : p \in Pads \X Positions \X Positions}
    \cup {FadeMessage(fader, x) : fader \in Faders, x \in Positions}
    \cup {SwitchMessage(numbers, down) : numbers \in Switches, down \in BOOLEAN}
    \cup {sendMidiOSC(bytes, stale) : bytes \in Others, stale \in StaleTags}
    \cup Stray
    \cup {ConfigMessage(s) : s \in Settings}

SoundTypes ==
  /\ air \in Seq(NoteMessages \cup QuietMessages)
  /\ held \in SUBSET Notes
  /\ sounding \in SUBSET Notes

\* A message that speaks of a note, and the note as all that is under way will leave it:
\* as the last message that speaks of it says, or else as it is.
SpeaksOf(m, note) == Speaks(m) /\ midiDispatch(m)[2] = note

SaidLast(note, k) ==
  /\ Strikes(air[k], note, TRUE)
  /\ \A j \in 1..Len(air) : j > k => ~ SpeaksOf(air[j], note)

WillSound(note) ==
  \/ \E k \in 1..Len(air) : SaidLast(note, k)
  \/ note \in sounding /\ \A k \in 1..Len(air) : ~ SpeaksOf(air[k], note)

HeldWillSound == ~ lost => \A note \in Notes : note \in held <=> WillSound(note)

SoundInv == SoundTypes /\ HeldWillSound

-----------------------------------------------------------------------------
(* What a message says                                                      *)

LEMMA NoteMessageStrikes ==
  ASSUME EachAlone, NEW m \in NoteMessages
  PROVE  \E note \in Notes, down \in BOOLEAN : Strikes(m, note, down)
<1>1. CASE m \in {TouchMessage(pad, down) : pad \in Pads, down \in BOOLEAN}
  <2>1. PICK pad \in Pads, down \in BOOLEAN : m = TouchMessage(pad, down)
    BY <1>1
  <2>2. Strikes(m, pad.note, down) /\ pad.note \in Notes
    BY <2>1 DEF EachAlone, Notes
  <2> QED BY <2>2
<1>2. CASE m \in {PushMessage(button, down) : button \in Buttons, down \in BOOLEAN}
  <2>1. PICK button \in Buttons, down \in BOOLEAN : m = PushMessage(button, down)
    BY <1>2
  <2>2. Strikes(m, button.note, down) /\ button.note \in Notes
    BY <2>1 DEF EachAlone, Notes
  <2> QED BY <2>2
<1>3. CASE m \in {KeyMessage(k[1], k[2], k[3]) : k \in Keys \X Velocities \X BOOLEAN}
  <2>1. PICK k \in Keys \X Velocities \X BOOLEAN : m = KeyMessage(k[1], k[2], k[3])
    BY <1>3
  <2>2. k[1] \in Keys /\ k[2] \in Velocities /\ k[3] \in BOOLEAN
    OBVIOUS
  <2>3. Strikes(m, k[1], k[3]) /\ k[1] \in Notes
    BY <2>1, <2>2 DEF EachAlone, Notes
  <2> QED BY <2>2, <2>3
<1> QED BY <1>1, <1>2, <1>3 DEF NoteMessages

LEMMA ConfigIsQuiet ==
  ASSUME NEW m, m.route = "config"
  PROVE  ~ Speaks(m)
<1>1. midiDispatch(m) = <<>>
  BY DEF midiDispatch
<1> QED BY <1>1 DEF Speaks, IsNote

LEMMA QuietMessageSilent ==
  ASSUME EachAlone, NEW m \in QuietMessages
  PROVE  ~ Speaks(m)
<1>1. CASE m \in {SlideMessage(p[1], p[2], p[3]) : p \in Pads \X Positions \X Positions}
  <2>1. PICK p \in Pads \X Positions \X Positions : m = SlideMessage(p[1], p[2], p[3])
    BY <1>1
  <2>2. p[1] \in Pads /\ p[2] \in Positions /\ p[3] \in Positions
    OBVIOUS
  <2> QED BY <2>1, <2>2 DEF EachAlone
<1>2. CASE m \in {FadeMessage(fader, x) : fader \in Faders, x \in Positions}
  BY <1>2 DEF EachAlone
<1>3. CASE m \in {SwitchMessage(numbers, down) : numbers \in Switches, down \in BOOLEAN}
  BY <1>3 DEF EachAlone
<1>4. CASE m \in {sendMidiOSC(bytes, stale) : bytes \in Others, stale \in StaleTags}
  BY <1>4 DEF EachAlone
<1>5. CASE m \in Stray
  BY <1>5 DEF EachAlone
<1>6. CASE m \in {ConfigMessage(s) : s \in Settings}
  <2>1. PICK s \in Settings : m = ConfigMessage(s)
    BY <1>6
  <2>2. m.route = "config"
    BY <2>1 DEF ConfigMessage, Message
  <2> QED BY <2>2, ConfigIsQuiet
<1> QED BY <1>1, <1>2, <1>3, <1>4, <1>5, <1>6 DEF QuietMessages

-----------------------------------------------------------------------------
(* What a step does to the notes                                            *)

\* A message that strikes or releases a note is sent.
LEMMA SentStrikes ==
  ASSUME SoundInv, NEW m \in NoteMessages, NEW note \in Notes, NEW down \in BOOLEAN,
         Strikes(m, note, down), Send(m), Holding(note, down)
  PROVE  SoundInv'
<1>0. PICK n : n = Len(air)
  OBVIOUS
<1>1. /\ air \in Seq(NoteMessages \cup QuietMessages) /\ held \in SUBSET Notes
      /\ air' = Append(air, m) /\ UNCHANGED <<sounding, lost>>
      /\ held' = IF down THEN held \cup {note} ELSE held \ {note}
  BY DEF SoundInv, SoundTypes, Send, Holding
<1>2. SoundTypes'
  BY <1>1 DEF SoundInv, SoundTypes
<1>3. /\ n \in Nat /\ Len(air') = n + 1 /\ air'[n + 1] = m
      /\ \A k \in 1..n : air'[k] = air[k]
  BY <1>0, <1>1
<1>4. ASSUME ~ lost', NEW other \in Notes
      PROVE  other \in held' <=> WillSound(other)'
  <2>1. other \in held <=> WillSound(other)
    BY <1>1, <1>4 DEF SoundInv, HeldWillSound
  <2>2. CASE other = note
    <3>0. SpeaksOf(m, other) /\ (Strikes(m, other, TRUE) <=> down)
      BY <2>2 DEF Strikes, SpeaksOf, Speaks
    <3>1. \A k \in 1..n : ~ SaidLast(other, k)'
      <4>1. n + 1 \in 1..Len(air') /\ \A k \in 1..n : n + 1 > k
        BY <1>3
      <4> QED BY <1>3, <3>0, <4>1 DEF SaidLast
    <3>2. SaidLast(other, n + 1)' <=> down
      <4>1. \A j \in 1..Len(air') : ~ (j > n + 1)
        BY <1>3
      <4> QED BY <1>3, <3>0, <4>1 DEF SaidLast
    <3>3. WillSound(other)' <=> down
      <4>1. n + 1 \in 1..Len(air') /\ SpeaksOf(air'[n + 1], other)
        BY <1>3, <3>0
      <4>2. \A k \in 1..Len(air') : k \in 1..n \/ k = n + 1
        BY <1>3
      <4> QED BY <3>1, <3>2, <4>1, <4>2 DEF WillSound
    <3> QED BY <1>1, <2>2, <3>3
  <2>3. CASE other # note
    <3>1. ~ SpeaksOf(m, other) /\ ~ Strikes(m, other, TRUE)
      BY <2>3 DEF Strikes, SpeaksOf, Speaks
    <3>2. WillSound(other)' <=> WillSound(other)
      <4>1. ASSUME NEW k \in 1..n
            PROVE  SaidLast(other, k)' <=> SaidLast(other, k)
        <5>1. (\A j \in 1..Len(air') : j > k => ~ SpeaksOf(air'[j], other))
                <=> (\A j \in 1..n : j > k => ~ SpeaksOf(air[j], other))
          BY <1>3, <3>1
        <5> QED BY <1>0, <1>3, <5>1 DEF SaidLast
      <4>2. ~ SaidLast(other, n + 1)'
        BY <1>0, <1>3, <3>1 DEF SaidLast
      <4>3. (\A k \in 1..Len(air') : ~ SpeaksOf(air'[k], other))
              <=> (\A k \in 1..n : ~ SpeaksOf(air[k], other))
        BY <1>3, <3>1
      <4>4. \A k : k \in 1..Len(air') <=> k \in 1..n \/ k = n + 1
        BY <1>3
      <4> QED BY <1>0, <1>1, <4>1, <4>2, <4>3, <4>4 DEF WillSound
    <3> QED BY <1>1, <2>1, <2>3, <3>2
  <2> QED BY <2>2, <2>3
<1> QED BY <1>2, <1>4 DEF SoundInv, HeldWillSound

\* A message that speaks of no note is sent.
LEMMA SentQuiet ==
  ASSUME SoundInv, NEW m \in QuietMessages, ~ Speaks(m), Send(m), UNCHANGED held
  PROVE  SoundInv'
<1>0. PICK n : n = Len(air)
  OBVIOUS
<1>1. /\ air \in Seq(NoteMessages \cup QuietMessages)
      /\ air' = Append(air, m) /\ UNCHANGED <<held, sounding, lost>>
  BY DEF SoundInv, SoundTypes, Send
<1>2. SoundTypes'
  BY <1>1 DEF SoundInv, SoundTypes
<1>3. /\ n \in Nat /\ Len(air') = n + 1 /\ air'[n + 1] = m
      /\ \A k \in 1..n : air'[k] = air[k]
  BY <1>0, <1>1
<1>4. ASSUME NEW note \in Notes
      PROVE  WillSound(note)' <=> WillSound(note)
  <2>1. ~ SpeaksOf(m, note) /\ ~ Strikes(m, note, TRUE)
    BY DEF SpeaksOf, Speaks, Strikes
  <2>2. ASSUME NEW k \in 1..n
        PROVE  SaidLast(note, k)' <=> SaidLast(note, k)
    <3>1. (\A j \in 1..Len(air') : j > k => ~ SpeaksOf(air'[j], note))
            <=> (\A j \in 1..n : j > k => ~ SpeaksOf(air[j], note))
      BY <1>3, <2>1
    <3> QED BY <1>0, <1>3, <3>1 DEF SaidLast
  <2>3. ~ SaidLast(note, n + 1)'
    BY <1>0, <1>3, <2>1 DEF SaidLast
  <2>4. (\A k \in 1..Len(air') : ~ SpeaksOf(air'[k], note))
          <=> (\A k \in 1..n : ~ SpeaksOf(air[k], note))
    BY <1>3, <2>1
  <2>5. \A k : k \in 1..Len(air') <=> k \in 1..n \/ k = n + 1
    BY <1>3
  <2> QED BY <1>0, <1>1, <2>2, <2>3, <2>4, <2>5 DEF WillSound
<1> QED BY <1>1, <1>2, <1>4 DEF SoundInv, HeldWillSound

\* The first message under way is gone.
LEMMA WithoutFirst ==
  ASSUME SoundTypes, air # <<>>, air' = Tail(air)
  PROVE  /\ Len(air) \in Nat \ {0} /\ Len(air') = Len(air) - 1
         /\ air' \in Seq(NoteMessages \cup QuietMessages)
         /\ Head(air) = air[1] /\ Head(air) \in NoteMessages \cup QuietMessages
         /\ \A k \in 1..Len(air') : air'[k] = air[k + 1]
         /\ \A note : \A k \in 1..Len(air') : SaidLast(note, k)' <=> SaidLast(note, k + 1)
         /\ \A note : (\A k \in 1..Len(air) : ~ SpeaksOf(air[k], note))
              <=> /\ ~ SpeaksOf(Head(air), note)
                  /\ \A k \in 1..Len(air') : ~ SpeaksOf(air'[k], note)
<1> DEFINE n == Len(air)
<1>1. air \in Seq(NoteMessages \cup QuietMessages)
  BY DEF SoundTypes
<1>2. /\ n \in Nat \ {0} /\ Len(air') = n - 1
      /\ air' \in Seq(NoteMessages \cup QuietMessages)
      /\ Head(air) = air[1] /\ Head(air) \in NoteMessages \cup QuietMessages
      /\ \A k \in 1..(n - 1) : air'[k] = air[k + 1]
  BY <1>1
<1>3. ASSUME NEW note, NEW k \in 1..(n - 1)
      PROVE  SaidLast(note, k)' <=> SaidLast(note, k + 1)
  <2>1. (\A j \in 1..Len(air') : j > k => ~ SpeaksOf(air'[j], note))
          <=> (\A j \in 1..n : j > k + 1 => ~ SpeaksOf(air[j], note))
    <3>1. \A j \in 1..(n - 1) : j + 1 \in 1..n /\ (j > k <=> j + 1 > k + 1)
      BY <1>2
    <3>2. \A j \in 1..n : j > k + 1 => j - 1 \in 1..(n - 1) /\ j - 1 > k /\ (j - 1) + 1 = j
      BY <1>2
    <3>3. ASSUME \A j \in 1..Len(air') : j > k => ~ SpeaksOf(air'[j], note),
                 NEW j \in 1..n, j > k + 1
          PROVE  ~ SpeaksOf(air[j], note)
      <4>1. j - 1 \in 1..Len(air') /\ j - 1 > k /\ air'[j - 1] = air[j]
        BY <1>2, <3>2, <3>3
      <4> QED BY <3>3, <4>1
    <3>4. ASSUME \A j \in 1..n : j > k + 1 => ~ SpeaksOf(air[j], note),
                 NEW j \in 1..Len(air'), j > k
          PROVE  ~ SpeaksOf(air'[j], note)
      <4>1. j + 1 \in 1..n /\ j + 1 > k + 1 /\ air'[j] = air[j + 1]
        BY <1>2, <3>1, <3>4
      <4> QED BY <3>4, <4>1
    <3> QED BY <3>3, <3>4
  <2> QED BY <1>2, <2>1 DEF SaidLast
<1>4. ASSUME NEW note
      PROVE  (\A k \in 1..n : ~ SpeaksOf(air[k], note))
               <=> /\ ~ SpeaksOf(Head(air), note)
                   /\ \A k \in 1..Len(air') : ~ SpeaksOf(air'[k], note)
  <2>1. ASSUME ~ SpeaksOf(Head(air), note), NEW k \in 1..n,
               \A j \in 1..Len(air') : ~ SpeaksOf(air'[j], note)
        PROVE  ~ SpeaksOf(air[k], note)
    <3>1. CASE k = 1
      BY <1>2, <2>1, <3>1
    <3>2. CASE k # 1
      <4>1. k - 1 \in 1..Len(air') /\ air'[k - 1] = air[k]
        BY <1>2, <3>2
      <4> QED BY <2>1, <4>1
    <3> QED BY <3>1, <3>2
  <2>2. ASSUME NEW k \in 1..Len(air')
        PROVE  k + 1 \in 1..n /\ air'[k] = air[k + 1]
    BY <1>2
  <2>3. 1 \in 1..n
    BY <1>2
  <2> QED BY <1>2, <2>1, <2>2, <2>3
<1> QED BY <1>2, <1>3, <1>4

\* The first message under way is handled, and speaks of no note.
LEMMA HandledQuiet ==
  ASSUME SoundInv, air # <<>>, air' = Tail(air), ~ Speaks(Head(air)),
         UNCHANGED <<held, sounding>>, lost => lost'
  PROVE  SoundInv'
<1>1. SoundTypes'
  BY WithoutFirst DEF SoundInv, SoundTypes
<1>2. ASSUME NEW note
      PROVE  WillSound(note) <=> WillSound(note)'
  <2>1. ~ SpeaksOf(Head(air), note) /\ ~ SaidLast(note, 1)
    BY WithoutFirst DEF SoundInv, SpeaksOf, SaidLast, Strikes, Speaks
  <2>2. (\E k \in 1..Len(air) : SaidLast(note, k))
          <=> (\E k \in 1..Len(air') : SaidLast(note, k)')
    <3>1. ASSUME NEW k \in 1..Len(air), SaidLast(note, k)
          PROVE  \E j \in 1..Len(air') : SaidLast(note, j)'
      <4>1. k # 1
        BY <2>1, <3>1
      <4>2. k - 1 \in 1..Len(air') /\ (k - 1) + 1 = k
        BY <4>1, WithoutFirst DEF SoundInv
      <4> QED BY <3>1, <4>2, WithoutFirst DEF SoundInv
    <3>2. ASSUME NEW k \in 1..Len(air'), SaidLast(note, k)'
          PROVE  \E j \in 1..Len(air) : SaidLast(note, j)
      <4>1. k + 1 \in 1..Len(air)
        BY WithoutFirst DEF SoundInv
      <4> QED BY <3>2, <4>1, WithoutFirst DEF SoundInv
    <3> QED BY <3>1, <3>2
  <2>3. (\A k \in 1..Len(air) : ~ SpeaksOf(air[k], note))
          <=> (\A k \in 1..Len(air') : ~ SpeaksOf(air'[k], note))
    BY <2>1, WithoutFirst DEF SoundInv
  <2> QED BY <2>2, <2>3 DEF WillSound
<1> QED BY <1>1, <1>2 DEF SoundInv, HeldWillSound

\* The first message under way is handled, and strikes or releases a note.
LEMMA HandledStrikes ==
  ASSUME SoundInv, air # <<>>, air' = Tail(air),
         NEW note \in Notes, NEW down \in BOOLEAN, Strikes(Head(air), note, down),
         sounding' = IF down THEN sounding \cup {note} ELSE sounding \ {note},
         UNCHANGED held, lost => lost'
  PROVE  SoundInv'
<1>1. SoundTypes'
  BY WithoutFirst DEF SoundInv, SoundTypes
<1>2. ASSUME NEW other
      PROVE  WillSound(other) <=> WillSound(other)'
  <2>1. /\ SpeaksOf(Head(air), other) <=> other = note
        /\ Strikes(Head(air), other, TRUE) <=> other = note /\ down
    BY DEF SpeaksOf, Speaks, Strikes
  <2>2. ASSUME NEW k \in 1..Len(air), k # 1
        PROVE  k - 1 \in 1..Len(air') /\ (SaidLast(other, k) <=> SaidLast(other, k - 1)')
    <3>1. k - 1 \in 1..Len(air') /\ (k - 1) + 1 = k
      BY <2>2, WithoutFirst DEF SoundInv
    <3> QED BY <3>1, WithoutFirst DEF SoundInv
  <2>3. ASSUME NEW k \in 1..Len(air')
        PROVE  k + 1 \in 1..Len(air) /\ k + 1 # 1 /\ (SaidLast(other, k + 1) <=> SaidLast(other, k)')
    BY WithoutFirst DEF SoundInv
  <2>4. 1 \in 1..Len(air) /\ air[1] = Head(air)
    BY WithoutFirst DEF SoundInv
  <2>5. (\A k \in 1..Len(air) : k > 1 => ~ SpeaksOf(air[k], other))
          <=> (\A k \in 1..Len(air') : ~ SpeaksOf(air'[k], other))
    <3>1. ASSUME NEW k \in 1..Len(air), k > 1
          PROVE  k - 1 \in 1..Len(air') /\ air'[k - 1] = air[k]
      BY <3>1, WithoutFirst DEF SoundInv
    <3>2. ASSUME NEW k \in 1..Len(air')
          PROVE  k + 1 \in 1..Len(air) /\ k + 1 > 1 /\ air'[k] = air[k + 1]
      BY WithoutFirst DEF SoundInv
    <3> QED BY <3>1, <3>2
  <2>6. SaidLast(other, 1)
          <=> other = note /\ down /\ \A k \in 1..Len(air') : ~ SpeaksOf(air'[k], other)
    BY <2>1, <2>4, <2>5 DEF SaidLast
  <2>7. (\A k \in 1..Len(air) : ~ SpeaksOf(air[k], other))
          <=> other # note /\ \A k \in 1..Len(air') : ~ SpeaksOf(air'[k], other)
    BY <2>1, WithoutFirst DEF SoundInv
  <2>8. (\E k \in 1..Len(air) : SaidLast(other, k))
          <=> SaidLast(other, 1) \/ \E k \in 1..Len(air') : SaidLast(other, k)'
    BY <2>2, <2>3, <2>4
  <2>9. other \in sounding' <=> IF other = note THEN down ELSE other \in sounding
    OBVIOUS
  <2> QED BY <2>6, <2>7, <2>8, <2>9 DEF WillSound
<1> QED BY <1>1, <1>2 DEF SoundInv, HeldWillSound

-----------------------------------------------------------------------------
(* The steps                                                                *)

LEMMA SoundStep ==
  ASSUME EachAlone, SoundInv, [Next]_vars
  PROVE  SoundInv'
<1>1. ASSUME NEW pad \in Pads, Touch(pad)
      PROVE  SoundInv'
  <2>1. PICK down \in BOOLEAN : down = (pad.note \notin held)
    OBVIOUS
  <2>2. /\ TouchMessage(pad, down) \in NoteMessages /\ pad.note \in Notes
        /\ Strikes(TouchMessage(pad, down), pad.note, down)
    BY DEF NoteMessages, Notes, EachAlone
  <2> QED BY <1>1, <2>1, <2>2, SentStrikes DEF Touch
<1>2. ASSUME NEW button \in Buttons, Push(button)
      PROVE  SoundInv'
  <2>1. PICK down \in BOOLEAN : down = (button.note \notin held)
    OBVIOUS
  <2>2. /\ PushMessage(button, down) \in NoteMessages /\ button.note \in Notes
        /\ Strikes(PushMessage(button, down), button.note, down)
    BY DEF NoteMessages, Notes, EachAlone
  <2> QED BY <1>2, <2>1, <2>2, SentStrikes DEF Push
<1>3. ASSUME NEW note \in Keys, NEW velocity \in Velocities, Key(note, velocity)
      PROVE  SoundInv'
  <2> DEFINE down == note \notin held
             k == <<note, velocity, down>>
  <2>1. k \in Keys \X Velocities \X BOOLEAN
    OBVIOUS
  <2>2. /\ KeyMessage(k[1], k[2], k[3]) \in NoteMessages /\ note \in Notes
        /\ Strikes(KeyMessage(note, velocity, down), note, down)
    BY <2>1 DEF NoteMessages, Notes, EachAlone
  <2> QED BY <1>3, <2>2, SentStrikes DEF Key
<1>4. ASSUME NEW m \in QuietMessages, Send(m), UNCHANGED held
      PROVE  SoundInv'
  BY <1>4, QuietMessageSilent, SentQuiet
<1>5. ASSUME NEW pad \in Pads, NEW x \in Positions, NEW y \in Positions, Slide(pad, x, y)
      PROVE  SoundInv'
  <2> DEFINE p == <<pad, x, y>>
  <2>1. p \in Pads \X Positions \X Positions
    OBVIOUS
  <2>2. SlideMessage(p[1], p[2], p[3]) \in QuietMessages
    BY <2>1 DEF QuietMessages
  <2> QED BY <1>4, <1>5, <2>2 DEF Slide
<1>6. ASSUME NEW fader \in Faders, NEW x \in Positions, Fade(fader, x)
      PROVE  SoundInv'
  <2>1. FadeMessage(fader, x) \in QuietMessages
    BY DEF QuietMessages
  <2> QED BY <1>4, <1>6, <2>1 DEF Fade
<1>7. ASSUME NEW numbers \in Switches, NEW down \in BOOLEAN, Switch(numbers, down)
      PROVE  SoundInv'
  <2>1. SwitchMessage(numbers, down) \in QuietMessages
    BY DEF QuietMessages
  <2> QED BY <1>4, <1>7, <2>1 DEF Switch
<1>8. ASSUME NEW bytes \in Others, Hear(bytes)
      PROVE  SoundInv'
  <2>1. PICK stale \in StaleTags : Send(sendMidiOSC(bytes, stale))
    BY <1>8 DEF Hear
  <2>2. sendMidiOSC(bytes, stale) \in QuietMessages
    BY DEF QuietMessages
  <2> QED BY <1>4, <1>8, <2>1, <2>2 DEF Hear
<1>9. ASSUME NEW m \in Stray, OtherProgram(m)
      PROVE  SoundInv'
  BY <1>4, <1>9 DEF OtherProgram, QuietMessages
<1>10. ASSUME NEW s \in Settings, Configure(s)
       PROVE  SoundInv'
  <2>1. ConfigMessage(s) \in QuietMessages
    BY DEF QuietMessages
  <2> QED BY <1>4, <1>10, <2>1 DEF Configure
<1>11. ASSUME air # <<>>, air' = Tail(air), lost', UNCHANGED held, sounding' \in SUBSET Notes
       PROVE  SoundInv'
  BY <1>11, WithoutFirst DEF SoundInv, SoundTypes, HeldWillSound
<1>12. CASE Play
  <2>1. /\ air # <<>> /\ air' = Tail(air) /\ UNCHANGED held /\ lost' = (lost \/ ~ fromOSC)
        /\ sounding' = Sounds(sounding, written')
        /\ written' = IF fromOSC THEN midiDispatch(Head(air)) ELSE <<>>
    BY <1>12 DEF Play
  <2>2. CASE ~ fromOSC
    <3>1. ~ IsNote(written')
      BY <2>1, <2>2 DEF IsNote
    <3>2. sounding' = sounding
      BY <2>1, <3>1 DEF Sounds
    <3> QED BY <1>11, <2>1, <2>2, <3>2 DEF SoundInv, SoundTypes
  <2>3. CASE fromOSC /\ Head(air) \in NoteMessages
    <3>1. PICK note \in Notes, down \in BOOLEAN : Strikes(Head(air), note, down)
      BY <2>3, NoteMessageStrikes
    <3>2. sounding' = IF down THEN sounding \cup {note} ELSE sounding \ {note}
      BY <2>1, <2>3, <3>1 DEF Strikes, Sounds
    <3> QED BY <2>1, <3>1, <3>2, HandledStrikes
  <2>4. CASE fromOSC /\ Head(air) \in QuietMessages
    <3>1. ~ Speaks(Head(air))
      BY <2>4, QuietMessageSilent
    <3>2. sounding' = sounding
      BY <2>1, <2>4, <3>1 DEF Speaks, Sounds
    <3> QED BY <2>1, <3>1, <3>2, HandledQuiet
  <2> QED BY <2>1, <2>2, <2>3, <2>4, WithoutFirst DEF SoundInv
<1>13. CASE Store
  <2>1. ~ Speaks(Head(air))
    BY <1>13, ConfigIsQuiet DEF Store
  <2> QED BY <1>13, <2>1, HandledQuiet DEF Store
<1>14. CASE Reboot
  <2>1. /\ air # <<>> /\ air' = <<>> /\ UNCHANGED <<held, sounding>>
        /\ lost' = (lost \/ Len(air) > 1) /\ Head(air).route = "config"
    BY <1>14 DEF Reboot
  <2>2. SoundTypes'
    BY <2>1 DEF SoundInv, SoundTypes
  <2>3. CASE Len(air) > 1
    BY <2>1, <2>2, <2>3 DEF SoundInv, HeldWillSound
  <2>4. CASE ~ (Len(air) > 1)
    <3>1. air \in Seq(NoteMessages \cup QuietMessages)
      BY DEF SoundInv, SoundTypes
    <3>2. Tail(air) = <<>>
      BY <2>1, <2>4, <3>1
    <3> QED BY <2>1, <3>2, ConfigIsQuiet, HandledQuiet
  <2> QED BY <2>3, <2>4
<1>15. CASE Lose
  <2>1. air # <<>> /\ air' = Tail(air) /\ lost' /\ UNCHANGED <<held, sounding>>
    BY <1>15 DEF Lose
  <2> QED BY <1>11, <2>1 DEF SoundInv, SoundTypes
<1>16. CASE UNCHANGED vars
  BY <1>16 DEF vars, SoundInv, SoundTypes, HeldWillSound, WillSound, SaidLast
<1> QED BY <1>1, <1>2, <1>3, <1>5, <1>6, <1>7, <1>8, <1>9, <1>10, <1>12, <1>13, <1>14, <1>15,
        <1>16 DEF Next, Sending

\* If each message, handled alone, does to the notes what it is meant to do, then whatever
\* order presses, releases, slides, keys, configurations and restarts come in, and however
\* many controls, notes and messages under way there are: once everything has arrived, what
\* sounds is what is held down (MissingLink.cpp 280-314, HandleMidi.cpp 325-423).
THEOREM NoNoteHangs ==
  ASSUME EachAlone
  PROVE  Spec => []SoundsAsHeld
<1>1. Init => SoundInv
  <2> SUFFICES ASSUME Init PROVE SoundInv
    OBVIOUS
  <2>1. SoundTypes
    BY DEF Init, SoundTypes
  <2>2. air = <<>> /\ Len(air) = 0 /\ held = {} /\ sounding = {}
    BY DEF Init
  <2>3. \A note : ~ WillSound(note)
    BY <2>2 DEF WillSound
  <2> QED BY <2>1, <2>2, <2>3 DEF SoundInv, HeldWillSound
<1>2. SoundInv /\ [Next]_vars => SoundInv'
  BY SoundStep
<1>3. SoundInv => SoundsAsHeld
  <2> SUFFICES ASSUME SoundInv, air = <<>>, ~ lost PROVE sounding = held
    BY DEF SoundsAsHeld
  <2>1. \A note \in Notes : WillSound(note) <=> note \in sounding
    BY DEF WillSound
  <2>2. \A note \in Notes : note \in held <=> note \in sounding
    BY <2>1 DEF SoundInv, HeldWillSound
  <2>3. held \subseteq Notes /\ sounding \subseteq Notes
    BY DEF SoundInv, SoundTypes
  <2> QED BY <2>2, <2>3
<1> QED BY <1>1, <1>2, <1>3, PTL DEF Spec
=============================================================================
