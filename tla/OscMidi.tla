------------------------------ MODULE OscMidi ------------------------------
(***************************************************************************)
(* From a touch on a screen, or a key on another MissingLink's MIDI jack, to *)
(* a synthesizer: OSC messages whose addresses say which MIDI bytes to send   *)
(* (Parse.cpp, MissingLink.cpp, HandleMidi.cpp, Libraries/OSC).              *)
(*                                                                          *)
(* An address is a route and a list of tokens: numbers, the variables x, y    *)
(* and z with their ranges, slashes, and what is skipped. How a token is      *)
(* spelled is left out. Messages come one after the other, as a wireless LAN  *)
(* keeps them, but any of them may be lost; each is handled by one call of    *)
(* handleOSCMessage in the main loop. A float is a pair: numerator,          *)
(* denominator.                                                              *)
(***************************************************************************)
EXTENDS Integers, FiniteSets, SequencesExt

CONSTANTS
  Pads,       \* /midi/z/ controls: [note, on, slide, off]
  Buttons,    \* /midi/button/ controls: [note, on, off]
  Keys,       \* notes played on another MissingLink's jack
  Velocities,
  Faders,     \* /midi/ messages of one control each: token lists with an x
  Positions,  \* where a finger may be: floats from 0 to 1
  Switches,   \* /midi/ messages with no variable: lists of numbers
  Others,     \* MIDI messages of one and of two bytes that the other jack hears
  Stray,      \* messages of other programs
  Layout,     \* the configuration: the offset of each field
  Defaults,   \* the configuration's default, from offset 0 on
  Settings,   \* what is written to the configuration: [field, offset, items]
  StaleTags,  \* the tags that memory may show behind a comma that ends a frame
  AirMax      \* bound: messages under way

CURR_CONFIG_VERSION == 3
TO_MIDI == 1
Addr == 0..(Len(Defaults) - 1)

-----------------------------------------------------------------------------
(* Tokens                                                                   *)

Num(n) == [is |-> "num", n |-> n]
Char(c) == [is |-> "char", n |-> c]
Slash == [is |-> "slash"]
Space == [is |-> "space"]
Quote == [is |-> "quote"]
Var(v, bits, lo, hi) == [is |-> "var", v |-> v, bits |-> bits, lo |-> lo, hi |-> hi]
Z == Var("z", "all", 0, 127)

IsValue(t) == t.is \in {"num", "var"}
Numbers(bytes) == [k \in 1..Len(bytes) |-> Num(bytes[k])]

\* A message: its route, the tokens behind it, its arguments and their tags. What it is
\* meant to do is no part of what is sent: the tokens whose values are meant to be played,
\* or what is meant to be written to the configuration.
Message(route, body, tags, args, meant) ==
  [route |-> route, body |-> body, tags |-> tags, args |-> args, meant |-> meant]

-----------------------------------------------------------------------------
(* Parsing                                                                  *)

\* More tags than these, and setTypeTags drops the message, address and all.
kMaxAugument == 16
Flushed(m) == Len(m.tags) > kMaxAugument

\* setTypeTags leaves one more than there are.
argsNum(m) == Len(m.tags) + 1

References(m, v) == \E k \in 1..Len(m.body) : m.body[k].is = "var" /\ m.body[k].v = v
hasX(m) == References(m, "x")
hasY(m) == References(m, "y")
isZ(m) ==
  LET n == Len(m.body) IN n >= 2 /\ m.body[n - 1] = Slash /\ m.body[n] = Z

\* getMessageInfo: the arguments that are referred to are there.
getMessageInfo(m) ==
  /\ ~ ((hasX(m) \/ isZ(m)) /\ argsNum(m) < 1)
  /\ ~ (hasY(m) /\ argsNum(m) < 2)

\* trunc of a fraction with a positive denominator.
Trunc(num, den) == IF num >= 0 THEN num \div den ELSE - ((- num) \div den)

\* The position scaled to the range and nine tenths more, "in TouchOSC happier".
Scaled(x, lo, hi) == Trunc(x[1] * (10 * (hi - lo) + 9), 10 * x[2]) + lo

\* getTouchArg: a byte; an argument that is not there has no tag.
getTouchArg(m, k, lo, hi) ==
  CASE k <= Len(m.tags) /\ m.tags[k] = "i" -> m.args[k][1] % 256
    [] k <= Len(m.tags) /\ m.tags[k] = "f" -> Scaled(m.args[k], lo, hi) % 256
    [] OTHER -> 255

\* getValue, of a token that has one.
getValue(m, t) ==
  IF t.is = "num" THEN t.n
  ELSE LET ret == getTouchArg(m, IF t.v = "y" THEN 2 ELSE 1, t.lo, t.hi)
       IN CASE t.bits = "lsb7" -> ret % 128
            [] t.bits = "msb7" -> (ret \div 128) % 128
            [] t.bits = "all" -> ret

\* sendChunk: the values of some of a message's tokens, the others are skipped.
sendChunk(m, tokens) ==
  LET values == SelectSeq(tokens, IsValue)
  IN [k \in 1..Len(values) |-> getValue(m, values[k]) % 256]

Slashes(body) ==
  LET IsSlash(k) == body[k] = Slash
  IN SelectSeq([k \in 1..Len(body) |-> k], IsSlash)

\* getFloat(0) > 0: the bits of a positive integer make a positive float.
Positive(m) == m.args[1][1] > 0

\* The chunk of a release: between the second slash and the one of the closing /z.
OffChunk(at) == <<at[2], at[3] - 1>>

\* /midi/z/on/slide/off, with /z behind it when the finger comes or goes.
handleTouchOSCMidiZ(m) ==
  LET at == Slashes(m.body)
  IN CASE Len(at) < 2 -> <<>>
       [] Len(at) = 2 -> sendChunk(m, SubSeq(m.body, at[1], at[2] - 1))
       [] Len(at) > 2 ->
            IF Positive(m) THEN sendChunk(m, SubSeq(m.body, 1, at[1] - 1))
            ELSE sendChunk(m, SubSeq(m.body, OffChunk(at)[1], OffChunk(at)[2]))

\* /midi/button/on/off
handleMidiButton(m) ==
  LET at == Slashes(m.body)
  IN IF ~ getMessageInfo(m) \/ isZ(m) \/ at = <<>> THEN <<>>
     ELSE IF Positive(m) THEN sendChunk(m, SubSeq(m.body, 1, at[1] - 1))
     ELSE sendChunk(m, SubSeq(m.body, at[1], Len(m.body)))

\* Mutant: an argument of 0 is enough.
PressedAtZero(m) == hasX(m) \/ hasY(m) \/ argsNum(m) = 0 \/ getTouchArg(m, 1, 0, 1) >= 0

\* A message without a variable is sent only when its argument is above 0.
Pressed(m) == hasX(m) \/ hasY(m) \/ argsNum(m) = 0 \/ getTouchArg(m, 1, 0, 1) > 0

\* /midi/...
handleTouchOSCMidi(m) ==
  IF getMessageInfo(m) /\ ~ isZ(m) /\ Pressed(m) THEN sendChunk(m, m.body) ELSE <<>>

midiDispatch(m) ==
  IF Flushed(m) THEN <<>>
  ELSE CASE m.route = "midi/z" -> handleTouchOSCMidiZ(m)
         [] m.route = "midi/button" -> handleMidiButton(m)
         [] m.route = "midi" -> handleTouchOSCMidi(m)
         [] OTHER -> <<>>

-----------------------------------------------------------------------------
(* Configuration                                                            *)

\* The tokens from a place on that getValue takes for white space.
Blank(body, p) ==
  CHOOSE q \in p..(Len(body) + 1) :
    /\ q <= Len(body) => body[q] # Space
    /\ \A r \in p..(q - 1) : body[r] = Space

\* Behind a number one more character is skipped, whatever it is.
AfterNumber(p) == p + 2

\* handleWriteEeprom, as the list of the bytes it writes: numbers, and text in quotes.
Listed(m, from) ==
  LET n == Len(m.body)
      parse[p \in from..(n + 2), inString \in BOOLEAN] ==
        IF p > n THEN <<>>
        ELSE IF m.body[p] = Quote THEN parse[p + 1, ~ inString]
        ELSE IF inString THEN <<m.body[p].n % 256>> \o parse[p + 1, TRUE]
        ELSE LET q == Blank(m.body, p)
             IN IF q <= n /\ IsValue(m.body[q])
                THEN <<getValue(m, m.body[q]) % 256>> \o parse[AfterNumber(q), FALSE]
                ELSE parse[p + 1, FALSE]
  IN parse[from, FALSE]

Overwritten(e, offset, bytes) ==
  [a \in Addr |-> IF a - offset + 1 \in 1..Len(bytes) THEN bytes[a - offset + 1] ELSE e[a]]

\* Mutant: the offset itself is taken for the first of the values.
BehindOffsetAt(at) == at

\* handleConfigSet: the values begin behind the offset.
BehindOffset(at) == at + 1

\* setDefaultConfig
WithDefaults == [a \in Addr |-> Defaults[a + 1]]

\* configDispatch: what the configuration is after a message. The field is the first
\* token; "set" takes the offset from the message.
configDispatch(e, m) ==
  LET field == m.body[1].field
      at == Blank(m.body, 2)
  IN IF Flushed(m) THEN e
     ELSE CASE field = "defaults" -> WithDefaults
            [] field = "set" ->
                 IF at <= Len(m.body) /\ IsValue(m.body[at])
                 THEN Overwritten(e, getValue(m, m.body[at]), Listed(m, BehindOffset(at)))
                 ELSE e
            [] field \in DOMAIN Layout -> Overwritten(e, Layout[field], Listed(m, 2))
            [] OTHER -> e

\* initConfig
Initialised(e) == IF e[Layout["version"]] = CURR_CONFIG_VERSION THEN e ELSE WithDefaults
ToMidi(e) == e[Layout["fromOSC"]] % 2 = TO_MIDI

-----------------------------------------------------------------------------
VARIABLES
  eeprom,     \* the configuration as stored
  fromOSC,    \* whether OSC messages go to the jack, as read when the device started
  air,        \* the messages under way
  held,       \* the notes of the controls and keys that are held down
  written,    \* the bytes that the last step has sent to the jack
  sounding,   \* the notes the synthesizer at the jack plays
  lost        \* history: whether a message, or the bytes of one, did not arrive

vars == <<eeprom, fromOSC, air, held, written, sounding, lost>>

Init ==
  /\ eeprom = WithDefaults /\ fromOSC = ToMidi(WithDefaults)
  /\ air = <<>> /\ held = {} /\ written = <<>>
  /\ sounding = {} /\ lost = FALSE

-----------------------------------------------------------------------------
(* What is sent                                                             *)

Send(m) ==
  /\ Len(air) < AirMax
  /\ air' = Append(air, m) /\ written' = <<>>
  /\ UNCHANGED <<eeprom, fromOSC, sounding, lost>>

Finger(down) == <<IF down THEN 1 ELSE 0, 1>>
Holding(note, down) == held' = IF down THEN held \cup {note} ELSE held \ {note}

PadBody(pad) == Numbers(pad.on) \o <<Slash>> \o pad.slide \o <<Slash>> \o Numbers(pad.off)

TouchMessage(pad, down) ==
  Message("midi/z", PadBody(pad) \o <<Slash, Z>>, <<"f">>, <<Finger(down)>>,
          Numbers(IF down THEN pad.on ELSE pad.off))
SlideMessage(pad, x, y) == Message("midi/z", PadBody(pad), <<"f", "f">>, <<x, y>>, pad.slide)
PushMessage(button, down) ==
  Message("midi/button", Numbers(button.on) \o <<Slash>> \o Numbers(button.off),
          <<"f">>, <<Finger(down)>>, Numbers(IF down THEN button.on ELSE button.off))
FadeMessage(fader, x) == Message("midi", fader, <<"f">>, <<x>>, SelectSeq(fader, IsValue))
SwitchMessage(numbers, down) ==
  Message("midi", Numbers(numbers), <<"f">>, <<Finger(down)>>,
          IF down THEN Numbers(numbers) ELSE <<>>)

\* The finger comes to a pad or leaves it.
Touch(pad) ==
  LET down == pad.note \notin held
  IN Send(TouchMessage(pad, down)) /\ Holding(pad.note, down)

\* The finger moves on a pad.
Slide(pad, x, y) ==
  /\ pad.note \in held
  /\ Send(SlideMessage(pad, x, y)) /\ UNCHANGED held

Push(button) ==
  LET down == button.note \notin held
  IN Send(PushMessage(button, down)) /\ Holding(button.note, down)

Fade(fader, x) == Send(FadeMessage(fader, x)) /\ UNCHANGED held

\* A switch is sent when it goes down and when it comes up; it means something going down.
Switch(numbers, down) == Send(SwitchMessage(numbers, down)) /\ UNCHANGED held

\* The third byte becomes a float from 0 to 1.
OutOf127(b) == <<b, 127>>

\* sendMidiOSC: the first two bytes in the address, the third as x. A shorter message has
\* a comma for its type tags with nothing behind it: what follows it in the receiver's
\* memory is of some earlier frame.
sendMidiOSC(bytes, stale) ==
  IF Len(bytes) = 3
  THEN Message("midi", Numbers(SubSeq(bytes, 1, 2)) \o <<Var("x", "all", 0, 127)>>,
               <<"f">>, <<OutOf127(bytes[3])>>, Numbers(bytes))
  ELSE Message("midi", Numbers(bytes), stale.tags, stale.args, Numbers(bytes))

KeyMessage(note, velocity, down) ==
  sendMidiOSC(<<144, note, IF down THEN velocity ELSE 0>>, {})

\* A key on the other MissingLink's jack goes down or up.
Key(note, velocity) ==
  LET down == note \notin held
  IN Send(KeyMessage(note, velocity, down)) /\ Holding(note, down)

Hear(bytes) ==
  /\ \E stale \in StaleTags : Send(sendMidiOSC(bytes, stale))
  /\ UNCHANGED held

OtherProgram(m) == Send(m) /\ UNCHANGED held

\* An item as it is typed: a number, or text in quotes; a space between two items.
Typed(item) ==
  IF item.is = "num" THEN <<item>>
  ELSE <<Quote>> \o [k \in 1..Len(item.text) |-> Char(item.text[k])] \o <<Quote>>

TypedList(items) ==
  FlattenSeq([k \in 1..Len(items) |-> (IF k = 1 THEN <<>> ELSE <<Space>>) \o Typed(items[k])])

ItemBytes(items) ==
  FlattenSeq([k \in 1..Len(items) |->
                IF items[k].is = "num" THEN <<items[k].n>> ELSE items[k].text])

\* /config/field/items, or /config/set/offset items.
ConfigMessage(s) ==
  Message("config", <<[is |-> "field", field |-> s.field]>>
                    \o (IF s.field = "set" THEN <<Num(s.offset), Space>> ELSE <<>>)
                    \o TypedList(s.items), <<"f">>, <<Finger(TRUE)>>, s)
Configure(s) == Send(ConfigMessage(s)) /\ UNCHANGED held

-----------------------------------------------------------------------------
(* The device                                                               *)

\* What the synthesizer makes of a message at its jack.
IsNote(bytes) == Len(bytes) = 3 /\ bytes[1] = 144
Sounds(notes, bytes) ==
  IF ~ IsNote(bytes) THEN notes
  ELSE IF bytes[3] > 0 THEN notes \cup {bytes[2]} ELSE notes \ {bytes[2]}

\* Mutant: the next message is in the one buffer before the first has been handled.
PlayLatest ==
  /\ air # <<>> /\ Last(air).route # "config"
  /\ air' = Tail(air)
  /\ written' = IF fromOSC THEN midiDispatch(Last(air)) ELSE <<>>
  /\ sounding' = Sounds(sounding, written')
  /\ lost' = (lost \/ ~ fromOSC)
  /\ UNCHANGED <<eeprom, fromOSC, held>>

\* handleOSCMessage, of a MIDI message: its bytes go to the jack, if that is configured.
Play ==
  /\ air # <<>> /\ Head(air).route # "config"
  /\ air' = Tail(air)
  /\ written' = IF fromOSC THEN midiDispatch(Head(air)) ELSE <<>>
  /\ sounding' = Sounds(sounding, written')
  /\ lost' = (lost \/ ~ fromOSC)
  /\ UNCHANGED <<eeprom, fromOSC, held>>

\* A message that handleReboot gets to see.
Restarts(m) == ~ Flushed(m) /\ m.body[1].field = "reboot"

\* handleOSCMessage, of a configuration message: it is stored, and read at the next start.
Store ==
  /\ air # <<>> /\ Head(air).route = "config" /\ ~ Restarts(Head(air))
  /\ air' = Tail(air) /\ written' = <<>>
  /\ eeprom' = configDispatch(eeprom, Head(air))
  /\ UNCHANGED <<fromOSC, held, sounding, lost>>

\* handleReboot: the program starts again; what comes meanwhile is lost.
Reboot ==
  /\ air # <<>> /\ Head(air).route = "config" /\ Restarts(Head(air))
  /\ air' = <<>> /\ written' = <<>>
  /\ eeprom' = Initialised(eeprom) /\ fromOSC' = ToMidi(eeprom')
  /\ lost' = (lost \/ Len(air) > 1)
  /\ UNCHANGED <<held, sounding>>

Lose ==
  /\ air # <<>>
  /\ air' = Tail(air) /\ written' = <<>> /\ lost' = TRUE
  /\ UNCHANGED <<eeprom, fromOSC, held, sounding>>

Sending ==
  \/ \E pad \in Pads : Touch(pad) \/ \E x, y \in Positions : Slide(pad, x, y)
  \/ \E button \in Buttons : Push(button)
  \/ \E fader \in Faders, x \in Positions : Fade(fader, x)
  \/ \E numbers \in Switches, down \in BOOLEAN : Switch(numbers, down)
  \/ \E note \in Keys, velocity \in Velocities : Key(note, velocity)
  \/ \E bytes \in Others : Hear(bytes)
  \/ \E m \in Stray : OtherProgram(m)
  \/ \E s \in Settings : Configure(s)

Next == Sending \/ Play \/ Store \/ Reboot \/ Lose

Spec == Init /\ [][Next]_vars
=============================================================================
