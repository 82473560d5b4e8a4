----------------------------- MODULE MCOscMidi -----------------------------
(***************************************************************************)
(* A pad, a button, a key, a fader and a switch; two short messages from   *)
(* the other jack; a small configuration.                                    *)
(***************************************************************************)
EXTENDS OscMidiProps

X(lo, hi) == Var("x", "all", lo, hi)
Y(lo, hi) == Var("y", "all", lo, hi)

MCPads == {[note |-> 60, on |-> <<144, 60, 100>>, off |-> <<144, 60, 0>>,
            slide |-> <<Num(176), Num(1), X(0, 127), Num(176), Num(2), Y(10, 90)>>]}
MCButtons == {[note |-> 62, on |-> <<144, 62, 1>>, off |-> <<144, 62, 0>>]}
MCFaders == {<<Num(176), Num(8), Space, X(20, 100)>>}
MCPositions == {<<0, 1>>, <<1, 2>>, <<1, 1>>}
MCSwitches == {<<192, 9>>}
MCVelocities == {1, 64, 127}
MCOthers == {<<192, 5>>, <<248>>}

\* Pitch bends of an integer in two bytes, of which the second is too large for a byte; a
\* message that refers to an argument it does not have; and a release that is not for this
\* device.
Bend(n) ==
  LET body == <<Num(224), Var("x", "lsb7", 0, 127), Var("x", "msb7", 0, 127)>>
  IN Message("midi", body, <<"i">>, <<<<n, 1>>>>, body)
NoY ==
  LET body == <<Num(176), Num(9), Y(0, 127)>>
  IN Message("midi", body, <<"f">>, <<<<1, 2>>>>, body)

MCStray ==
  { Bend(200), Bend(300), NoY,
    Message("midi", <<Num(176), X(0, 127), Slash, Z>>, <<"f">>, <<<<1, 1>>>>, <<>>) }

\* Nothing; a float of 0; more text than there may be tags.
MCStale ==
  { [tags |-> <<>>, args |-> <<>>], [tags |-> <<"f">>, args |-> <<<<0, 127>>>>],
    [tags |-> [k \in 1..20 |-> "t"], args |-> <<>>] }

MCLayout == [version |-> 0, ssid |-> 1, fromOSC |-> 4, oscTargetIp |-> 5]
MCDefaults == <<3, 77, 76, 0, 1, 0, 0>>

Text(bytes) == [is |-> "text", text |-> bytes]
Setting(field, offset, items) == [field |-> field, offset |-> offset, items |-> items]
MCSettings ==
  { Setting("ssid", 1, <<Num(5), Text(<<32>>), Num(0)>>),
    Setting("set", 4, <<Num(0), Num(10)>>),
    Setting("fromOSC", 4, <<Num(1)>>),
    Setting("set", 0, <<Num(255)>>),
    Setting("defaults", 0, <<>>), Setting("reboot", 0, <<>>) }

\* The third byte of a MIDI message is the same again after the way to OSC and back,
\* for each of its values (HandleMidi.cpp 240-252, Parse.cpp 54-70).
ASSUME EveryValueReturns ==
  \A v \in 0..127 :
    LET m == sendMidiOSC(<<144, 64, v>>, {}) IN sendChunk(m, m.body) = <<144, 64, v>>

\* Each message that these controls send does what it is meant to do to the notes.
ASSUME ControlsAlone == EachAlone
=============================================================================
