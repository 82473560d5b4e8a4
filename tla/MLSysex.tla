------------------------------ MODULE MLSysex -------------------------------
(***************************************************************************)
(* The MissingLink's own system-exclusive commands (midi_check_sysex) and   *)
(* the configuration in EEPROM that they write (ML_Config.c).               *)
(*                                                                          *)
(* A command is a message F0 7D 'M' 'L' 'N' 'K', a command byte, data, F7.  *)
(* Bytes come from two devices: from USB one by one, in the TWI interrupt;  *)
(* from the jacks as the parser hands them over, in the main loop.  Each    *)
(* device has its own place in the header and its own command, but both     *)
(* share the address and the half byte of the write command.                *)
(*                                                                          *)
(* The power may fail between any two bytes that are written.  At the next  *)
(* start initConfig looks at the version byte and writes the default        *)
(* configuration if it is not the current one.                              *)
(***************************************************************************)
EXTENDS Midi, Integers

CONSTANTS
  EepromSize,      \* bytes of EEPROM
  DefaultConfig,   \* the bytes of a MissingLinkConfig that setDefaultConfig makes
  UsbMessages, SerialMessages,  \* whole messages, as they are sent
  Budget,          \* bound: how many messages are begun
  PowerCuts        \* bound: how often the power fails

\* The version of the current layout, the first byte of the configuration.
CURR_CONFIG_VERSION == 3

\* A uint16_t, and the four bits that a data byte of a write stands for.
WordMax == 65535
Word == 0..WordMax
Digit == 0..15
Nibbles(a, b, c, d) == 4096 * a + 256 * b + 16 * c + d
Nibble(x, k) == (x \div 16^k) % 16

Addr == 0..(EepromSize - 1)
ConfigSize == Len(DefaultConfig)

ASSUME EepromAssumption ==
  /\ EepromSize \in Nat \ {0} /\ EepromSize <= WordMax + 1
  /\ DefaultConfig \in Seq(Byte) /\ ConfigSize \in 1..EepromSize
  /\ DefaultConfig[1] = CURR_CONFIG_VERSION
ML_HEADER == <<240, 125, 77, 76, 78, 75>>
ML_HEADER_LEN == 6

(***************************************************************************)
(* What a whole message means, told from the message at once and not byte   *)
(* by byte: reference definitions, for the properties only.                 *)
(***************************************************************************)
IsCommand(m, command) ==
  /\ Len(m) >= ML_HEADER_LEN + 2
  /\ SubSeq(m, 1, ML_HEADER_LEN) = ML_HEADER
  /\ m[ML_HEADER_LEN + 1] = command

Data(m) == SubSeq(m, ML_HEADER_LEN + 2, Len(m) - 1)

\* The first address of a write, and how many bytes it writes.
Base(m) == LET d == Data(m) IN Nibbles(d[1], d[2], d[3], d[4])
Count(m) == (Len(Data(m)) - 4) \div 2

\* A message ends with the only F7 in it, a command fits the eight bits of
\* sysex_index, and a write has a whole address and two halves for each byte it
\* writes (one that writes nothing may have any address).
WellFormed(m) ==
  /\ m \in Seq(Byte) /\ m # <<>>
  /\ \A i \in 1..Len(m) : m[i] >= 128 => i = 1 \/ (i = Len(m) /\ m[i] = SYSEX_END)
  /\ m[1] = SYSEX_BEGIN => m[Len(m)] = SYSEX_END /\ Len(m) >= 2 /\ Len(m) <= 256
  /\ IsCommand(m, 2) =>
       /\ Len(Data(m)) >= 4 /\ Len(Data(m)) % 2 = 0
       /\ Count(m) > 0 => Data(m) \in Seq(Digit) /\ Base(m) + Count(m) <= EepromSize

ASSUME MessageAssumption ==
  /\ \A m \in UsbMessages \cup SerialMessages : WellFormed(m)
  /\ Budget \in Nat /\ PowerCuts \in Nat

WithDefaults(e) == [a \in Addr |-> IF a < ConfigSize THEN DefaultConfig[a + 1] ELSE e[a]]

Written(m, e) ==
  LET d == Data(m)
      low(a) == 6 + 2 * (a - Base(m))
  IN [a \in Addr |-> IF a - Base(m) \in 0..(Count(m) - 1)
                      THEN 16 * d[low(a) - 1] + d[low(a)] ELSE e[a]]

Meaning(m, e) ==
  IF IsCommand(m, 0) THEN WithDefaults(e)
  ELSE IF IsCommand(m, 2) THEN Written(m, e) ELSE e

Devices == {"serial", "usb"}

VARIABLES
  eeprom,
  sysex_index, sysex_command,  \* per device
  eeprom_offset, currdata,     \* shared
  coming,    \* per device: the bytes still to come of the message being sent
  pc,        \* "off", "running", or "default": setDefaultConfig is writing
  written,   \* how many bytes setDefaultConfig has written
  before,    \* history: the EEPROM before the message in progress
  meant,     \* history: the EEPROM as that message says it should become
  torn,      \* history: the EEPROM holds a part of a default configuration
  budget, cuts

matcher == <<sysex_index, sysex_command>>
shared == <<eeprom_offset, currdata>>
history == <<before, meant, torn>>
vars == <<eeprom, matcher, shared, coming, pc, written, history, budget, cuts>>

TypeOK ==
  /\ eeprom \in [Addr -> Byte] /\ before \in [Addr -> Byte] /\ meant \in [Addr -> Byte]
  /\ sysex_index \in [Devices -> Byte] /\ sysex_command \in [Devices -> Byte]
  /\ eeprom_offset \in Word /\ currdata \in Byte
  /\ coming \in [Devices -> Seq(Byte)]
  /\ pc \in {"off", "running", "default"}
  /\ written \in 0..ConfigSize
  /\ torn \in BOOLEAN
  /\ budget \in 0..Budget /\ cuts \in 0..PowerCuts

Init ==
  /\ eeprom = [a \in Addr |-> 255] /\ before = eeprom /\ meant = eeprom
  /\ sysex_index = [d \in Devices |-> 0]
  /\ sysex_command = [d \in Devices |-> 255]
  /\ eeprom_offset = 0 /\ currdata = 0
  /\ coming = [d \in Devices |-> <<>>]
  /\ pc = "off" /\ written = 0 /\ torn = FALSE
  /\ budget = Budget /\ cuts = PowerCuts

-----------------------------------------------------------------------------
(* midi_check_sysex, for one byte b of device d                             *)

\* Bitwise or, four bits at a time.
NibbleOr(x, y) ==
  LET b(w) == IF (x \div w) % 2 = 1 \/ (y \div w) % 2 = 1 THEN w ELSE 0
  IN b(1) + b(2) + b(4) + b(8)

BitOr(x, y) ==
  LET n(k) == NibbleOr(Nibble(x, k), Nibble(y, k)) IN Nibbles(n(3), n(2), n(1), n(0))

To(d, i) == sysex_index' = [sysex_index EXCEPT ![d] = i]

HeaderByte(d, b) ==
  /\ sysex_index[d] < ML_HEADER_LEN
  /\ To(d, IF b = ML_HEADER[sysex_index[d] + 1] THEN sysex_index[d] + 1 ELSE 0)
  /\ UNCHANGED <<eeprom, sysex_command, shared, pc>>

CommandByte(d, b) ==
  /\ sysex_index[d] = ML_HEADER_LEN
  /\ IF b # SYSEX_END
     THEN sysex_command' = [sysex_command EXCEPT ![d] = b] /\ To(d, ML_HEADER_LEN + 1)
     ELSE To(d, 0) /\ UNCHANGED sysex_command
  /\ UNCHANGED <<eeprom, shared, pc>>

\* Mutant: the index counts in seven bits, as if it were a data byte.
AdvanceSeven(d, b) == To(d, IF b = SYSEX_END THEN 0 ELSE (sysex_index[d] + 1) % 128)

\* sysex_index is a uint8_t.
Advance(d, b) == To(d, IF b = SYSEX_END THEN 0 ELSE (sysex_index[d] + 1) % 256)

InData(d) == sysex_index[d] > ML_HEADER_LEN
Place(d) == sysex_index[d] - ML_HEADER_LEN - 1

\* Command 0: the default configuration, once the message ends.
ResetByte(d, b) ==
  /\ InData(d) /\ sysex_command[d] = 0
  /\ pc' = IF b = SYSEX_END THEN "default" ELSE pc
  /\ Advance(d, b)
  /\ UNCHANGED <<eeprom, sysex_command, shared>>

\* Mutant: the address is not cut to the sixteen bits of a uint16_t.
AddressByteWide(d, b) ==
  /\ InData(d) /\ sysex_command[d] = 2
  /\ Place(d) < 4
  /\ eeprom_offset' = (IF Place(d) = 0 THEN 0 ELSE eeprom_offset) + b * 16^(3 - Place(d))
  /\ Advance(d, b)
  /\ UNCHANGED <<eeprom, sysex_command, currdata, pc>>

\* Command 2, the first four bytes: the address, four bits a byte.
AddressByte(d, b) ==
  /\ InData(d) /\ sysex_command[d] = 2
  /\ Place(d) < 4
  /\ eeprom_offset' = BitOr(IF Place(d) = 0 THEN 0 ELSE eeprom_offset,
                            (b * 16^(3 - Place(d))) % (WordMax + 1))
  /\ Advance(d, b)
  /\ UNCHANGED <<eeprom, sysex_command, currdata, pc>>

\* Mutant: the high half is written, too, before the low one is there.
HighByteEarly(d, b) ==
  /\ InData(d) /\ sysex_command[d] = 2
  /\ Place(d) >= 4 /\ Place(d) % 2 = 0
  /\ currdata' = (b * 16) % 256
  /\ eeprom' = [eeprom EXCEPT ![(eeprom_offset + (Place(d) - 4) \div 2) % EepromSize] = currdata']
  /\ Advance(d, b)
  /\ UNCHANGED <<sysex_command, eeprom_offset, pc>>

\* Command 2, then: the high and the low half of each byte.
HighByte(d, b) ==
  /\ InData(d) /\ sysex_command[d] = 2
  /\ Place(d) >= 4 /\ Place(d) % 2 = 0
  /\ currdata' = (b * 16) % 256
  /\ Advance(d, b)
  /\ UNCHANGED <<eeprom, sysex_command, eeprom_offset, pc>>

\* Mutant: the address is one too high.
LowByteShifted(d, b) ==
  /\ InData(d) /\ sysex_command[d] = 2
  /\ Place(d) >= 4 /\ Place(d) % 2 = 1
  /\ currdata' = BitOr(currdata, b)
  /\ eeprom' = [eeprom EXCEPT ![(eeprom_offset + (Place(d) - 3) \div 2) % EepromSize] = currdata']
  /\ Advance(d, b)
  /\ UNCHANGED <<sysex_command, eeprom_offset, pc>>

LowByte(d, b) ==
  /\ InData(d) /\ sysex_command[d] = 2
  /\ Place(d) >= 4 /\ Place(d) % 2 = 1
  /\ currdata' = BitOr(currdata, b)
  /\ eeprom' = [eeprom EXCEPT ![(eeprom_offset + (Place(d) - 4) \div 2) % EepromSize] = currdata']
  /\ Advance(d, b)
  /\ UNCHANGED <<sysex_command, eeprom_offset, pc>>

\* Command 1 (the PIC's): the bytes are counted.
PicByte(d, b) ==
  /\ InData(d) /\ sysex_command[d] = 1
  /\ Advance(d, b)
  /\ UNCHANGED <<eeprom, sysex_command, shared, pc>>

\* Command 3 and unknown ones: index 0xFF, incremented; either way 0.
OtherByte(d, b) ==
  /\ InData(d) /\ sysex_command[d] \notin {0, 1, 2}
  /\ To(d, 0)
  /\ UNCHANGED <<eeprom, sysex_command, shared, pc>>

midi_check_sysex(d, b) ==
  \/ HeaderByte(d, b)
  \/ CommandByte(d, b)
  \/ ResetByte(d, b)
  \/ AddressByte(d, b)
  \/ HighByte(d, b)
  \/ LowByte(d, b)
  \/ PicByte(d, b)
  \/ OtherByte(d, b)

-----------------------------------------------------------------------------
(* Where the bytes come from                                                *)

\* Mutant: the parser hands a system-exclusive message over as it came.
PiecesOnce(m) == m

\* What midi_device hands over of a message from the jacks: a system-exclusive one
\* in pieces, each with the start byte, then two of the bytes that follow it.
Pieces(m) ==
  LET k == Len(m) - 1
      piece(i) == (i - 1) \div 3
      place(i) == (i - 1) % 3
  IN IF m[1] = SYSEX_BEGIN
     THEN [i \in 1..(k + (k + 1) \div 2) |->
             IF place(i) = 0 THEN SYSEX_BEGIN ELSE m[2 * piece(i) + place(i) + 1]]
     ELSE m

Begin(d, bytes) ==
  /\ pc = "running"
  /\ coming[d] = <<>>
  /\ budget > 0
  /\ budget' = budget - 1
  /\ coming' = [coming EXCEPT ![d] = bytes]
  /\ UNCHANGED <<eeprom, matcher, shared, pc, written, torn, cuts>>

\* The host begins a message.
UsbBegin ==
  \E m \in UsbMessages :
    /\ Begin("usb", m)
    /\ before' = eeprom /\ meant' = Meaning(m, eeprom)

\* A message begins to come from the jacks.
SerialBegin ==
  \E m \in SerialMessages :
    /\ Begin("serial", Pieces(m))
    /\ UNCHANGED <<before, meant>>

NextByte(d) ==
  /\ pc = "running"
  /\ coming[d] # <<>>
  /\ midi_check_sysex(d, Head(coming[d]))
  /\ coming' = [coming EXCEPT ![d] = Tail(@)]
  /\ UNCHANGED <<written, history, budget, cuts>>

\* One byte from USB in the TWI interrupt; one from the jacks in the main loop,
\* which that interrupt may divide at any byte.
UsbByte == NextByte("usb")
SerialByte == NextByte("serial")

-----------------------------------------------------------------------------
(* ML_Config.c                                                              *)

\* setDefaultConfig: eeprom_write_block writes from the first byte on. It runs
\* with nothing beside it: in the interrupt, or before interrupts are set up.
DefaultByte ==
  /\ pc = "default"
  /\ eeprom' = [eeprom EXCEPT ![written] = DefaultConfig[written + 1]]
  /\ IF written + 1 < ConfigSize
     THEN written' = written + 1 /\ UNCHANGED <<pc, torn>>
     ELSE written' = 0 /\ pc' = "running" /\ torn' = FALSE
  /\ UNCHANGED <<matcher, shared, coming, before, meant, budget, cuts>>

\* initConfig: a configuration of another version is replaced.
initConfig ==
  /\ pc = "off"
  /\ before' = eeprom
  /\ IF eeprom[0] # CURR_CONFIG_VERSION
     THEN pc' = "default" /\ meant' = WithDefaults(eeprom)
     ELSE pc' = "running" /\ meant' = eeprom
  /\ UNCHANGED <<eeprom, matcher, shared, coming, written, torn, budget, cuts>>

\* The power fails; only the EEPROM outlives it.
PowerLoss ==
  /\ pc # "off" /\ cuts > 0
  /\ cuts' = cuts - 1
  /\ pc' = "off" /\ written' = 0
  /\ torn' = (torn \/ (pc = "default" /\ written > 0))
  /\ sysex_index' = [d \in Devices |-> 0]
  /\ sysex_command' = [d \in Devices |-> 255]
  /\ eeprom_offset' = 0 /\ currdata' = 0
  /\ coming' = [d \in Devices |-> <<>>]
  /\ UNCHANGED <<eeprom, before, meant, budget>>

Next ==
  \/ UsbBegin
  \/ UsbByte
  \/ SerialBegin
  \/ SerialByte
  \/ DefaultByte
  \/ initConfig
  \/ PowerLoss

Spec == Init /\ [][Next]_vars

-----------------------------------------------------------------------------
(* Properties                                                               *)

\* When the device runs and no USB message is on its way, the EEPROM is what the
\* last message from USB, or the start, says it should be: midi_check_sysex
\* carries out each command to the end, and nothing else changes the EEPROM.
EepromAsSent == pc = "running" /\ coming["usb"] = <<>> => eeprom = meant

\* At every moment, also in the middle of a message and after a power cut, each
\* byte of the EEPROM is the old one or the one the message in progress says:
\* no half-made byte and no address out of place is ever written.
NothingElseWritten == \A a \in Addr : eeprom[a] \in {before[a], meant[a]}

\* The two devices never write at the same time: the address and the half byte,
\* which they share (the static variables of HandleMidi.cpp:172-173), belong to one.
OneWriter == ~ (InData("usb") /\ InData("serial"))

\* The version byte tells a valid configuration from an EEPROM that is not
\* (ML_Config.h:29): where it is current, no part of the default configuration
\* is missing. initConfig (ML_Config.c:92-96) trusts this.
VersionMeansValid == pc = "off" /\ eeprom[0] = CURR_CONFIG_VERSION => ~ torn
=============================================================================
