# MissingLink firmware: a TLA+ verification project

The MissingLink is a box with MIDI jacks, a USB-MIDI port and WiFi. An ATmega328
("the AVR") does the work; a PIC speaks USB for it and is the master of the I2C
bus between the two. The firmware routes MIDI between the jacks, USB and OSC over
UDP. It has one main loop and two kinds of interrupt that matter here: the TWI
(I2C) interrupt and the USART receive interrupt. Nearly everything hard in it is
what these do to each other through queues, one output port and one configuration
in EEPROM; on the WiFi side it is one buffer that everything received and everything
sent goes through. A bootloader of its own takes new firmware over USB.

## The system's parts

| Part | State | Operations | Meets the others through |
|---|---|---|---|
| Byte queue (`avrmidi/bytequeue.c`) | array, `start`, `end` | enqueue, length, get, remove, each with interrupts masked | every stream of MIDI bytes |
| USB-MIDI out (`HandleMidi.cpp`) | `usb_queue`, pin 1 of port C, `usb_in_sysex_mode` | `sendByteUSB`, `setDataReadyFlag`, `onRequestService` | three producers (main loop with and without interrupts, TWI interrupt), one reader (TWI interrupt), the pin read by the PIC |
| TWI slave driver (`twi.c`) | the ACK of the next byte, transmit buffer | receive, refuse, stop, transmit | calls `onReceiveService`, `onRequestService` |
| MIDI parser (`avrmidi/midi_device.c`), three instances | input queue, state, count, three-byte buffer | `midi_device_input`, `midi_device_process` | fed by the TWI interrupt or the main loop; callbacks in the main loop |
| MIDI jacks (`MLSerial.cpp`) | receive ring, USART data register | receive interrupt, `available`, `read`, `write` | read by `missinglink_midi_process`; written by main loop and TWI interrupt |
| Sysex commands and configuration (`midi_check_sysex`, `ML_Config.c`) | header match and command per device, EEPROM | reset, write, set defaults | called from main loop and TWI interrupt; EEPROM shared with the OSC handlers |
| OSC to MIDI (`OSCMessage.cpp`, `Parse.cpp`, `HandleMidi.cpp`) | one address and its arguments; nothing between messages | dispatch, `getValue`, `sendChunk`, the configuration messages | writes the jacks, the USB queue, the EEPROM |
| MIDI to OSC (`sendMidiOSC`) | uIP's buffer | one packet per message | UDP application |
| UDP application and uIP's way to it (`udpapp.cpp`, `stack.c`, `uip.c`) | two connections, the OSC target, `uip_len` | receive and handle, answer, send | the one buffer `zg_buf`; driver; ARP |
| ARP table (`uip_arp.c`) | entries, `arptime` | update, age, look up, ask, answer | every frame received and sent |
| G2100 driver (`g2100.c`) | connection state, `zg_buf`, `tx_ready`, `rx_ready`, `cnf_pending`, `intr_occured` | `zg_drv_process`, interrupt | main loop, uIP, the WiFi chip |
| Main loop, LED (`MissingLink.cpp`, `led.h`) | blink time, port C | `setup`, `loop` | shares port C with the data-ready pin |
| Bootloader (`bootloader/avr_code`) and uploader (`bootloader/uploader`) | two queues, parser, page address, page buffer, flash, time-out; image and place in it | page size, page fill, page write, leave | a request-acknowledge protocol over sysex, through the PIC |

What makes each of these right:

* **USB-MIDI out**: bytes leave in the order they came and are not lost or made up
  on the way; the pin announces waiting bytes; each packet is one whole message or
  a rightly marked piece of a sysex one; what waits is sent in the end.
* **Parser**: whatever bytes come, the callback gets the messages that were sent,
  whole, once, with the right status byte; nothing is stored outside its buffer.
* **Jacks**: what was counted can be read; the ring keeps the order and drops only
  where it says so; the USART ignores no more bytes than there are writes that cut in.
* **Sysex and configuration**: a whole command has its whole effect and nothing else is
  written; after a power loss a configuration that is taken for valid is whole.
* **OSC**: each message becomes the bytes its sender means, a MIDI message that crosses two
  boxes comes out as it went in, and no order of touches leaves a note hanging.
* **G2100**: a connection attempt takes each of its steps; the driver knows whether it is
  connected; one frame is with the chip at a time, and what waits is sent.
* **ARP and UDP**: an entry is what its host last said; a packet goes where the table says;
  every message to the listening port reaches the program, whoever sent the last.
* **Bootloader**: what has been acknowledged is in flash as the file has it; every message is
  answered; no half application is started while an upload goes on.

`PROJECT.json` lists the hazards one by one, each at its line, with the properties
that cover it or the reason why none does yet.

## The modules

| Module | What it is |
|---|---|
| `Midi` | what a MIDI byte is (`midi.h`, `midi.c`) |
| `ByteQueue` | the byte queue, one operator per C function |
| `ByteStream` | what a byte queue promises: a bounded first-in first-out stream, and an explicit way out of it (`Underrun`) |
| `UsbOut` | the way out to USB: producers, pin, LED, TWI handlers |
| `UsbOutProps` | its properties |
| `MidiDevice` | a device of avrmidi: input queue, `midi_device_process`, parser |
| `MidiDeviceProps` | a listener on the same wire, and the properties that compare the two |
| `MLSerial` | the jacks: receive ring and interrupt, the three writers of the USART, and its properties |
| `MLSysex` | the sysex commands, the EEPROM they write, power cuts, the default configuration, and its properties |
| `UipArp` | the ARP table, one operator per function of `uip_arp.c` |
| `ArpAge` | the table and its clock by themselves, small enough for the firmware's own sizes |
| `G2100` | the driver, its interrupt and the chip beside it; `DriverSpec`: the driver with a program that may do whatever its interface allows |
| `G2100Props` | what driver and chip owe each other, whatever program uses them |
| `NetStack` | main loop, uIP, UDP application and `sendMidiOSC`, composed with `G2100` and `UipArp` |
| `NetStackProps` | its properties |
| `OscMidi` | from a touch, or a key at another box, to a synthesizer: addresses, arguments, values, configuration messages |
| `OscMidiProps` | its properties |
| `Bootloader` | the AVR's side of an upload: queues, TWI handlers, parser, commands, page buffer, flash |
| `Uploader` | the host's side, the PIC between them, power cuts; composed with `Bootloader` |
| `UploaderProps` | what an upload promises |
| `MCUsbOut`, `MCMidiDevice`, `MCMLSerial`, `MCMLSysex`, `MCNetStack`, `MCOscMidi`, `MCUploader` | small instances for TLC |
| `ByteQueueProofs`, `UsbOutProofs`, `MidiDeviceProofs`, `MLSerialProofs`, `MLSysexProofs`, `NetStackProofs`, `OscMidiProofs`, `UploaderProofs` | lemmas and theorems |

`EXTENDS` composes what shares state (`NetStack` with `G2100` and `UipArp`, `Uploader` with
`Bootloader`); `INSTANCE ... WITH` maps a detailed state to an abstract one (`UsbOut` and
`MLSerial` to `ByteStream`). `DriverSpec` is over the driver's own variables, which `NetStack`
also has, so that there the refinement mapping is the identity.

Some definitions are marked `Mutant` in a comment. Nothing uses them; each is a way
the definition below it could be wrong, and replacing the one by the other makes a
property fail. `PROJECT.json` pairs each property with such a definition.

### Grain of atomicity

An interrupt handler runs to its end once it has started (the AVR masks interrupts
while in one), so a handler is one action. The functions of `bytequeue.c` mask
interrupts, so each call is one step. The main loop can be interrupted everywhere
else: it is cut into actions wherever it looks at or changes what an interrupt also
uses, and what it has read and not yet used sits in a variable (`reg`, `amt`, `left`).
Code between `cli()` and `sei()` (`sendChunk`) is one action.

### UsbOut

`queue`, `pin`, `sysex` are `usb_queue`, bit 1 of `PORTC` and `usb_in_sysex_mode`.
`sendByteUSB` appears three times because it runs in three contexts:

* `SerialEnqueue`, `SerialMeasure`, `SerialWrite`: `midi_check_sysex`, interrupts on.
  The enqueue, the look at the length and the write of the pin are separate.
* `OscByte`: `sendChunk`, interrupts off, one byte at a time.
* `UsbByte`: `onReceiveService`, in the TWI interrupt, with the ACK of the next byte
  (`twea`). `UsbRefused` and `UsbStop` are the other receiver cases of `twi.c`.

`onRequestService` has an action for each way through it (`RequestPacket` ...
`RequestSysexWaits`), all ending in `Respond`. When the code has no packet it
transmits an array it did not fill; the reply is then `Garbage`, which carries nothing.
`open` is a history, what the host makes of the replies: whether a sysex message has begun
and not ended (`HostOpen`). The code has only its own flag, `sysex`.
`LedRead` and `LedWrite` are the two halves of the LED macros' mask of port C: a mask
of two bits is not a single instruction on this chip. (`PORTC |= _BV(1)` is one: bit
writes to a low port are `sbi` and `cbi`.) The second statement of `LED_GREEN`, one bit,
is therefore harmless and left out.

Switches: an empty input set turns a route off, as the route bits of the configuration
do; `LedSplit` says whether the LED code can be split, `PicWaits` whether the PIC reads
only while the pin is high. The PIC's firmware is not in the repository, so where a
property needs `PicWaits` the run says so.

### MidiDevice

The input queue is represented by its contents: the lemmas of `ByteQueueProofs` say that
enqueue appends or, when full, drops, and that remove takes the oldest. `midi_device_input`
takes one byte in at any moment, as from the TWI interrupt. `ProcessBegin` reads the
length once; `ProcessByte` looks at the first byte and runs the parser on it;
`ProcessRemove` takes it off. `midi_process_byte` has an action for each of its cases.
`call` is what the callback got. The firmware registers only the fallthrough callback,
to which `midi_input_callbacks` passes the first `cnt` bytes.

`MidiDeviceProps` puts a listener beside it. It hears the same bytes and derives from the
rules of MIDI (running status, realtime bytes anywhere, sysex), without the parser's
buffer or count, what the callback is `due` to get. Where the bytes themselves are
wrong (data after a finished system common message, an end of no sysex, a sysex cut short by
another message) it counts the wire as `garbled` until the next status byte.

### MLSerial

`buffer`, `head`, `tail` are `rx_buffer`. `Serial.read` is two steps, `ReadLook` and
`ReadStep`, because the interrupt may come between. Writing to the USART is a poll and a
store with interrupts on (`ThruPoll`, `ThruWrite`), and one step with interrupts off
(`WriteMasked`: polling goes on until the register is empty, and nobody can fill it
between). A store to a register that is not empty is ignored by the USART. `lost` and
`cut` are histories.

### MLSysex

`midi_check_sysex` has an action for each of its cases; `UsbByte` runs it for one byte in the
TWI interrupt, `SerialByte` in the main loop, with the bytes as the parser hands them over
(`Pieces`: what `MidiDevice` does to a sysex message). `sysex_index` and `sysex_command`
are per device, `eeprom_offset` and `currdata` shared, as in the code. `DefaultByte` is one
byte of `setDefaultConfig`'s block write, front to back as avr-libc does it; `initConfig` is
its check of the version; `PowerLoss` may come before any of these and leaves the EEPROM
alone. A byte whose own write is cut off is not modelled. `before` and `meant` are
histories: what the EEPROM was when the message began, and what the message, read as a
whole (`Meaning`), says it should become.

### G2100, UipArp, NetStack

`zg_drv_process` is four steps (`pc`): `DrvTx` sends, `DrvIsr` fetches a message of the chip
(`zg_process_isr`), `DrvMsg` looks at it, `DrvState` does the step of the connection that is due.
The interrupt `zg_isr` only sets a flag and may come between any two of them. The chip has a frame
to send (`sending`), requests (`reqs`), and two queues of messages. `zg_buf` is what the one
buffer holds: a frame of ours, one received, or scrap, that is, anything nobody will read: a message,
or what the SPI bus returns while something is sent. A frame that waits for the last one's confirm
may become scrap this way; it is sent all the same. `message` is what the first byte of the buffer
says until `zg_drv_process` is left.

What the chip does is not in the repository. The model takes it to confirm each frame once; to
have its data queue read before the management queue (the order of `zg_process_isr`); to keep its
interrupt line low as long as it has a message; to refuse a second request while it works on one;
and to speak of the connection only once there is one.

`UipArp` has the table as a function of its slots, a slot being an address, its hardware address and
a time. The search of `uip_arp_update` is `Holding`, then `First` (a free slot), then `Oldest`; ages
are differences of a clock that wraps, kept as the code has them (an `int`, which may be negative).
`uip_arp_ipin` is an empty macro in this build (`uip_arp.h:118`), although the comment above it says
that it learns from IP packets.

`NetStack` is the main loop: `Connecting` until `zg_conn_status` is 1, `stack_init` once, then
`stack_process` with one action for each way through `uip_process` and `udpapp`, the driver, and
`sendMidiOSC` any number of times, each followed by the driver. `udp_conn` has uIP's two connections
of the program, `out` and `in`; `parse_msg` undoes the binding that uIP makes to a packet's sender.
`heard` and `given` are what the last step handed to the program and to the driver, `told` (history)
the hardware address that each host has last announced for itself.

The configuration is the pair of a security type and an OSC target (`Configurations`), and the target's
port. The target may be the broadcast address: a packet to it leaves without a look at the table.

The program neither listens for TCP nor connects, so that a TCP segment is answered with a reset
(`TcpReset`) and nothing else of uIP's TCP can run. `sendMidiOSC` is there from `stack_init` on;
before that the code uses a connection that is NULL (see the hazards).

### OscMidi

An address is a route and a list of tokens: numbers, the variables x, y and z with their ranges,
slashes, what is skipped. How a token is spelled is left out; what a message is *meant* to do is a
field of its own, which no code reads. `Play` is one call of `handleOSCMessage`: `midiDispatch` finds
the handler, the handler picks the chunk between slashes, `getValue` makes a byte of a token
(`getTouchArg` for a variable: an integer as it is, a float scaled to the range, cut to a whole
number, then to a byte). `Store` is a configuration message, `Reboot` the restart that reads what was
stored. On the sending side `Key` and `Hear` are `sendMidiOSC` of another box: two numbers in the
address and a float out of 127; a shorter message is one whose type tags were never written, so that
the receiver reads what memory holds there (`StaleTags`). A float is a fraction.
`held` and `sounding` are the finger's and the synthesizer's view of the same notes.

### Bootloader, Uploader

The main loop of the bootloader reads the length of its queue, takes that many bytes one by one,
carries out a command where a message ends, and removes them all at once; `pc` and `size`, `i`
say where it is. Its TWI handlers are `onReceiveService` and `onRequestService`, one step each. The page
buffer keeps the first value of a word until the page is written. Interrupts are off between the erase
and the write of a page; the power may still fail there (`pc = "erased"`). `Timeout` may come
whenever the code counts, since nothing relates its count to the host's clock.

When the power fails (`PowerFails`), what is under way is gone, and with it what has reached the
host and it has not looked at: the host, which polls all the time, is taken to have read it, or to have
given up, before the device is up again.

`Uploader` makes the messages of an image as the code does, sends one, waits for its ack, and so on; it
may give up while it waits, and be run again. The variables it reads an answer with are not
initialised (`Unset`, `Readings`). The PIC carries bytes, resets the AVR on a command of its own, and polls
while the pin is high. A message follows only on the ack of the last one, with a round trip of USB
between: `Carry` takes it that the bootloader's batch is over by then. `sent` and `filled` are the
uploader's place in the file: how much of it has gone out in fill messages, and whether some of that
still awaits its page write. Two histories: `cut` marks a run in which the power failed, `late` one
which began while an answer to an earlier run could still come. Such an
answer passes for the page size, and the host is one message ahead of its acks from then on; what
holds in other runs only says so.

## The runs

| Run | Question | Result |
|---|---|---|
| `usbout_all` | Everything on, the PIC reads whenever it likes: is the queue still a stream (`ImplementsStream`), and does the host get a sysex message in one run of packets, nothing between (`SysexWhole`)? | holds |
| `usbout_main` | Main-loop producers and LED, a PIC that waits for the pin: are waiting bytes always announced (`DataReady`), packets whole (`WholeMessages`), and does what waits leave (`Drains`)? | holds |
| `usbout_underrun` | With the serial route: is the empty queue never read? | violated |
| `mididevice` | Does the callback get what was sent (`HeardAsSent`), inside the buffer (`InsideBuffer`), with nothing taken that was not there (`NeverTakesAbsent`), and does processing return (`ProcessReturns`)? | holds |
| `mididevice_verbatim` | Does a sysex message come out as it came in (`HeardVerbatim`)? | violated |
| `mlserial` | Is a byte that was counted there to be read (`NeverReadsNothing`), is the ring a stream (`ImplementsStream`) that does not stay full (`RingDrains`), and is the thru route's loss bounded (`OneLostPerCut`)? | holds |
| `mlsysex` | Does the EEPROM become what each whole command says (`EepromAsSent`), is nothing else ever written (`NothingElseWritten`), and do the two devices never write at once (`OneWriter`)? | holds |
| `mlsysex_torn` | Does a current version mean a whole configuration (`VersionMeansValid`)? | violated |
| `net` | Has each frame that was sent, with its confirm, and each step of the connection one place at a time (`OneOutstanding`, `StepKept`)? Does the driver know whether it is connected (`StatusTrue`)? Does the stack keep to the driver's interface (`DriverSpec`)? Is the ARP table true (`TableTrue`), each packet rightly addressed (`RightAddress`), each message heard (`EveryMessageHeard`)? Does the box connect (`Connects`) and what waits leave (`Flows`)? | holds |
| `upload` | Is what is acknowledged in flash (`FlashAsSent`), each answer over before the next (`EndLast`), each message answered (`Answered`), and is no half application started (`StaysForUpload`)? | holds |
| `osc` | Does each message send the bytes it means (`PlayedAsMeant`), does no note hang (`SoundsAsHeld`), does a configuration message write what it says (`ConfigAsMeant`)? | holds |
| `arp_age` | Does an entry of the ARP table live no longer than its maximum age (`MaximumAge`)? | violated |

A type invariant is checked once per component; `OscMidi`'s state is so small that its properties leave
it no freedom, and it has none.

### What the violations show

1. `usbout_underrun`: the queue is emptied between `setDataReadyFlag`'s look and its
   write; the pin stays high over nothing; the PIC's next read makes the code remove a
   byte from the empty queue, whose length becomes the whole array.
2. `mididevice_verbatim`: after a piece of a sysex message the parser keeps the start byte
   in its buffer, and hands it over again with the next piece. The repository's own
   test expects otherwise. `midi_check_sysex` therefore never sees its six-byte header
   from the jacks, and sysex forwarded from the jacks is corrupted.
3. `mlsysex_torn`: the version is the first byte of the default configuration to be written.
   Power lost after it leaves a version that `initConfig` trusts over bytes that were never
   written, and no later start repairs them. (Writing the version last would.)
4. `arp_age`: with the firmware's 8 entries, age of 120 and clock of 256 ticks. `arptime` is a `uint8_t`,
   the age of an entry an `int`: one stamped after tick 135 has not come to 120 when the clock wraps, and is
   younger than nothing from then on. `uipopt.h` speaks of a maximum age of 20 minutes.

`OneWriter` holds for a reason nobody would choose: the pieces of violation 2 keep the jacks from
ever getting past the header. Once the parser is repaired, `OneWriter` fails, and a write from
the jacks and one from USB mix their addresses: the mutant of `OneWriter` is that repair.

### Other things the models show

These are no findings of a run of their own, most because no document of the repository says otherwise,
but a maintainer should know them. Each can be seen with a small change of a `.cfg` or an invariant.

* The TWI interrupt can change the data-ready pin between the LED macro's load and its store, which
  undoes it: with the USB-to-USB route on and `LedSplit = TRUE`, `LedRead`, a byte from USB, `LedWrite` leave
  the pin low over a waiting byte, and the PIC is not told to come. `DataReady` is checked with that route off.
* After a refused byte (NACK) `twi.c` ACKs the next one without asking, also when the queue is full:
  `(UsbMessages # {} /\ twea) => ~IsFull(queue)` is not an invariant of `UsbOut`.
* The TWI interrupt can fill the USART's data register between the thru route's poll and its store, and
  a byte is ignored: `lost = 0` is not an invariant of `MLSerial`. `OneLostPerCut` bounds the loss.
* `OSCMessage.cpp:262` counts one argument more than there are tags, though `OSCMessage.h:78` says
  "iif" is 3. The checks that the arguments a message refers to are there ("Make sure we've got at least one
  argument", `Parse.cpp:43`) are therefore one too lax, and a message with a y and one argument, or with an x
  and none, plays 0xFF: `[][Play /\ written' # <<>> => HasArguments(Head(air))]_vars` fails on `NoY` of `MCOscMidi`.
* A value above 255 loses its upper bits in `getTouchArg`, which returns a `uint8_t` (`Parse.cpp:53`): `xM`,
  the upper half of 14 bits, is never more than 1. `Bend(300)` in `MCOscMidi` is such a message, and
  `Carried` in `PlayedAsMeant` is what exempts it.
* A MIDI message of less than three bytes goes out with a comma and no tags. What an earlier frame has left
  behind the comma may silence it at the receiver: without `BehindOldFrame`, `PlayedAsMeant` fails.
* An unknown `security_type`, or a request that the chip refuses, ends the attempt to connect for
  good: these are the exceptions in `Connects`.
* An upload that begins while an answer to an earlier one may still come (a *late* run) reads it as its own,
  and is a message ahead of its acks. The properties of `upload` exempt such runs, and the theorems with them: without `late` in them `EndLast` and `StaysForUpload` fail, and
  `FlashAsSent` does with `MaxRuns = 3`, when a late second run leaves bytes of its own under way.

### Bounds, and why they are enough

* `QSize = 5` for 64 (USB) and 32 (serial ring): one more than the longest packet plus the
  free slot, so the queue can be empty, partly full, wrapped and full, and serial's
  limit of three bytes a turn is a real limit. `QueueLength = 3` for 16: a parser
  reads one byte at a time, so only empty, full and in-between matter.
  The theorems hold for every size up to 255.
* Messages: one of each length, and a sysex message whose end falls in a second packet.
  The parser gets one byte of every kind it tells apart, in every order.
* `Budget` bounds how many packets, chunks and messages are begun (2 to 4, see each
  `.cfg`); it is in the guards. Two or three overlapping messages are what the races need;
  the theorems hold for every `Budget`. Runs whose inputs are used up and whose pin is low
  really stop, which `CHECK_DEADLOCK FALSE` allows in those runs only. (In `MLSysex` the host has no more to send.)
* `MLSysex`: an EEPROM of 128 bytes, so that the longest write `sysex_index` can count (122 bytes,
  its `SYSEX_END` at index 255) is within it; a default configuration of three bytes; three
  messages and one power cut, so that a command follows another, or a torn one, while bytes
  come from the jacks.
* MLSerial's ring gets bytes without bound, of two values: enough to tell orders apart.
* `NetStack`: two hosts and the router on the local network, one host beyond. The configurations are a target that is
  not set, with a security type that is known and one that is not, and the broadcast address as target. The ARP table has two
  entries (8 in the code), so that it fills and an entry is replaced; the clock has three values and an entry
  lives for two (256 and 120), so that the clock wraps within an entry's life. One `Budget` of 3 for
  everything the world and the musician do of their own accord: three frames, or a frame, a loss of
  connection and a MIDI message, in every order. Of frames, one of each kind `uip_process` tells apart; of
  hosts, one that announces two hardware addresses, so that the table must follow. The theorems
  hold for every table, clock, budget, configuration and set of frames.
* `ArpAge`: the firmware's own sizes, one host.
* `Uploader`: a page of 4 bytes in chunks of 2, an image that fills one page and begins another with an odd
  byte, an id of one byte; queues that hold the longest message but not two, so that they fill;
  two runs and one power cut, so that a second run meets what a broken first one left. What other
  programs may have left on the wire includes each way a message can be wrong.
* `OscMidi`: two messages under way; one pad, button, key, fader and switch; the two ends of a range and its
  middle; velocities 1, 64 and 127; messages that the code cannot carry (a value of 300, a y without its
  argument), as well as those it can. That a third byte comes back the same for each of its 128 values is
  an assumption of `MCOscMidi` (`EveryValueReturns`), which TLC evaluates before the run; so is what
  each message does to the notes when it is alone (`ControlsAlone`).

### Fairness

* `UsbOut`: the main loop goes on with what it has begun, since nothing blocks in it. The PIC
  reads while the pin is high: that is what the pin is for; assumed, as its code is not here.
  No fairness on any producer.
* `MidiDevice`: the main loop calls `midi_device_process` every time round.
  No fairness on the input.
* `MLSerial`: the main loop runs, and the USART sends what is in its register. None on the receive
  interrupt and the writers.
* `NetStack`: the main loop runs for ever; the interrupt comes when its line is low and it is not
  masked; the chip confirms what it was given. None on what the world sends, loses or refuses.
* `Uploader`: the bootloader's loop runs, the PIC carries and polls, the host reads what it gets. Nobody has to
  start an upload, give up, or pull the plug, and the time-out need not come.
* `MLSysex` and `OscMidi` have no liveness property and no fairness.

## What is proved

All theorems are for every value of the constants: queue and ring sizes up to 255, every
set of inputs, every budget, every interleaving. The only assumptions are the named ones in
the modules. On the MIDI side these are `QSizeAssumption`, `InputAssumption`,
`SwitchAssumption`, `QueueLengthAssumption`, `InputBytesAssumption`, `LineAssumption` and
`BudgetAssumption`: index and byte ranges, and that packets have one to three bytes. For the sysex commands
they are `EepromAssumption` (an EEPROM that 16 bits address and the default configuration fits in, with the
current version in front) and `MessageAssumption`: the two devices send whole messages, at most as
long as the eight bits of `sysex_index` count, and the writes among them have a whole address, half bytes in
pairs, and stay within the EEPROM. Messages that are no commands may be anything.

* **ByteQueueProofs**: enqueue appends to the contents or leaves them alone, remove takes off the
  front, and what both do to the indices stays inside the array. The wrap of an index
  (`Wrap`) is proved once. Removing from an empty queue makes `QSize - 1` bytes
  (`RemoveUnderruns`). Everything else rests on these.
* **UsbOutProofs**. `TypeInv` is `TypeOK` with what the main loop still has to send while
  it is in the middle of a packet. `TypeCorrect` follows. `NoLostWakeup` (`DataReady`), where the USB
  route is off and the PIC waits for the pin: the invariant is `DataReady` with the fact that
  nothing else writes the pin while the main loop has its copy. `Refinement`: every step
  is a step of `ByteStream` or a stutter, with the queue's contents and the last reply as
  the stream's state, with no restriction. `SysexReachesHostWhole` (`SysexWhole`), likewise: the invariant
  `ModeInv` says that the code's flag and what the host makes of the replies agree, or that a byte waits which tells them apart.
  `PacketsAreWhole` (`WholeMessages`), with the USB-to-USB route off: `WholeInputs` asks that each packet and chunk has,
  for every status byte, the data bytes it needs (`Framed`). `WholeInv` says the same of all that is ahead
  of the reader, in the queue and still with the main loop, from the place in a message that
  `usb_in_sysex_mode` stands for; alone, `WholeMessages` says nothing of a message of which only half has been enqueued.
* **MidiDeviceProofs**. `DeviceInv` adds to the types that inside a message the count is 1 or 2
  (`BufferSafe`), and that the queue holds what is left to process (`RemovesWhatIsThere`).
  `HearsCorrectly` (`HeardAsSent`): the inductive invariant `WireInv` says how parser and listener
  agree between bytes: unless garbled, the parser is in the state that the listener's status
  stands for, and its buffer holds what the listener heard. `HeardAsSent` alone is not
  inductive: it says nothing of a message half heard.
* **MLSerialProofs**. `SerialInv`: what the main loop has still to read is in the ring, and half way
  through a read the byte it holds is the ring's oldest. From it `ReadsSomething`
  (`NeverReadsNothing`) and `Refinement`; `LossBounded` (`OneLostPerCut`) is inductive by itself.
  The ring is mapped to a byte queue, so the queue's lemmas are used again.
* **MLSysexProofs**. The properties speak of a message as a whole, the code of its last byte and a count, so
  the inductive invariant `IInv` says what the part of the message already read has done. `Sent(m, n)`:
  all but the first `n` bytes of a message `m` are on their way. `Taken(m, n)`: what index, command, address
  and half byte are after those `n` bytes, and what the EEPROM is: as before the message, or, from the
  first whole byte of a write on, with as many of its bytes written as pairs have come. With the last byte
  this is `Meaning(m, before)`, which gives `CommandsCarriedOut` (`EepromAsSent`). `NoStrayWrite`
  (`NothingElseWritten`) follows from the same invariant, and across a power cut from `OffInv`.
  `SharedByOne` (`OneWriter`) rests on `SerialInv`: in what the parser hands over (`Pieces`) an F0 is
  followed within three bytes by another byte of 128 or more, so that the index of the jacks stays below four
  and never comes to the commands. That `|=` on a 16-bit word puts four half bytes together (`BitOrNibbles`)
  is proved half byte by half byte.
* **NetStackProofs**, first about `DriverSpec`: any program that keeps to the driver's interface, any chip of the kind
  described above. A few lemmas say what telling, fetching, noticing and keeping a message do to
  the messages that are pending and to how many there are of a type; everything else is a case split over the
  steps. `DriverOutstanding` (`OneOutstanding`): a frame is with the chip or is its one confirm, not both, and
  the driver waits exactly then. `DriverStatus` (`StatusTrue`): the last
  pending message that speaks of the connection says what the chip's state is, and if there is none the
  driver's flag does. `DriverStepKept` (`StepKept`): until something goes wrong the chip speaks only when
  asked, so that the step of the connection is one thing handed from hand to hand.
  Then the stack. What the searches of the ARP table return: `LeastElement` (a set of slots that is
  not empty has a first one) is what makes `First` and `Oldest`, both a CHOOSE, slots at all; update, ageing
  and look-up keep to their types. `Refinement`: each step of `NetStack` is a step of `DriverSpec` or a stutter, so
  the three theorems carry over without another look at the driver (`OutstandingCorrect`,
  `StatusCorrect`, `StepKeptCorrect`). `TableCorrect` (`TableTrue`) is inductive together with the types.
  `AddressCorrect` (`RightAddress`) follows from it step by step, `HeardCorrect` (`EveryMessageHeard`) from the
  invariant that the listening connection is unbound whenever the stack runs.
* **OscMidiProofs**. `NoNoteHangs` (`SoundsAsHeld`), from `EachAlone`: handled alone, the message of a pad, a button
  or a key strikes and releases its own note, and no other message touches a note. That one is a matter of
  the addresses the controls were given, not of the order things happen in; TLC evaluates it for the instance
  (`ControlsAlone` in `MCOscMidi`). The theorem is about the order: any number of controls, of messages under way and of
  restarts, two controls on one note included; of a run in which a message was lost it says nothing. `SoundsAsHeld` speaks only of states with nothing under
  way; the inductive invariant `HeldWillSound` says what every other state is worth: a note is held if the last
  message under way that speaks of it will strike it, or, if there is none, if it sounds now.
* **UploaderProofs**. Host and bootloader take turns, so the invariant `IInv` says whose turn it is and what has
  become of the one message that is under way. `Meant(c, a)`: which message that is, by the host's place in the
  file. Its first `n` bytes have been read, those behind them are in the bootloader's queue
  and on the wire, in order, and the parser has made of the `n` bytes what they say (`GoingAt`); or a page is
  erased but not yet written (`Erasing`); or the answer is under way, split over two queues (`AnsweringAt`). `Before` and
  `After` say what buffer and flash hold on either side of the command: the buffer holds the
  page's bytes as far as they were acknowledged and -1 behind them (`BufferHolds`), the flash all pages before.
  `Idle` is the state with nothing under way. `FlashAsSent` is the part `Acknowledged`; alone it is not
  inductive, since it says nothing of the page half filled. `UploadTypeOK` needs no more than itself and `BatchInv`,
  because the queues refuse what does not fit: it holds in late runs too. The other three do not: `FlashIsAsSent`
  and `EndComesLast` say nothing of late runs, `StaysForTheUpload` nothing of those in which the power has failed either. That the address of a message
  comes out as the host put it in (four half bytes, a shift and an or), and that the page of a byte
  is that of its chunk, are lemmas on division for each page size there is.

The assumptions here are `BootAssumption`, `UploadAssumption` and `SizeAssumption`: a page size out of the powers of two up
to 128, an even chunk size, files that fit the flash, and buffers that the longest message and the longest
answer fit in. The code's numbers meet them: an id of 9 bytes, pages of 128, chunks of 48, an unpacked
buffer of 64, 260 half bytes for the parser, queues of 128 and 64. Numbers of runs and of power cuts are arbitrary.

The assumptions on the network side are `G2100Assumption`, `ArpAssumption`, `NetAssumption` and
`FrameAssumption`: kinds of frames and ranges of addresses and ports, a table with at least one slot, a
clock that outlasts an entry's life, a router on the local network.

Only model-checked: the liveness properties (`Drains`, `ProcessReturns`, `RingDrains`, `Connects`,
`Flows`, `Answered`), as liveness and ENABLED are beyond the proof system; and of `OscMidi`, what a single message
does (`PlayedAsMeant`, `ConfigAsMeant`, `EachAlone`). The code picks values out of the tokens of an address and bytes out of the
items of a setting (`SelectSeq`, `Listed`); what such a recursion over a list computes for every list takes
an induction over data, which the provers cannot do.

## Not modelled, and the plan

Left out for good:

* uIP's TCP, `WiServer`, packet forwarding, split packets, protosockets and the neighbour cache: the firmware
  is built with the UDP application, which neither listens nor connects. This is most of the
  repository's code by lines, with the Arduino core, and none of it runs.
* The Arduino core, debug output, examples and tests, the bootloader's second copy of avrmidi (it links
  the queue only, which is `ByteQueue`).
* The parser's other callbacks and the `midi_send_*` helpers, `begin`, `end`, `peek` and `flush` of the serial
  port after start-up, the messages of a scan or a key retrieval in the driver: without a caller.
* The PIC's firmware and the WiFi chip's: not in the repository, modelled as far as the AVR sees them.
* The steps of an EEPROM write (avr-libc's), and so what two writers do to its address register; the
  host's stack, which `msg[64]` of the uploader does not keep to; images above 64 KB.

What the plan has left:

1. `TwiSlave`: the transmitter's buffer and the bus errors, so that `UsbOut`'s reply is read byte by byte,
   with the array `out` that was never filled.
2. `initConfig`'s copies of the single fields in RAM: of these only the OSC routes and the OSC target are modelled.
3. A theorem: that `MidiDevice`'s queue by contents is what `ByteQueue` implements.
