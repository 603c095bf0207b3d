# Verification of the DE1-SoC sorting line

The repository holds the program of a sorting machine: a NIOS II on a DE1-SoC
board runs `software/main/main.c` with a touch screen, and talks over serial
lines to an Arduino that drives conveyor, arm and laser (`arduino/main/main.ino`)
and to a Raspberry Pi that relays to a server. The VHDL of the serial chips, of
the graphics controller and of the display is part of the repository. It has no
tests.

This directory holds TLA+ models of the program, TLC configurations that check
them on small instances, and proofs that TLAPS checks for every instance. There
are three systems, each a composition of its own:

- the sorting line: controller, Arduino, operator and server, message by message;
- the display: drawing functions, bus, graphics controller and scan, clock by clock;
- the serial lines: touch panel and GPS receiver behind their chips, byte by byte.

They meet in the controller's loop. The sorting line takes from the others that a
drawing ends and that a packet arrives whole; the serial lines say when it does.

## Inventory

| Component | State | Operations | Talks to | Correct when |
|---|---|---|---|---|
| Super-loop, `main.c` | `curr_mode`, `curr_sort`, touch state, receive buffers, `cycle_id`, `category_scanned`, counts | `poll_*`, `handle_*`, `set_mode`, one sort step an iteration | everything, by polling | sessions open and close once, no object is counted twice, `boxes[]` is indexed in range |
| Arduino firmware, `main.ino` | `mainBuffer`, `sortBuffer`, `servoPos`, the motor, the laser | `loop`, `autoSort`, `sweep` | controller's line, beam, motors | belt at rest when idle, arm where ordered, every sort answered |
| Serial drivers, `arduino.c`, `rpi.c` | none | send a command or a message | the ACIA chips | what is sent is what the peer parses |
| Touch driver, `touchscreen.c` | none | enable, calibrate, poll | panel | a press and a release are told apart |
| GUI, `gui.c`, `graphics.c` | pixels | draw figures, text, images, buttons | graphics controller | a figure is drawn whole, in order, and a button looks as before after it is released |
| GPS, `gps.c`, `poll_gps`, `handle_gps` | `gps_buff`, `curr_time`, `gpgga_sentence` | gather, search, cut the time | GPS receiver | the time shown is the last one sent |
| `GraphicsController.vhd` | registers, command flag, state machine, line registers | draw a pixel or a line, read a pixel, program the palette | bus, frame buffer, palette | one command at a time with the arguments it was given |
| Bridge, `nios_system` to the bus | bus registers, acknowledgement | one access at a time | NIOS, graphics controller | the processor waits until the access is over |
| `ACIA_*.vhd` | ready flags, read strobe, transmitter state | receive, transmit | bus, line | no byte is read twice, none is lost when read in time |
| `LCD_Controller.vhd` | row and column counters, registered signals | synchronisation, data enable, blanking | display, palette writes | pulses lie in the blanking |
| `image_processor.c` | none | classify colours (not called by `main.c`) | - | the largest count wins |
| Glue: decoders, multiplexers, registers, fonts, palettes, images | none | select, copy | - | - |
| Generated and vendored: `nios_system/`, `main_bsp/`, PLL, RAM | | | | left aside |
| Raspberry Pi, server, remote control | external | answer `init`, `capture`, `done`; `ctrl/..` | controller | - |

What is hard here: three processors run at once and speak over lines with no
acknowledgement; the controller obeys an answer in whatever state it is; the
firmware has three readers of one line, each with its own idea of a command; an
operator, a five-second timeout, a laser beam and a server all race; the loop is
deaf while it draws or sleeps and its receivers hold one byte; and a drawing is a
handshake over a bus with registered flags, against a scan that never waits.
`PROJECT.json` lists each hazard at its line and the properties that watch it.

## Modules

| Module | Models | Uses |
|---|---|---|
| `Links` | the five serial lines and the words spoken on them | |
| `Controller` | the super-loop, one action per handler | `Links` |
| `ArduinoFirmware` | the firmware, one action per branch that changes state | `Links` |
| `ObjectLedger` | abstract: what becomes of an object on the belt | |
| `SortingSystem` | controller and board with operator, beam and server; the properties | all of these |
| `GraphicsCalls` | the primitive calls of `graphics.c` as register values | |
| `Bridge` | wait request, bus registers, acknowledgement | |
| `LcdTiming` | `LCD_Controller.vhd` | |
| `GraphicsController` | `GraphicsController.vhd` with the memories it writes | these three |
| `GraphicsDriver` | the transfers a call makes, the processor on the bus | `GraphicsController` |
| `Figures` | what a call means: pixels, palette entry, colour read | `GraphicsCalls` |
| `Canvas` | abstract: each call takes effect at once, in order | `Figures` |
| `Drawings` | the functions of `graphics.c` and `gui.c` as sequences of calls | `GraphicsCalls` |
| `Display` | the whole display; the properties and the refinement | driver, `Figures`, `Canvas` |
| `Acia` | `ACIA_6850`, `ACIA_RX`, `ACIA_TX` as a polling program meets them | |
| `SerialLines` | `init_touch`, the polls and the handlers, over two `Acia` lines | `Acia` |
| `MCSorting`, `MCDisplay`, `MCSerial` | constants of small instances | |
| `SortingSystem_proofs`, `Ledger_proofs`, `Session_proofs`, `Board_proofs`, `Patient_proofs` | theorems on the sorting line | `SortingSystem` |
| `Display_proofs` | theorems on the display | `Display` |
| `SerialLines_proofs`, `Recovery_proofs` | theorems on the serial lines | `SerialLines` |

### Controller

An iteration of the loop (`main.c:129-192`) is a `Poll`, then the handlers whose
input is complete, then at most one step of the sort. `pc` is the place in it:

    "poll" -> "touch" (if a packet came) -> "rpi" (if a message came) -> "sort"

- `Poll` stands for the three polls: they read different lines and write
  different variables, so one step is enough. `PollArduino` writes `curr_sort` in
  any mode, as the code does.
- `EnterAutoSort`, `EnterSweep`, `EnterOverride`, `EnterIdle` are the cases of
  `set_mode`, used by the touch and by the Pi handlers.
- `handle_touchscreen` is `TouchUnchanged`, `PressStop`, `PressAutoSort`,
  `PressSweep`, `PressPosition`, `PressNothing` and `Release`.
- `handle_rpi` has one action per message; none looks at the mode.
- `handle_arduino` is `ObjectReady`, `CycleTimedOut`, `ReplyNotUnderstood`.
- The rest of the sort is `InitializeAutosort`, `BeginCycle`, `CaptureImage`,
  `CountObject`.

`ts_buff` holds the button under the point (or `Nowhere`, outside of all),
`rpi_buff` the message, `ard_buff` the sequence of replies gathered since it was
last cleared. Drawing is left out but for the index `curr_btn` into `boxes[]`.
A poll that finds nothing in the loop changes nothing.

### ArduinoFirmware

A command is three elements: prefix, argument and carriage return, because its
end may be read by another reader than its beginning: `loop()` gathers in
`mainBuffer`, `autoSort()` in `sortBuffer`, `sweep()` in nothing. `ard_pc` says
who reads. `getCommand` (`main.ino:211-227`) returns no value for a buffer
without a known prefix: `GetCommand` then allows every command and none of them.
`currLaserState` is read before it is written (121, 130) and its readings are of
`laserPin` (131), so the beam may be found broken at any time of `autoSort()`.
`SweepStep` is the angle of a modelled sweep step: 1 in the code, 90 in the runs.
Splits inside a prefix or a number are not modelled, nor are the delays.

### SortingSystem

Adds what surrounds the two programs. The panel sends a packet when the finger
comes down, while it is held or dragged, and when it is lifted, each after the
last has been read. The server takes messages in order and answers each after any
delay: `init` by `cycle_id=`, `capture` by `cat:` or `retry`. It and the remote
control are not in the repository and are known from `rpi.c` and `handle_rpi`;
that `cat:` carries 1 to 4 is an assumption (`Bins \subseteq Bin`).

`Patient` chooses the operator. An impatient one touches anything at any time. A
patient one presses STOP at any time but touches anything else only when the line
is `Quiet`: every line empty, the board in `loop()`, the mode `MODE_IDLE`.

`ObjectLedger` says what the line promises about objects: detected once, then
under way, then counted once or lost. `SortingSystem` maps its counts onto it:
`pending` is `OnTheWay`, the replies, requests, answers and the sort state that
stand for an object wherever they are.

### Display

One step is a clock of the 50 MHz bus: `BridgeClock`, `GraphicsClock` and one action
of the processor together, with or without a tick of the slower pixel clock
(`LcdTick`). Registers of the VHDL keep their names.

- `Bridge`: `waitrequest` holds the processor until `acknowledge`, which follows
  the enable by a clock and falls a clock after it. The processor issues its next
  access only after that: a `nios2/e` takes six clocks or more for an instruction.
- `GraphicsController`: `CurrentState` and one operator per state of the VHDL case,
  `Idle_H` and `CommandWritten_H` registered as there, the video memory written a
  clock after the state asks (`sram`), the palette through its port.
- `GraphicsDriver`: `TransferAt(call, n)` is the n-th access of a call:
  `WAIT_FOR_GRAPHICS`, the arguments, the command, and for a pixel read the second
  wait and the fetch. A status that reads busy is read again.
- `Drawings`: `Line` (its own Bresenham in software), `HLine`, `VLine`, rectangles
  filled, empty and bold, counters, text, silhouette, palette, `draw_screen`,
  `reset_button`, `reset_counters`. Coordinates, font and images are parameters.
- `Canvas` is the abstract specification. `Display` implements it with `screen` the
  frame as it will be when the command in flight is finished.

### SerialLines

A byte is an event of its line; `Acia` has the flags between it and the program:
`Req` and `Ack`, both low when a byte is ready (also after reset, when none
came), the read strobe `Rd`, which clears the flag some clocks later, and the
transmitter's states. `SerialLines` has the program's loops over them: `put_char`,
`get_char`, the search for the sync byte, the polls of `main.c:196-228` and the
handlers. `pc = "busy"` stands for everything that takes longer than a byte:
`usleep`, the drawing of the time or of a silhouette. The wait for the rest of a
touch packet (`main.c:223`, about 4 ms at 9600 baud) makes the program deaf to the
GPS in the same way. `taken`, `last` and `intact` are history: what was read, and
which packets and sentences came through as sent. `losses` bounds the bytes of a
line that may be lost; the theorems hold for every bound.

Two assumptions on timing: a byte overruns another only while the program is deaf
to the line or has just come back to it, since otherwise it polls a thousand times
in a byte; and the GPS receiver is heard only once its line is set up.

## Runs

| Run | Instance | Checks | Result |
|---|---|---|---|
| `patient` | patient operator, every kind of button | `BeltOffWhenIdle`, `OverrideInForce`, `ArmAtCountedBin`, `DoneClosesSession`, `CycleInSession`, `BoardFreeAtBegin` | holds |
| `hasty` | impatient, every kind of button | `BoxIndexInRange`, `SessionsDoNotNest` | holds |
| `remote` | impatient, every message of a remote control | `TypeOK`, `CategoryKnown`, `SweepHeld`, `NoObjectCountedTwice`, `ObjectsAccounted` | holds |
| `live` | patient; sort, stop, sweeps | `SweepStops`, `BeltStops`, `ArduinoAnswers` | holds |
| `stale_reply` | patient; sort and stop | `ReplyObeyed` | violated |
| `lost_stop` | patient; sort and stop | `StopUnderstood` | violated |
| `early_stop` | patient; sort and stop | `DoneNamesItsCycle` | violated |
| `late_answer` | impatient; sort and stop | `CycleInSession` | violated |
| `display` | lines in every direction, buttons, counters, text, an image, the first screen, on 8 by 8 pixels | `TypeOK`, `DrawnAsMeant`, `ArgumentsHeld`, `PaletteWrittenInBlanking`, `SyncInBlanking`, `BlankMeansDark`, `DrawsAsCalled`, `ProgramEnds` | holds |
| `vertical_line` | the outline of a rectangle | `DrawnAsMeant` | violated |
| `serial` | five touch packets, or six sentences, with up to two bytes of a line lost; three sentences, or a touch among the sentences, with any losses | `TypeOK`, `PacketsRecovered`, `SentencesRecovered`, `GpsBufferBounded`, `TimeUpToDate`, `EachByteOnce`, `InitEnds`, `StuckOnlyByLoss` | holds |
| `torn_sentence` | three sentences | `TimeIsFromGps` | violated |

The passing runs of the sorting line show three levels of what the code guarantees.
Some properties hold whatever anyone does (`remote`). Some hold for any use of the
touch screen but not with the remote control (`hasty`): a session started by
`ctrl/as` has no pressed button and ends in `reset_button(boxes[-1])`
(`main.c:403`), so `BoxIndexInRange` fails with `RemoteCmds` non-empty. The rest
hold only when no answer or reply of a stopped session is under way as the next
one starts (`patient`): the code identifies neither answers nor replies, and
`late_answer` shows what happens else. With an impatient operator
`BeltOffWhenIdle`, `ArmAtCountedBin`, `DoneClosesSession` and `BoardFreeAtBegin`
fail in the same way. `ArduinoAnswers` needs a line without remote control too:
`sweep()` takes the carriage return of `ctrl/as` for its stop (`main.ino:185`), the
board never starts, and the session hangs.

`display` shows that the handshake is sound although `Idle_H` and the
acknowledgement are registered: the acknowledgement takes as long as the flag. Its
properties are of three kinds. `DrawsAsCalled` is the refinement of `Canvas`: what
the hardware draws is what `Figures` says of each call. `DrawnAsMeant` compares the
finished frame with a picture: the points nearest to an ideal line, a counter whose
new digits have replaced the old ones, a silhouette and the mixed figures as sets of
pixels; a button that looks as before it was pressed. Two pictures lean on
the drawing functions themselves, so that only what is drawn later is compared with
something else: `PressedAndReleased` is meant to look as the button drawn once does,
and in `FirstScreen` the boxes below the labels are the functions' own. The zigzag of a
vertical line of the hardware does not show there, since the sides of these boxes
have it in both, and the `CENTER_LINE` of the first screen has length 0: it shows in
`vertical_line`.
The others are about the handshake and the scan.

`serial` bounds the damage of an overrun: a lost byte costs two packets or two
sentences at most and the line recovers; nothing is lost or late otherwise, but
for the first sentence of all, which the byte flagged after reset always spoils.
`gps_buff` grows by a sentence for every lost newline in a row, so that three or
four of them overflow its 256 bytes. `StuckOnlyByLoss` says that the loop goes on
unless a byte of the panel is lost; then it waits at `main.c:223` until the screen
is touched again.

### What the violated runs show

- `stale_reply` (`main.c:391`): a reply that crosses a STOP stays in `ard_buff`.
  The next session's reply makes it `"ls\nls\n"`, which matches nothing:
  `SORT_IDLE` in `MODE_AUTO_SORT`, and only STOP leads out.
- `lost_stop` (`main.ino:164`): `sortBuffer` is not cleared when the beam ends the
  sort. A half-read STOP stays in it and makes the next STOP unreadable.
- `early_stop` (`main.c:491`): a STOP before the answer to `init` closes the cycle
  of the session before.
- `late_answer` (`main.c:432`): the answer to a stopped session overwrites
  `SORT_INIT` of the next, which then never sends its `init`.
- `vertical_line` (`GraphicsController.vhd:812`): a vertical line takes its byte
  select from the row and zigzags between the two columns of a pair.
- `torn_sentence` (`main.c:258`, `gps.c:41`): two sentences whose newline was overrun
  are one string; `$GPGGA` is found in the second and the time cut from the first.

### Bounds

Of the sorting line: `MaxTouches`, `MaxObjects`, `MaxRetries` and `MaxRemote` bound what the
environment does; they are counted down in `left` and bound nothing the programs
do. All lines are unbounded sequences.

- `patient`, 5 touches: start, stop, and start again, or a sweep or an override
  between two sessions, with a touch left to drag. 2 objects and 1 retry, so that
  a second object is counted with the arm where the first one left it.
- `hasty`, 4 touches: start, stop, start, stop with no wait between them.
- `remote`, 2 touches and 1 message: a message can cut into every state a press or
  a press and a stop lead to, and start or stop a session.
- `live`, 4 touches: two sessions with their stops, or a sweep and a session.
- The violated runs have the smallest bounds that show the trace.

One point of each kind is enough for `Buttons`, since the code treats the
positions alike but for the angle. `Bins` is one category, other than the bin of
the initial angle 0 and of the position button used, so that an arm that was not
set is seen. Symmetry is not used: buttons and categories are numbers with
meaning. The programs always have a step (the loop polls for ever), so deadlock
is checked though it cannot be expected.

Of the display: 8 by 8 pixels, so that addresses wrap and pairs of columns matter,
and lines from (3, 3) to 25 points in all eight octants, straight and degenerate
ones included; intervals of one clock, the shortest there are, with every phase of
the pixel clock; a thickness of 2 for bold boxes, characters of 2 by 2, three
colours. The functions draw with loops over these parameters, and the smallest
loops with a first, an inner and a last turn are here. `Pictures` is a set, so that
each run of the program is one of them.

Of the serial lines: what may go wrong after a loss is at most two packets, or two
sentences and the first, so that the traffic has to be longer than that to tell
whether the line has recovered: five packets, six sentences, with at most two bytes
of a line lost (`losses`, a bound in the guard of `ByteEnds`). Both bounds are reached,
with one byte lost and with two. Three sentences, and a packet among
sentences, are run with any bytes lost (`AnyLosses` is more than there are).
A packet has its five bytes, a sentence four
(header, comma, field, newline), since the code looks at no other. The traffic is
finite and the wait for a packet may be without end, so deadlock is not checked in
`serial` and `torn_sentence`; `StuckOnlyByLoss` states what may stop.

### Fairness

`WF(Controls)` and `WF(ArduinoReads)`: the two loops run for ever and read what
has arrived, with nothing in the system able to stop them. `WF(TimesOut)`:
`autoSort()` compares `millis()` in every turn of its loop, so the five seconds
pass. `WF(Server)`: the server answers; without it a session may wait for its
cycle id for ever, and no property is about that. The operator, the remote
control and the objects on the belt owe nothing.

`Display`: `WF(Scans)`, the pixel clock runs; `WF(Draws)`, the program goes on to its
next access. Waits for the bus need none, since every step is a clock.
`SerialLines`: `WF(Controller)`, the program goes on, and `WF` of each line, a byte
begun is completed and what is to be sent comes. No fairness keeps a byte from
being overrun.

## Proofs

For every value of the constants that the named assumptions of the modules allow:

| Theorem | Says | By |
|---|---|---|
| `TypeCorrect` | `Spec => []TypeOK` | `TypeInv == TypeOK /\ CategoryKnown` is inductive |
| `CountedObjectExists` | `Spec => []CategoryKnown` | the same |
| `SweepIsHeld` | `Spec => []SweepHeld` | `SweepHeld` is inductive by itself |
| `RedrawsAreInRange` | `RemoteCmds = {}` implies `Spec => []BoxIndexInRange` | `ButtonInv` is inductive with `TypeInv` |
| `LineKeepsLedger` | `Spec => ObjectsAccounted` | every step is one of `ObjectLedger`, with `TypeInv` |
| `NoneCountedTwice` | `Spec => []NoObjectCountedTwice` | the ledger keeps the sum |
| `SessionsAreSeparate` | `RemoteCmds = {}` implies `Spec => SessionsDoNotNest` | `SessionInv` is inductive with `ButtonInv` and `TypeInv` |
| `SyncIsInBlanking`, `BlankIsDark` | the scan's invariants | `ScanInv` |
| `PaletteIsWrittenInBlanking` | `Spec => []PaletteWrittenInBlanking` | `ScanInv` and the state that wrote |
| `ArgumentsAreHeld` | `Spec => []ArgumentsHeld` | `HandshakeInv` is inductive |
| `DisplayTypeCorrect` | `Spec => []TypeOK` of the display | `DrawingInv` is inductive |
| `CanvasIsImplemented` | `Spec => DrawsAsCalled` | every clock is a step of `Canvas` or none, with `DrawingInv` |
| `PicturesAreDrawn` | `MeantAsCalled` implies `Spec => []DrawnAsMeant` | the steps of `Canvas` that are done |
| `BeltStopsWhenIdle` | `Patient`, `RemoteCmds = {}` imply `Spec => []BeltOffWhenIdle` | `PatientInv` is inductive with `ButtonInv` and `TypeInv` |
| `OverrideIsInForce` | the same for `OverrideInForce` | the same |
| `ArmStaysAtCountedBin` | the same for `ArmAtCountedBin` | the same |
| `DoneClosesAnOpenSession` | the same for `DoneClosesSession` | the same |
| `CyclesAreInSessions` | the same for `CycleInSession` | the same |
| `BoardIsFreeAtBegin` | the same for `BoardFreeAtBegin` | the same |
| `BytesAreReadOnce` | `Spec => EachByteOnce` | `ByteInv` is inductive |
| `SerialTypeCorrect` | `Spec => []TypeOK` of the serial lines | `TypeInv` adds where the program and the two chips are |
| `PanelRecovers` | `Spec => []PacketsRecovered` | `PanelInv` is inductive |
| `ReceiverRecovers` | `Spec => []SentencesRecovered` | `ReceiverInv` is inductive |
| `BufferIsBounded` | `Spec => []GpsBufferBounded` | the same |
| `TimeIsUpToDate` | `Spec => []TimeUpToDate` | the same |

**Types.** `TypeOK` alone is not inductive: `CountObject` keeps the type of `count`
and sends a known position only if the category is one of the four, which holds
since only `cat:` leads to `SORT_IMG_READY` and nothing unsets the category.

**Buttons.** `BoxIndexInRange` says that `boxes[]` is never indexed by -1. Why
`curr_btn` is set when it is used goes back several presses, hence the parts of
`ButtonInv`: `StopHeld` (from a STOP to its release the pressed button stays known),
`ModeHasButton` (a mode other than idle was entered by a button, which is still in
`curr_btn`), `SweepHeld`, `SortPlace` (a sort step runs only in `MODE_AUTO_SORT`)
and `OnlyAnswers` (no message on the line is a remote command). The last needs
`RemoteCmds = {}`; without it the theorem is false, as said above.

**The ledger.** An object under way is in one of six places: a reply on the line or
in `ard_buff`, a request for its image, the server's answer on the line or in
`rpi_buff`, the sort state. Lemmas on `Occurrences` say what appending to a line and
taking its head do to the number of words of a kind on it; one lemma per handler
says that what leaves one place enters at most one other. No invariant beyond the
types is needed, which is why the ledger holds whatever the remote control sends:
the order and the mode in which an answer is obeyed do not matter to it. That no
object is counted twice follows from the refinement.

**Sessions.** `SessionInv` looks at the messages still on the line: `Alternates` (no
`init` while the last `init` or `done` before it, or what the server has seen, left a
session open) and `EndInSession` (if the line ends open, the controller is in
`MODE_AUTO_SORT` and past `SORT_INIT`). Two lemmas move `Alternates` over a message
sent and a message taken. `SortPlace` and `OnlyAnswers` of `ButtonInv` are needed: a
remote `ctrl/as` in a session would open a second one.

**Patience.** The six properties of `patient` need that no answer and no reply of a
stopped session is under way when the next begins, since the code could not tell
them apart. `PatientInv` therefore speaks of the contents of every line at once:

- `StartInv`: a press other than STOP was begun when the line was `Calm`, and
  nothing has begun since, while the packet is on its way and while it is handled.
- `ServerInv`: in `MODE_AUTO_SORT` at most one question is open, the one the sort
  state waits for, and the session is open from the answer to `init` on. In the
  other modes the session is closed, or `done` is on the line behind the question
  that STOP left open.
- `BoardInv` says for each mode and sort state what the board may have to read
  (`Unread`, its two buffers and the line together) and what the arm and the belt
  will be when it has: a session's start, an arm set for the category counted, a
  sweep, an override, or the end of one of them. A STOP may lie half in `sortBuffer`,
  half on the line; `BufferInv` says which halves occur. A quiet board is at rest
  because nothing unread can be any of these.
- `PlaceInv` and `FingerInv`: a message is handled in the iteration that read it,
  and the panel has at most one packet under way.

`Patient` is needed (`late_answer` is the counterexample without it), and so is
`RemoteCmds = {}`: the remote control waits for nothing. `Board_proofs` has the
lemmas on commands gathered element by element, which say what each of the two
buffers makes of them.

**The handshake.** `ArgumentsHeld` is kept by four parts together. `DriverInv`: the
transfer under way is the one the call is at. `BusInv`: the bus carries it, and an
acknowledgement belongs to it. `ControllerInv`: `Idle_H` is high only in the states
before a command starts. `TurnInv`: while the driver writes registers the controller
is idle, and a command just written leaves the driver no access but a status. The
program, the picture and the phase of the scan are arbitrary.

**The figures.** `DrawsAsCalled` compares the loops of the hardware with the closed
forms of `Figures`. The canvas changes in the clock that ends the transfer of a
command and stands still until the next, so that the proof has three things to say,
and `DrawingInv` adds them to `HandshakeInv`:

- what the registers hold when the command arrives is the call (`ArgsInv`: each
  argument, from its transfer to the end of the call);
- what is written while the figure is drawn belongs to it (`WriteInv`), and when the
  controller is idle again all of it has been written. `StraightInv` and `LineInv`
  name for each state the pixels that are `Done`, in the memory or in the output
  registers on their way there. For a slanted line, with `k` pixels drawn and `m` steps
  taken along the shorter side, `AtPixel` gives the error register as
  `2 * dY * (k + 1) - dX - 2 * dX * m` and bounds it so that `m` is the rounded
  quotient of `Figures` (`MinorIs`); `PastPixel` is the same after the pixel and lets
  the inner loop of `DrawLine5` take as many steps as it needs. The lemmas on `%`
  say that a point of any line, however far it runs, is clipped to a pixel of the
  screen and that its byte select is that of its column;
- what `ReadAPixel` fetches is the pixel on the screen (`ReadInv`, `FetchInv`): the
  address, the pair of pixels at the output and the latch in turn, with nothing
  written from the command to the fetch.

There is one lemma for each state of the VHDL case, and each says that the invariant
is kept and that a figure left for `Idle` is complete. The types need the same
invariant, since the colour register is known to hold a palette number only once a
command has written it (`ColourInv`).

`DrawnAsMeant` compares with a picture stated by hand, and no theorem can say that a
picture of the runs was stated well. `MeantAsCalled` leaves just that to the pictures:
each is what its calls draw one after the other. It fails for the rectangle of
`vertical_line`, as the run shows.

**The scan.** `ScanInv` gives each registered signal the window of the counter it was
computed from, one clock ago, for any positive intervals.

**Bytes.** `Fresh` relates the ready flag, the strobe and the number of the byte last
read: a byte shown as ready and not being read is a newer one. It survives a stop
bit that meets a read.

**Lost bytes.** `TypeInv` of the serial lines holds that a receiver is `Settled` between
two events (its flags are those its process would compute again) and that no more
bytes were read than sent. The bounds on losses cannot be proved from the totals,
for a loss is paid for once and then forgotten. `PacketAt` and `GpsAt` therefore
name what is being read: the packet, or the sentences since the last newline
handled, and how many of the bytes lost (`LostBefore`) were lost since it began.
The losses before that have been paid for with two packets or two sentences each;
those since are what may be wrong with the contents. With none since, the buffer
is exactly what was sent, so that an intact sentence follows. `InitInv` is needed
for the panel's bound: `init_touch` is deaf to nothing and loses nothing, hence the
first packet starts with the fifth byte. Both invariants hold for any traffic that
`TrafficAssumption` allows and for a program that is busy at any time.

Only model-checked: that the pictures of `display` are what their calls draw
(`DrawnAsMeant` without `MeantAsCalled`; the loops of the drawing functions are
recursion over data), and all liveness, `SweepStops`, `BeltStops`, `ArduinoAnswers`,
`ProgramEnds`, `InitEnds` and `StuckOnlyByLoss`, which the provers cannot reason about.

## Not modelled

- The byte buffers of the board's and the Pi's lines: a message arrives whole at the
  sorting line's controller. Their chips and polls are those of `SerialLines`, but
  `rpi_buff[16]`, `ard_buff[8]` and `sub[4]` (`main.c:429`) have no memory around them
  in these models to overflow into.
- Time: the delays, the half seconds of `usleep` as such.
- Of the chips: parity, framing errors, interrupts and the division of the clock,
  which no program uses; of the bridge, its time-out, which is not reached.
- `check_switches` and the LEDs, calibration of the panel, functions nothing calls.
- The crossing of `VSync_L` from the display's clock of 30 MHz into the 50 MHz of the
  graphics controller, which has no synchroniser (`GraphicsController.vhd:686`): in
  `Display` every signal is sampled with a definite value.
- The contents the palette is loaded with (the `.mif` file of
  `ColourPallette_2PortRam.vhd`): it begins with zeros, and no property reads it before
  it is programmed.
- A reset of one of the processors while the others run on; nothing is persisted,
  so that it is a start of one against the others, which the code does not handle.
- Image processing (not called by this program), WiFi, combinational VHDL.
- Tables and generated code: the fonts alone are 12 700 lines, `main_bsp/` and the
  Quartus output most of the rest. They hold no control of this program, and the
  share of the repository's lines that is modelled stays small for that reason;
  reasons for each part are in `PROJECT.json`.

## Plan

Done: the control of the sorting line with its ledger of objects; the display from
the drawing functions to the scan; the serial lines of panel and GPS; their proofs.
Left, in this order:

1. The Pi's and the board's lines byte by byte, as `SerialLines` has the GPS.
2. `image_processor.c` as functions against a reference classification.

## Running

    tlc -workers 2 -config MCSorting_patient.cfg MCSorting.tla
    tlc -workers 2 -config MCDisplay_display.cfg MCDisplay.tla
    tlc -workers 2 -config MCSerial_serial.cfg MCSerial.tla
    tlapm SortingSystem_proofs.tla

and likewise for the other configurations and proof modules. The largest run,
`patient`, has about 800 000 states and takes under a minute; `display` has 255 000
larger ones and takes two minutes. The proofs of `Display_proofs` are the longest and
take two minutes from nothing.
