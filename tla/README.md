# A verification project for the plotter firmware

The program is the firmware of a two-axis pen plotter on an NXP LPC1549 under
FreeRTOS. A host sends G-code lines over USB serial; the firmware finds the
length of both axes after power-up, then draws each line by stepping two
motors from a timer interrupt. This directory holds TLA+ modules of it, TLC
configurations, and proofs checked by TLAPS. Paths below are relative to the
repository, `src/Emb_Sys_Proj.cpp` unless another file is named.

## 1. Inventory

### Parts, their state and their operations

| part | code | state | operations |
|---|---|---|---|
| stepping driver | `RIT_start`, `RIT_IRQHandler` (77-161) | `xSteps`, `ySteps`, `stepTurn`, timer, NVIC mask, `sbRIT` | start n toggles and wait; the handler |
| calibration | `vCalibrate` (257-298) | `xStepsTaken`, `yStepsTaken`, `scaledX`, `scaledY`, `xCalibrated`, `yCalibrated` | seek Start, count to End, back off 2 % |
| line drawing | `triggerMotors` (193-253) | `x0 y0 x1 y1 dx dy`, `error`, `deltaError`, `xDominating` | one G1 |
| motors and pins | `Motor.cpp`, `DigitalIoPin.cpp` | step, direction and limit pins | `setDirection`, `driveISR`, `read` |
| command dispatch | `vStepperTask` (354-394) | `gObject` | receive, execute, answer OK |
| parser task | `vParserTask` (300-352) | line buffer, `gObject` | receive packets, assemble a line, enqueue |
| G-code parser | `GCodeParser.cpp` | last coordinates and angle | `read` |
| command queue | `commandQueue`, length 1 | one `GObject` | send, receive |
| USB serial task and API | `cdc_main.c` | send, receive and allocation queues, `SendMutex`, `SendComplete`, the interrupt and the connection | `USB_send`, `USB_receive`, `cdc_task` |
| VCOM driver | `cdc_vcom.c` | `rx_count`, `rx_rd_count`, `rx_flags`, `tx_flags`, the registered handlers | `vcom_init`, endpoint handlers, `vcom_bread`, `vcom_read_req`, `vcom_read_cnt`, `vcom_write` |
| descriptors | `cdc_desc.c`, `find_IntfDesc` | constant tables | find an interface |
| servo | 171-190, 258, 373-375 | one match value | lift or lower the pen |
| statistics timer, ITM, start-up | 165-169, `ITM_write.c`, `cr_startup_lpc15xx.cpp`, ... | registers | set-up |

### How they interact

    host --USB--> VCOM driver --cdc_task--> vParserTask --commandQueue--> vStepperTask
                                                                               |
    vCalibrate ---------------- RIT_start <---- triggerMotors <----------------+
                                  |    ^
                     xSteps, ySteps   sbRIT
                                  v    |
                             RIT_IRQHandler --> motors --> carriages --> limit switches

* `vCalibrate` (priority 3) and `vStepperTask` (priority 2) share the driver,
  both direction pins and the calibration flags. No lock protects any of them:
  that the two do not meet rests on the host sending its first G1 late enough.
* The handler shares `xSteps`, `ySteps`, `stepTurn` and `sbRIT` with whichever
  task is in `RIT_start`. What orders them is the timer being off and the
  interrupt masked outside a call.
* Calibration writes the two scales that line drawing multiplies by.
* `vParserTask` and `vStepperTask` (both priority 2) share `gObject` besides
  the queue that was meant to separate them.
* `cdc_task` (priority 1) shares the VCOM control block with the USB interrupt.

### What is hard, and what makes each part correct

* Driver: interrupt against task at every statement of `RIT_start`; a latched
  interrupt or a semaphore left over from the previous call; one phase
  `stepTurn` for two motors; counts of two tasks overwriting each other.
  Correct when a call makes exactly the steps asked for, leaves nothing behind
  and always returns.
* Calibration: unknown positions at power-up; counts, truncation and back-off
  off by one. Correct when what was counted is where the carriage stands, and
  when it ends.
* Line drawing: an error term that is never reset, decided by rounded doubles;
  rounding of each line's length; closed switches. Correct when the pen stays
  on the ideal line, every line ends, and drift is bounded.
* Command path: `gObject` overwritten while the parser is blocked; answers the
  host never gets. Correct when commands are executed once each, in order, with
  the pen where the host put it.
* From packets to commands: a line cut by a packet boundary; numbers read on
  into old characters. Correct when what is queued is a line of the host, with
  the numbers of that line.
* USB path: read-modify-write races with the interrupt, buffer ownership, sends
  that never complete, a start that fails half way, descriptors that must agree.
  Correct when bytes arrive once, in order, and the host never meets a device
  that is half there.

`PROJECT.json` lists each hazard at its line, with the properties about it, or
what is planned for it.

## 2. Plan

In the order of writing; steps 1 to 8 and 10 are done.

1. `Carriage`, `PlotMath`: the plant and the arithmetic.
2. `Rit`, with `RitInv` and `RitProofs`: the stepping driver for any number of
   calling tasks. Its properties for every track and set of tasks are proved.
3. `Line`, with `LineInv` and `LineProofs`: the abstract specification of
   drawing, each motor step atomic. Its bounds are proved.
4. `Motion`, with `MotionProofs` and `CalibrationProofs`: the real callers over
   the real driver. It implements `Rit` and `Line` (both proved).
5. `Commands`, with `CommandsProofs`: host, parser task, `gObject`, queue,
   stepper task and answers.
6. `Vcom` and `CdcSerial`, with `CdcProofs`: the port driver against its
   interrupt, and the task and the calls above it.
7. `GCode`, with `GCodeProofs`: line assembly over packets cut anywhere, and
   `GCodeParser`.
8. `Desc` and the start of `cdc_task`: descriptors, `find_IntfDesc`, handlers,
   failures of the ROM driver. `Service`: what the host is promised, which
   `Commands` implements (its safety proved, the rest checked).
9. The origin lost when a G1 comes before calibration; a stream each way as the
   abstract specification of `CdcSerial`.
10. Proofs: `InOrderOnce` and `OKMeansDone` for a host that does not pause, the
   properties of `CdcSerial` for every pool and set of senders,
   `CalibrationMeasuresTrack`, the refinement of `Line` by `Motion`,
   `DriftBound`, the properties of `GCode` for every set of lines and packet size.
11. A proof still worth having: the bounds of `Line` stated of `Motion`'s own
   variables.

## 3. The modules

`Carriage` has what the code drives: positions in motor steps from the Start
switch, the two switches of each axis, and one step's effect. At the end of
`Rails` a motor stalls.

`PlotMath` has the arithmetic. Doubles become integers: a coordinate counts
`1/Q` mm, a distance `1/Q` step, the error term `1/(2*Half)`. `abs(dx)` is
either the int or the double overload, as the toolchain decides (`wholeAbs`,
chosen once). `error > 0.5` after inexact additions may go either way exactly
at the tie (`Crosses`): `exact` remembers whether any sum so far could have
been rounded. The back-off and the truncated 98 % are integer formulas; the
doubles 0.02 and 0.98 are within rounding of the exact quotients, so that the
product is the correctly rounded one for every count an int axis can have.
The coordinates themselves are multiples of `1/Q` for a power of two Q, which
doubles hold exactly; `Q` is 1 or 2 in the runs.

`Rit` is the driver. `RIT_start` is one action per access to something the
handler shares: stop the timer (`Call`), the two counters (`SetX`, `SetY`),
start it (`Arm`), `Unmask`, `Take` and `Mask`. The handler `RIT_IRQHandler` is
one action: nothing preempts it. A match may fall between its first line and
its stopping of the timer; then it runs once more with both counters at zero.
`TaskMayRun` says that an unmasked pending interrupt comes before the next task
instruction. Every call in the source asks for two toggles of one axis, so
`Count` is 2 or 0, and the rising edge is the motor step. Callers are abstract:
they call, turn the direction pins and set calibration flags; with `Exclusive`
they do so only when nobody is in a call, and never ask for an axis that the
handler ignores.

`Line` is `triggerMotors` with atomic steps, an action per stage of the loop.
`hist` is history only: no guard but the bound `MaxLines` on commands reads it.

`Motion` has `vCalibrate` and the G1 case of `vStepperTask`, each calling the
real driver. Each action corresponds to a stretch of code between two calls
of `RIT_start`; `PROJECT.json` gives the lines. `vStepperTask` moves only while
`vCalibrate` is blocked or gone (the priorities, 453-461). `EarlyG1` says
whether the host may send a G1 during calibration.

`Commands` has the two tasks that share `gObject`, and the queue of length 1
between them. The parser assigns the fields one by one (`Assign`), then blocks
in `SendCommand`, which copies `gObject` when there is room; the stepper copies
the queued command into the same `gObject` (`ReceiveCommand`), reads its kind
(`Switch`) and then its arguments (`Execute`). Line n of the host carries the
number n as its arguments, so that a command executed with those of another is
seen. `TenSeconds` is the timeout of the stepper's receive: it passes only
while all tasks wait, since nothing they do takes that long, but the answer to it
may come when a line is already on its way. `pulse` is the match value of the
servo. It is part of the effect of a G1: a line drawn with the pen up where the
host had lowered it is not the line it asked for. A line comes in one packet
here; `GCode` shows what that is worth.

`Service` is the abstract specification: the host asks, the effect happens, the
host is answered. `Commands` implements it (`ImplementsService`), with
`outstanding` for `waiting` and the same histories: the host's reading of an OK
is the service's answer, also of the idle OK that follows an unknown line.

`GCode` has the host's lines as characters, delivered in order and cut into
packets anywhere. `Fragment` and `Complete` are the two ways through the loop of
`vParserTask`, whose index starts at 0 for each packet; `Read`, `Angles` and
`ParseCoords` are `GCodeParser`. `temp` is not set before it is used, nor does
line 51 terminate it, so `atof` goes on into what was there before, and behind
`temp` if eight characters were stored. A member of `Stack` is the memory from
`temp[0]` up to a terminator behind the array. It is assumed that the loop
changes no more of it than the characters it stores, though locals may lie behind
the array. `Garbage` says what the members and `angle` may be before anyone sets
them. `Atof` takes the longest number at the start and the exponent behind it, if
there is one; `StackAssumption` asks of the memory that there is no x in it, with
which `atof` would read a hexadecimal number. `Angles` takes the digits before
the point, as `%d` does, and stores no angle if there are none. Values are
integers, in units of the last of `Places` decimals; what lies beyond is dropped,
and an exponent may make them larger than a double can be. `IsLine` says which
lines the host sends, and `LinesAssumption` that it sends no others: M and G only
begin a code; no code is longer than one that is read (M11 would be read as M1,
G10 as G1); no line names a coordinate twice; an argument has a number of at most
8 characters, which is what `temp` holds, with at most `Places` decimals and no
sign; the first argument of an M1 has no letter.

`Desc` has the three descriptor tables, byte by byte where the code or a host
looks at a byte, `find_IntfDesc` over them, and what a host makes of them.

`Vcom` is the port driver: `vcom_init`, which registers the handlers and may be
refused by each of the three calls to the ROM driver, the last time with the IN
handler registered already; the four handlers at interrupt level, one action
each, and `vcom_bread` and `vcom_write` as cdc_task runs them, one action per
access to what the handlers change; a critical section is one action. A handler
runs if it is the one registered at the index of its endpoint. A block stands for
what one receive buffer or one packet holds. The endpoints are external: a
transfer of the host goes into the buffer the OUT endpoint was given, and a
packet written into the IN endpoint replaces one that is there.

`CdcSerial` adds cdc_task, from the creation of its queues through the start of
the USB to its loop, the pool of receive buffers with its two
queues, `USB_receive` and `USB_send`. When the ROM driver refuses, the task goes
on to wait for a host that cannot connect (`ret` remembers it). `DelayOver` is an
assumption: the delay of ten ticks that the other tasks begin with is longer
than the creation of the queues.

`MC*.tla` give the constants small values and add nothing else; `Commands` and
`CdcSerial` need none.
Definitions whose comment says *Mutation* are broken variants of the definition
after them; nothing uses them, and a property that cannot tell the two apart
would be worthless.

## 4. The runs

| run | configuration | states | what it shows |
|---|---|---|---|
| `rit` | `MCRit.cfg` | 157 160 | two callers taking turns, every interleaving with the handler: one call, one step; nothing left over; calls return |
| `line` | `MCLine.cfg` | 56 431 | three lines between 16 points: error bound, course, drift, every counted step driven or held by a switch, every line ends |
| `motion_boot` | `MCMotionBoot.cfg` | 36 928 | power-up anywhere: calibration ends and measures the track; the tasks keep the driver's discipline |
| `motion_lines` | `MCMotionLines.cfg` | 85 592 | lines over the real driver are lines of `Line` |
| `motion_early` | `MCMotionEarly.cfg` | - | counterexample: a G1 during calibration |
| `motion_area` | `MCMotionArea.cfg` | - | counterexample: the announced table does not fit |
| `commands_polite` | `MCCommandsPolite.cfg` | 10 341 | a host that waits for each OK and does not pause: every command once, in order, with the pen as asked; the firmware is a `Service` |
| `commands_pauses` | `MCCommandsPauses.cfg` | - | counterexample: an idle OK crosses a line, and a command is lost |
| `gcode` | `MCGCode.cfg` | 198 930 | two lines cut anywhere: what is queued was sent, a coordinate is read as well as the memory behind it allows, a line in a packet of its own is always read |
| `cdc_receive` | `MCCdcReceive.cfg` | 16 911 | from the start, or the refusal to start, to `USB_receive`: all blocks once, in order; the pool is conserved; who connects is wholly configured |
| `cdc_send` | `MCCdcSend.cfg` | 120 142 | from `USB_send` to the host: in order, data valid while used, each call returns |
| `cdc_long` | `MCCdcLong.cfg` | - | counterexample: a transfer longer than a receive buffer |

Bounds, and why they are enough:

* `rit`: tracks of 2 and 1 steps have a position at, between and next to both
  switches; the driver looks no further. Two tasks because the code has two.
* `line`: scales 2 and 1, coordinates in half millimetres. The targets give
  slopes 0 to 1, ties at 0.5, equal distances, both axes dominating, fractional
  lengths, zero length, and an x that runs into Start. Three lines: the error
  left by a line on one axis meets the other one, and one more. An assumption
  of `MCLine` makes TLC check that `Half = 840` represents every quotient.
* `motion_boot`: positions from one before Start to one beyond End on both axes
  independently, tracks of 5 and 3 steps so that one axis is calibrated long
  before the other, in either order.
* `motion_lines`: both axes at 2 at power-up, tracks 9 and 7, three lines, one of
  which may end on a switch. One position is enough here, since a calibration
  that begins within the switches always ends at the same place (`motion_boot`),
  and `MotionImplementsLine` is the safety part for every position that is not
  beyond End.
* `motion_area`: the real 340 and 300 on tracks of 1000 and 900 steps.

* `commands_polite`: five lines of any of the four kinds, every sequence; each
  command may follow each other one with what the last left in `gObject`.
* `gcode`: every pair of ten lines: each command, an M1 without its number and
  one with a decimal point, an unknown line, and G1s with a longer or a shorter
  number than the other, without a decimal point, without X or Y, and with a
  number of eight characters. Packets up to 20 characters: the longest line has
  16, so a packet may hold a line and the head, or all, of the next. Three
  memories: clear; digits from index 1 of `temp` on and one behind it; an
  exponent behind a number of three characters. A member or `angle` starts with
  one of two values.
* `cdc_receive`: four blocks through two buffers, so that each buffer comes
  round; packets of one block, empty ones included. `cdc_send`: two senders to
  exercise the mutex, although the program has one; messages of one and two
  packets; the line coding set again twice, which may fall anywhere. The two
  directions meet only in cdc_task's loop, so each run has little of the other.

All runs but `rit` turn the deadlock check off: what the host sends is bounded
(or, in `motion_early`, the deadlock is the finding itself), so that the
program waits for a line that does not come.

Fairness. The timer and the handler are hardware and do not stop:
`WF(Match)`, `WF(RIT_IRQHandler)`. FreeRTOS runs the ready task of highest
priority, so that the part of a task inside a call, calibration and a line
under way proceed when enabled; these actions are disabled while something of
higher priority can run, and vCalibrate ends, so weak fairness is enough. No
fairness is assumed of when the host sends a line or an abstract caller calls.
In `Commands` the host reads what it waits for, and time passes; in `CdcSerial`
it opens the port, reads what is there and tries again after a refusal. The
ROM driver owes nothing: where it refuses to start (`ret` is false), nothing is
promised. Packets that are under way come in the end in `GCode`. The
mutex is handed over to a waiting sender (`SF`), as FreeRTOS does.

What was found:

* **A G1 during calibration hangs the plotter** (`motion_early`). The stepper
  runs while `vCalibrate` waits in `RIT_start`, and its own `RIT_start` clears
  the count under way. If it asks for an axis that is calibrated while the
  other is not, the handler ignores that count (84-99): it never reaches zero,
  the semaphore is never given, and both tasks wait for ever, although line 154
  says "wait for ISR to tell that we're done".
* **The scales are exchanged** (`motion_area`). Line 276 divides the x track by
  `areaYmm` and line 292 the y track by `areaXmm`, while the M10 reply (365)
  announces `XY 340 300`. A line to X340 runs onto the Start switch; after that
  the handler does not move x again, in either direction.
* **An idle OK can cost a command** (`commands_pauses`). After ten seconds
  without a command the stepper answers OK unasked (360). If that crosses a line
  of the host, two lines are under way; the second one changes `gObject` while
  the first is executed from it, or is overwritten by it while the parser is
  blocked on the queue.
* **A long transfer is garbled** (`cdc_long`). `vcom_bread` copies from the start
  of its buffer each time, so that of a transfer of more than 64 bytes the head
  is returned again and the tail is lost; `inc/user_vcom.h:35-36` says that
  data is discarded only if the caller's length is smaller than that.

## 5. The proofs

All are for every value of the constants under the named assumptions of the
modules; no finite instance is involved.

`RitProofs` (from `RitSafe`, `Rit` without fairness):
`RitTypeCorrect` also for overlapping calls;
`RitCallMovesOneStep`, `RitQuietBetweenCalls` for `Exclusive` callers.
The two need the inductive invariant `IInv` of `RitInv`: "one step was made" is
not inductive, because at the release nothing says how the count came to zero.
`IInv` says where the one call under way stands. Before the unmask nothing has
moved (`Preparing`). While the task waits the call is `Untouched`, `Halfway`
(one toggle, pin low) or `Complete`, and the semaphore is up only in the last.
The proof goes action by action; the handler's step is split by these stages.

`PlotMathProofs` has the arithmetic that they rest on: quotients, absolute
values, and the share of the minor axis in the steps of the major one.

`LineProofs` (from `Line!Spec`): `ErrorBound` and `OnTheLine` are two readings of
one account, `LineIInv`: error now, less error when the line began, is what the
minor axis owes for the steps of the major one, corrected in the two places of
the loop where one of the two has been booked and the other has not. With that
and `deltaError` in [0, 1], each turn keeps the error within half a step
whichever way a tie falls, provided that adding 0 or 1 to the two extremes
is decided as doubles decide it (`Crosses`).
`CountedStepsDriven` has an invariant of its own, by the direction of the line:
up to the step under way an axis is where its count says, or on the switch that
stopped it, or where it was if it began on one.

`DriftBound` is not inductive: it says nothing of the middle of a line. `DriftInv`
adds where the loop stands (`OfLine`): what the major axis has still to go and
has gone make up its distance, and what it had drifted when the line began is
within the bound for one line less. At the end the major axis has made the
rounded distance; the minor one is within a step of its share by `LineIInv`,
and its share of the distance is its own distance because `deltaError` is exact.
That is the hypothesis `ExactShares`: `One` is a multiple of the
divisor of every share between two of the targets. It is about the resolution
of the model, not the program: every finite set of targets has such a `One`,
the doubles of the source have 53 binary places in the place of it, and
`MCLine` makes TLC check it of its own targets.

`MotionProofs`: from `~EarlyG1`, the invariant `Handover` says that the stepper
is idle until calibration is over and `vCalibrate` outside the driver
afterwards; so every step of `Motion` is a step of `Rit` with `Exclusive` or
leaves its variables alone, and the theorems of `RitProofs` hold for the real
tasks. `motion_early` shows that the assumption is needed. `MotionTypeCorrect`
does not need it.

`CalibrationProofs`, also from `~EarlyG1` and `Exclusive`:
`CalibrationMeasuresTrack` speaks of a calibrated axis only. `CalInv` says for
each axis which phase it is in: its turn will come, it was just stepped, it is
backing off, or it is measured. `vCalibrate` counts a step before it is made, so
that the count agrees with the place where the carriage will be when the call
returns (`Place`), not with where it is; that the call gets it there, and once,
is `IInv` of `RitProofs`. `MotionImplementsLine` is the safety part of
`ImplementsLine`: `Ready` says what calibration leaves behind (the scales, both
pins towards Start), `Driving` which axis the call under way of `triggerMotors`
moves and that its step is counted already. The one step of the handler that
moves the carriage is then the atomic step of `Line`; all the others are
stutters. It needs that no carriage is beyond its End switch at power-up
(`BootWithin`), for such an axis has a scale of 0 and a home of its own;
`motion_lines` checks the refinement under the same condition, and `motion_boot`
calibration without it. What `LineProofs` shows uses the initial states and
steps of `Line`, never its fairness, so it is about `Motion` as well; the prover
cannot cite theorems through an `INSTANCE`, and no theorem draws that conclusion
formally.

`CommandsProofs`, from `~Pauses`: `gObject` is right because at no time two tasks
have a command. `OneOwner` says where the one line under way is: nowhere,
travelling, dropped, being assigned, waiting to be queued, queued, executing,
being answered or answered; in each of them what the host ordered is what was
executed, or that and the command itself, and the fields it still carries are
those of the line. From it follow `CommandHeld`, `InOrderOnce`, `OKMeansDone` and
the safety part of `ImplementsService` (`CommandsServe`), for any number of
lines. Without `~Pauses` two of these places are taken at once, and
`commands_pauses` is the counterexample.

`CdcProofs`, without hypotheses but those named here: `PortInv` has what the
flags of the driver say of each other at each step of `vcom_bread` and
`vcom_write` (`ReceiveState`, `SendState`), which hands hold a receive buffer
(`Lent`), and that the item queued, being written or just completed belongs to
the one sender with the mutex (`OneSender`). `PoolConserved` follows by counting
the occurrences that each step adds and takes away. `ConfigurationServed` has an
invariant that follows the order of the start (`Started`); that the constant
tables agree with each other is its hypothesis `DescriptorsAgree`, a formula
without variables or parameters: it is a walk by recursive functions, which TLC
evaluates completely in `cdc_receive` as the last part of the property.

Two of its theorems are about order. `ReceivedInOrder` is from `MaxTransfer = 1`,
that is, no transfer longer than a receive buffer (`cdc_long` is the
counterexample for others). `BlocksFollow` says that the blocks returned, with
the reader, in the queue, with cdc_task and in the driver follow each other
without a gap, and that a buffer that cdc_task fills is nowhere else, by
`PoolConserved`. `SentInOrder` needs three: no packet is accepted twice
(`CallsDistinct`); what is with the host, in the endpoint, with cdc_task and
queued is what was accepted with some left out, in the same order (`Flow`); and
`Budget`: permission to write is a token that the IN event, a packet in the
endpoint, a clear BUSY or a write under way stands for. There is at least one,
and only setting the line coding again makes another, so that packets lost and
tokens together never exceed one more than those settings.

`GCodeProofs`, for every set of lines that satisfies `LinesAssumption`, any
number of them, any packet size and any memory behind a number. What a line is
depends on all its characters, so the lemmas need induction: over sets of natural
numbers (`NatSetInduction`), with sums, readings and the turns of `parseCoords`
as recursive functions, and flattened texts by their last element. They give four
results. `GCodeTypeCorrect` is the bound of `buffStr` and the range of the
members. `GCodeCommandsWereSent`: what a packet leaves in `buffStr` is a line
without its first d characters (`CutLine`). If d is not 0 there is no M or G at
its start, since these only begin a code (`ReadTail`), so that `read` drops it;
if d is 0 the line is whole, and `read` gives its code. The invariant `Queued`
adds to the property that what is still to come is no more than what follows the
last line queued; without this the order of the lines is not inductive.
`GCodeWholeLineRead`, an action property, is the case in which the packet is the
line and nothing else, with the whole part of its number as the angle: the digits
before the point are all that `sscanf` takes (`WholePart`).
`GCodeCoordinatesRead` has the invariant `AllRead`: the coordinates of each G1
queued are the result of `parseCoords` on its line, on the memory and on the
members that the command before left; other commands leave them, and the members
are those of the last command. The loop meets each letter once (`LetterWhere`),
when memory is as it was but for characters of the other number (`Left`), stores
the number that follows, and `atof` finds at least that number. What it reads
beyond depends on what stands there, so there are two promises. With a decimal
point in the number, further digits add less than one unit of its last place
(`ValueContinues`), and there is no exponent if there was no e in memory. If the
other number is no longer and the character behind this one is neither a digit
nor a point nor an e, nothing follows it (`AtofExact`). The code gives no more:
after old digits X16 may be read as 169, after an old e1 X3.5 as 35.

Only model-checked:

* Liveness, which is beyond the prover: `CallReturns`, `LineEnds`,
  `CalibrationEnds`, `AllReceived`, `SendReturns`, and the fairness part of
  `DriverDiscipline`, `ImplementsLine` and `ImplementsService`.
* `DescriptorsAgree`, see above.

## 6. Not modelled

* `vcom_read_req`, `vcom_read_cnt` and `DB_QUEUED`, which only they set: nobody
  calls them.
* A number that ends its line. `parseCoords` looks for a space and not for the
  end of the string, and goes on into what is left in the buffer; the lines of
  `GCode` end each number with a space, and no number is longer than `temp`. Nor
  are signs, and an x in memory, which `atof` takes for hexadecimal.
* Whether the USB queues exist in time is a matter of speed (`DelayOver`), and
  so are the memory sizes given to the ROM driver.
* `case G28` of both tasks: the parser never returns it, so neither is reached.
  The delay of ten ticks after an M1 has no effect on order.
* `Commands` is not composed with `Motion` and `CdcSerial`: `Motion`'s host is
  `\E c \in Targets : G1(c)` at any time the stepper is idle, lines and
  answers travel in order in `Commands`, as `CdcSerial` shows they do, and lines
  are whole there, as `GCode` shows they are if each has a packet of its own.
* `xCDCEventSemaphore` is given and never taken; the blocking takes are
  commented out.
* Speed: the compare value of the timer. A match may come at any time.
* Coordinates that are not binary fractions: the rounding of `x1 - x0` and of
  its product with the scale may add or drop a last turn of the loop.
* `dx > 0` for a line shorter than one step under the int `abs` is a zero line:
  modelled; its accumulated effect is part of `DriftBound`.
* The register set-up of the servo's timer and of the run-time statistics timer,
  debug output, start-up code, `Fmutex.h`, `Motor::drive` and `Motor::calibrate`
  (called by nobody).
