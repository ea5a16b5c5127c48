# A verification project for Quanto

Quanto tracks the *activity* that each device of a sensor node works for, and
the power state that each device is in, and logs every change, so that the
energy a node spends can be charged to activities afterwards.  The code is a
set of nesC components for TinyOS 2.x on the MSP430 (`src/tos`), test
applications (`src/apps`) and host tools (`src/tools`).

Everything below is about the code in `src/`; `PROJECT.json` names the lines
that each definition stands for.

Contents: [execution model](#the-execution-model) ·
[inventory](#inventory) · [modules](#the-modules) · [runs](#the-runs) ·
[where code and documents differ](#where-code-and-documents-differ) ·
[fairness](#fairness) · [proofs](#what-is-proved) ·
[only model-checked](#what-is-only-model-checked) ·
[not modelled](#not-modelled) · [plan](#plan)

## The execution model

All concurrency in the node comes from three rules, which every module obeys.

* *Tasks* run to completion, one at a time, in the order they were posted; a
  task that waits already is not posted twice.
* *Interrupt handlers* (`TOSH_SIGNAL`, `tos/chips/msp430/msp430hardware.h`)
  preempt tasks between any two instructions that are not in an `atomic`
  block.  A handler runs with interrupts off, so handlers do not nest.
* A nesC `atomic` block is one step.  A task's statements between two atomic
  blocks are steps of their own wherever a handler can see or change what they
  touch.

A command that only tasks call is one action; a command that both call is one
action per atomic block when a task runs it and one action in all when a
handler does.

The host tools are sequential programs.  What makes them interesting is the
other end: a node that reboots and a serial line that loses lines, a device
that goes on when the program ended, and TCP, which cuts a stream anywhere.

## Inventory

State, operations, interactions, what is hard, and what makes it correct.

| Component | State | Operations and interactions | Hard | Correct when |
|---|---|---|---|---|
| **Task scheduler** `SingleContextSchedulerQuantoTasksP` | `m_head m_tail m_next m_act`, the same for `TaskQuanto` tasks, `m_wokeup` | `postTask` by tasks and handlers; `runNextTask` in boot, `taskLoop` after; sets the CPU's activity before each task, sets idle and calls `McuSleep.sleep` | handlers post between any two steps; wake-up; starvation of low-priority tasks | lists hold the posts in order; each task starts with its activity; every task runs; the CPU sleeps idle |
| **CPU activity** `SingleContextImplP` | `m_context` | `set bind get enterInterrupt exitInterrupt exitInterruptIdle`; signals `SingleContextTrack` to the logger | event outside of the atomic section | the events determine the activity; handlers do not change the activity of what they preempt |
| **Interrupt proxies** `Msp430TimerCommonImplP`, `HplMsp430InterruptImplP`, `HplMsp430Usart*ImplP`, `HplAdc12ImplP`, `HplMsp430DmaImplP` | none | each `TOSH_SIGNAL` enters its proxy activity, dispatches, exits | what the body binds | the pair is balanced |
| **Event loggers** `QuantoLogCompressedMyUartWriterP`, `QuantoLogMyUARTWriterP`, `QuantoLogPortWriterP`, `QuantoLogContinuousUARTP`, `QuantoLogStaged*P`, `QuantoLogRawUARTP` | ring or linear buffer, head/tail/size, posted and busy flags, a state machine | `recordChange` by any context event, from tasks and handlers; a task compresses and writes; `writeDone` frees | reserve then fill; races on counters; a full buffer; the last partial block; 8-bit truncation | an entry read was written; nothing is written twice; every accepted entry is written |
| **Accounting logger** `QuantoLogCumulativeP`/`AMP`, `ActivitySet`, `IntegerSetC` | two slots of 16-bit times per resource and activity | `recordChange` adds a delta; a periodic report swaps slots | time read before the atomic section; overflow; report in progress | the times of a slot add up to its length |
| **Power states** `PowerStateP`, `LedsP` | `m_state` | `set`, `setBits`, `setBit`; tracks signalled | read-modify-write split in two atomics | no update is lost |
| **Activity labels** `ActivityTypeP`, `activity.h` | a 16-bit label: node, type | set/get of the parts, `isValid` | bit masks | get returns what set stored |
| **Multi contexts** `MultiContextImplP` | none | relays `add remove` | - | - |
| **Arbiters** `ArbiterP`, `SimpleArbiterContextP` | `state resId reqResId clientContext[]`, the queue | `request immediateRequest release`, `granted` task; default owner | release racing requests; grant in progress | one owner; every request granted; granted under the requester's activity |
| **SPI sharing** `CC2420SpiP` | `m_requests m_holder m_ctx[] m_state` | request/immediate/release of the radio's drivers above the bus arbiter; grant task | the scan for the next holder; the bus kept over a release | one holder; every request granted; the bus given back |
| **Virtual timers** `VirtualizeTimerP` | `m_timers[]` with activity | start/stop; `fireTimers` one at a time | starvation by lower timers; start in `fired`; the longest delay | each started timer fires once per period, with its activity |
| **Alarm** `Msp430AlarmC`, **energy meter** `EnergyMeterP` | `m_ctx`; `m_cbase` | compare interrupt; overflow interrupt | a wrap between overflow and read | monotone count |
| **Serial** `SerialImplP`, `LPSerialImplP`, `MySerialSenderP`, `MySerialWriterP`, `MyVSerialWriterP` | framer states, two send buffers, writer states, `outstanding[] current` | `send`/`write`, byte interrupts, `sendDone` task | byte interrupt against tasks; refused puts; 8-bit lengths | each write signalled done once; clients served in turn |
| **Radio medium access** `CC2420CsmaP` | split-control state | `start stop send cancel`, done tasks | stop while sending; start during stop | done events match commands |
| **Radio transmitter** `CC2420TransmitP` | `m_state`, abort flag, timestamps | load, CCA, SFD capture, ack wait, cancel | capture, timer, SPI and cancel race | each accepted send is signalled done once; the bus is released |
| **Radio receiver** `CC2420ReceiveP` | `m_state`, missed packets, bytes left, timestamp queue | FIFOP, SFD, SPI read, stop | overflow, missed counts, timestamps of other packets | the FIFO is flushed after an error; no packet missed is forgotten |
| **Compression** `BitBufferC`, `EliasGammaC`, `EliasDeltaP`, `MoveToFrontC`, `CompressTask`; host `libquantocode.c` | bit buffer; move-to-front list; last values | encode on the node, decode on the host | limits; zero; a full bit buffer; state kept between blocks | decoding gives back what was encoded |
| **Log decoder** `quanto_decode.c`, `quanto_decode_delta.c` | codec state, sync flags, line buffer | read a line, check the header, decode, print | lost lines, reboots, cut lines | what is printed was recorded; it finds back at a sync line |
| **LabJack logger** `QuantoLogger.c` | connections, packet buffer, sample count | connect, configure, start, stream, flush, SIGINT | short reads; a device still streaming; failures midway | samples of this session, framed |
| **LabJack commands** `ue9.c`, `ue9.h` | a connection; calibration | one request and one answer each | short reads leave a tail | the answer returned is to this request |
| **USART drivers** `Msp430UartImplP`, `HplMsp430Usart*ImplP`, `Msp430UsartShare*P` | transmit and receive buffers | byte interrupts | - | every send is signalled done |
| **Sensor** `SensirionSht11LogicP` | command state | measure, timeout | - | - |
| **Applications** `src/apps`, **host scripts** `src/tools/quanto/scripts` | - | exercise or read the above | - | - |

How they meet: every driver calls `set`/`bind` on the contexts; the contexts
signal the logger from inside whatever ran; the logger posts a low-priority
task; that task and the serial stack below it change contexts again.  The
scheduler carries the activity across posts, the arbiters across grants, the
timers across time and the radio across the air.  The log goes over the serial
port to the decoder on the host, and the LabJack measures the real current.

## The modules

| Module | Models |
|---|---|
| `SingleContext` | `SingleContextImplP`; `logged` is what a reader of the events believes |
| `QuantoScheduler` | the scheduler's intrusive lists (`popTask`, `pushTask`, `isWaiting`), the sleep, boot and loop, handlers |
| `TaskFifo` | abstract: two FIFO queues, strict priority |
| `VirtualizeTimer` | `VirtualizeTimerP` over one alarm |
| `TimerService` | abstract: timers that are due, and fire as they were started |
| `Kernel` | the scheduler or the timers, for one run |
| `LogBuffer` | the ring that the streaming loggers share |
| `CompressedLog`, `EntryLog` | `QuantoLogCompressedMyUartWriterP`, `QuantoLogMyUARTWriterP`: a block, or one entry, per write |
| `PortEntryLog` | `QuantoLogPortWriterP`, with its two atomic sections |
| `BlockLog` | abstract: a queue that hands out its oldest entries block by block |
| `RawLog`, `StagedLog`, `ContinuousLog`, `MemoryLogs` | the loggers with a `QuantoLog` interface, and a node with one of them |
| `AccountingLog` | `QuantoLogCumulativeP` |
| `Loggers` | a node with one of six loggers |
| `LPSerial`, `MyVSerialWriter` | `MyVSerialWriterP` over `MySerialWriterP` over the sending half of `LPSerialImplP` |
| `SharedWriter` | abstract: one write at a time, clients in turn |
| `Arbiter` | `ArbiterP` with its queue and default owner |
| `FcfsGrants` | abstract: a line of requests, each with its activity |
| `CC2420Spi` | `CC2420SpiP` above the arbiter of the bus |
| `SharedHardware` | arbiter, SPI sharing or serial writer, for one run |
| `CC2420Transmit`, `CC2420Csma` | `CC2420TransmitP`, and `CC2420CsmaP` over it, with the chip, the channel and the bus |
| `RadioSend` | abstract: split phases, one message at a time, each answered once |
| `CC2420Receive` | `CC2420ReceiveP` with the FIFO and the pins of the chip and the bus |
| `Radio` | the sending or the receiving half of the radio's stack, for one run |
| `PowerState` | `PowerStateP` |
| `BlockFormat` | the bit buffer, both codes, the list and the order of the fields, of the node and of the host |
| `DecoderMain`, `QuantoDecode` | the loop of the two decoders; decoding a block, and each decoder with its code |
| `CompressedStream` | the node's coding of a block (`CompressTask`); a node that records, reboots and loses lines, and a decoder |
| `TcpStream` | a connection that delivers a stream in pieces of any size |
| `QuantoLogger`, `Ue9Commands` | `QuantoLogger.c`; the commands and the calibration of `ue9.c` |
| `MCHostTools` | decoder, LabJack logger or commands, for one run, with small inputs |
| `KernelProofs` | theorems about the scheduler, the timers and `Kernel` |
| `LoggersProofs` | theorems about the six loggers |
| `SharedHardwareProofs` | theorems about the arbiter, SPI sharing, the serial writer and `SharedHardware` |
| `RadioProofs` | theorems about the receiver, the transmitter with medium access and `Radio` |
| `BlockFormatProofs` | theorems about the bits, the codes, the list and the lines |
| `CompressedStreamProofs` | theorems about the node that compresses and the decoder |
| `LabJackProofs`, `HostToolsProofs` | theorems about the LabJack's programs, and about any of the tools on the host |

The abstract modules say what a user of the component relies on; each is
checked as a property of the detailed one, under the mapping stated beside it.
`Kernel`, `Loggers`, `SharedHardware`, `Radio` and `MCHostTools` do not compose their
parts: a behaviour is one of the part that `Init` chooses, and the variables of
the others keep their initial values.  They let one run check several
components.

### The scheduler and the CPU's activity

*State.*  `m` and `m_q` are the two lists.  `pc` says where the main program
is: the code of main or of a task (`"code"`), the head of the loop (`"loop"`)
or `McuSleep.sleep` (`"sleep"`).  `isr` and `saved` are the handler that runs
and its local `ctx`; `pending` is a `set`/`bind` whose swap has been done and
whose event has not been signalled.  `order`, `q_order`, `posted` and `want`
are history: no guard reads them.

*Steps.*  The pops and the decision to sleep are one atomic block in
`taskLoop`, hence one action each (`RunTask`, `RunQTask`, `Sleep`).  A `set`
by a task is two actions (`TaskSwaps`, `TaskAnnounces`) with handlers allowed
between them; by a handler it is one (`HandlerBinds`).  The 255 of
`SchedulerBasicP` is the model value `NO_TASK`, `ACT_INVALID` likewise.  What
tasks and handlers do is left open: any posts, any `set`, in any number.
`exitInterrupt` returns without an effect when it would restore idle; the
loop's `exitInterruptIdle` does that.

### The virtual timers

Nothing of `VirtualizeTimerP` runs in a handler, so a task is one action until
it signals `fired`, and `FiredReturns` is the rest.  During the event the
user may start and stop any timer and change the activity.  `elapsed` is
`now - t0`: it starts at one of `Past`, since a client of `startOneShotAt` or
`startPeriodicAt` may give an instant that has passed (one in the future is left
out); `timerFrom` is what the timer below has left, and `fromFired` its
posted task, which `stop` does not take back.  `Tick` may come between any two
steps.  A timer more than `Lag` ticks late counts as `Lag` late.

### The event loggers

`recordChange` is called by any change of activity.  Called by a handler it is
one action.  Called by the main program it is cut where the code leaves its
atomic section: `TaskReserves` takes a slot, `TaskFills` writes the entry and
posts, and handlers record in between.  A task that compresses or writes is cut
wherever it changes a context itself (`CompressPaints`), since its own
`set` comes back as a `recordChange`.  The port answers in an action of its
own.  An entry is a model value here; its fields and the bits of a block are in
`BlockFormat` and `CompressedStream`.

In `AccountingLog` a recorder reads the time (`reading`) before its atomic
section and handlers record in between, so a difference may be negative, which
wraps; `ReportAddsUp` says that the reported times of each resource add up to
the length of the interval modulo the width of the counters.  That is all that
holds: the comment at `QuantoLogCumulativeP.nc:41-46` argues that 16-bit
differences are enough, but a node that is idle for two seconds exceeds them.

### Arbiter, SPI sharing and serial writer

*Arbiter.*  Calls by handlers are single actions under any activity.
`request` and `immediateRequest` by the main program are cut after their
atomic section, before the default owner is asked, and `grantedTask` after its
own.  `release` is one atomic section.  `holds` is the set of clients that
were told they have the resource; `configured` is what `ResourceConfigure` did
last.  The default owner releases at once, as ArbiterP's own default events
and the power manager of the USARTs do.

*SPI sharing.*  `m_holder` and `m_requests` are about the drivers; the bus below
is busy or free and given by its arbiter.  The transmitter may refuse to let
the bus go (`attemptRelease`), and gives up the refusal later.  The scan for
the next driver always begins at driver 0, as in the code, where `m_holder` is
cleared before; with the two drivers of the repository that starves nobody.
`immediateRequest` leaves the resource context alone.

*Serial writer.*  One `write` passes three layers, each with a state and a task
of its own.  `PutDone` is the byte interrupt; `RunTx`, `SignalSendDone` and
`NextSend` are the tasks.  The byte `i` of client `c`'s buffer is `<<c, i>>`,
so a frame shows whose bytes it holds and in which order; CRC, escapes and the
port's hardware are left out.  A put may be refused.

### The radio

`CC2420Transmit` has the code's `m_state`, the alarm, the SFD pin with the
capture unit and what is in the air.  A handler is one step, except `captured`,
which reads the pin to decide whether it falls through to its next case: the
chip may move between the cases (`isr`).  `attemptSend` by a task is cut after
its atomic section (`main`), as the alarm is started after it.  A reception may
begin and end at any time; a strobe ends one; a frame may fail to begin; the
channel may be busy whenever it is looked at; the alarm may fire whenever it
runs; a bus request may be granted long after its state is over.
`CC2420Csma` adds start, stop, send, cancel and the three tasks.

What showed up while modelling, and is in the model: `StdControl.start` does
not reset `sfdHigh`; an edge captured before the strobe is taken for the
frame's own; the abort timer may be started after the frame is over, and fires
in a later state; `CsmaP.send` does not look at the transmitter's answer; a
request of the transmitter's that is made twice may be granted twice (`wish`).
The run shows that none of these breaks the promise of `RadioSend`; the first
two do break what the power state RX shows, see `radio_receptions` below.

`CC2420Receive` has the FIFO as a sequence of bytes, of which only a frame's
length is a number; after a frame was read wrongly any byte is taken for a
length.  `readDone` and `FIFOP` come in handlers; `waitForNextPacket`, with
which most of them end, is a step of its own (`waits`), before which frames
may arrive.  A read takes its bytes when it ends.  `others` is any other user
of the bus.  A start comes only when no request, task or read of the receiver's
is left: `CC2420CsmaP` asks for the bus last of all on the way to it.  In the
model, as in the code, a read may go on into a stop, and a grant may come after
it; the interrupt of a frame may come during the read of another one, and a
flush may leave it pending; `m_missed_packets` wraps.

### From the node to the host

`CompressTask` writes the integers of a block in a bit buffer in which a code
that finds no room is refused, unnoticed; every `MTFSYNC`th block restarts the
list.  `DecodeBlock` of `QuantoDecode` reverses it, given the integer at each read position;
`DecoderMain` reads lines, rejects some and exits on others.
`CompressedStream` puts a node before it that records blocks of `Supply`, may
reboot, and whose lines may be lost or cut.  `intact` and `read` are history.

`TcpStream` keeps what is under way in each direction; `recv` takes a part of it.
`QuantoLogger` follows `main`: it goes on with closed connections after a
failure, prints what is in its buffer when a receive fails (`cnt += -1` counts
255), waits for ever on a data connection that breaks (`ConnectionBreaks`), asks for four bytes into a buffer of two in `flushStream`, and exits at
SIGINT without `StreamStop`, whose call at the end of `main` cannot be reached.
The device keeps streaming into the next session.  In `Ue9Commands` a call
sends a request and receives once; a short answer is an error and its tail
stays.  Byte values and checksums are left out: an answer is whole, cut or
another's; bytes from the middle of an answer are taken never to pass the
header and checksum tests, and the device answers in order.  `prodID` begins as 0,
as in a structure of static storage; the library does not set it, and with one
that begins as 9 `isCalibrationInfoValid` would say yes of what was never read
(the one in `QuantoLogger.c:60` has no initial value and is not used).

## The runs

| Run | Configuration | What it shows |
|---|---|---|
| `kernel` | `Kernel.cfg`: two ordinary tasks, one low-priority task, idle, one other activity, one proxy; two timers, delays 0 and 2, from now or from two ticks ago (`Past`), greatest integer 3 | the lists hold the posts, code keeps its activity across handlers, the events tell the activity, the CPU sleeps idle, `TaskFifo` is implemented, posted tasks run; no running timer is forgotten, `TimerService` is implemented, expired timers fire |
| `loggers` | `Loggers.cfg`: streams: a ring of four slots in blocks of two; memory: a log of four slots, two per message, a ring of two, 8-bit counters cut to two bits; accounting: two resources, two activities, counters of one bit, intervals of one tick | a block is in one pair of hands, `BlockLog` is implemented, blocks are sent; a raw report is what was recorded; a staged flush tells the log from its start, in order, each slot once and every slot below the count filled; a flush is in one pair of hands, is complete and ends; the continuous logger keeps going; reported times add up |
| `shared_hardware` | `SharedHardware.cfg`: three clients, two activities; two drivers of the radio and another user of the bus; three writers, buffers up to the MTU of 3, counters cut to two bits | a holder owns the resource alone, `FcfsGrants` is implemented, requests are granted; a driver that was told owns the bus and every one is told; frames hold whole buffers, a write is in one pair of hands, `SharedWriter` is implemented and its writes answered |
| `radio` | `Radio.cfg`: two messages, one of which asks for an acknowledgement; a FIFO of five bytes, frames up to three, a header of one, a count of two bits | the bus is given back and used only when held; `RadioSend` is implemented, its liveness included; a received frame is in one hand, and what is in the FIFO is read or flushed |
| `host_tools` | `HostTools.cfg`: see below | a decoder that knows the block size prints no block that lacks an integer, prints what was recorded while no line since the last sync line was lost or cut, and prints every whole sync line; it gives up only for a cause; the LabJack logger prints its own samples, framed; commands return the answer to their own request unless one was cut; a calibration that is valid was read from the device |
| `scheduler_idle_task`, `port_log_buffer`, `memory_logs_dump`, `radio_receptions`, `power_state_bits`, `decode_equal_times`, `ue9_short_read` | small instances | a violation each, see the next section |

*Bounds.*  Two ordinary tasks are the smallest instance with a head that is not
the tail, a re-post of a waiting task and a pop that leaves a list of one; two
activities tell "kept" from "changed to another one".  Two timers let one be
served before the other, and delays of zero and two with a lag of two give
early, exact and late service; a start from two ticks ago is due at once.  The proofs below remove the bounds of all runs
of the node, for safety and for the steps of the refinements.  Four slots in blocks of two hold
one block being sent and one being filled.  Three clients of the arbiter let
two wait in order; three of the writer make a turn skip one.  Counters that
wrap in eight bits wrap in two here, with buffers that reach their range.  The
transmitter needs no bound besides its two messages: times are open.  The
receiver's FIFO holds the longest frame and another one, or overflows, in the
middle of a frame as at its end; frames are empty, no longer than the header,
and longer.

The host tools are bounded by `MaxBlocks` = 4 blocks, of which the first and
the fourth are sync blocks (`MTFSYNC` = 3), `MaxReboots` = 1, an alphabet of
`N` = 4, words of 8 bits for 32, blocks of two entries and a bit buffer of 6 bytes, which is too
small for one of the blocks of `Supply`, so that refused codes happen (in the
code `BITBUFSIZE` 234 was computed for 10 entries while `CBLOCKSIZE` is 20);
`MaxLog` is the greatest log of a coded number.  The logger has `MaxSessions` =
2, packets of two pairs, `MaxSamples` = 5 samples and `MaxStale` = 1 packets of
an old session that the device still sends; the commands have
`MaxRequests` = 4 and answers in two or three parts, enough for a call, a cut
answer, and two more calls.

`CHECK_DEADLOCK FALSE` is said where programs end and the bounds stop the node
and the device (`host_tools` and its two violations).

## Where code and documents differ

Each is a run with one property that TLC finds violated.

* `scheduler_idle_task`: Quanto's README (92) says that a task starts under
  the activity it was posted under.  When the task was posted under idle by a
  handler that woke the CPU, `popTask` calls `exitInterrupt` with idle, which
  does nothing: the task starts under what the last handler left.
* `port_log_buffer`: `QuantoLogPortWriterP` finds its slot in one atomic
  section and takes it in another; two recorders may fill the same one.
* `memory_logs_dump`: `logNextMsg` of the staged logger goes on to
  `m_report_index = count` and sends an entry that was not logged, instead of
  the report.
* `radio_receptions`: `CC2420Quanto.h` says that the power state RX is set on
  SFD while not transmitting.  A reception that a strobe cuts off leaves
  `m_receiving` set, since its falling edge is handled by the cases of the
  transmitted frame; then the default case of `captured` does nothing until the
  radio is restarted: RX stays set, and later receptions are not announced.
* `power_state_bits`: `setBits` reads the word in one atomic section and sets
  it in another; `PowerState.nc` says that the bits outside of the mask do not
  change, but a handler's change of them in between is undone.
* `decode_equal_times`: two entries in one tick need the code of the integer 0,
  which does not exist; the block is not decoded as recorded, although
  `quanto_decode.c:55` says that the decoder reverses the encoder.
* `ue9_short_read`: a `recv` that gets a part of an answer makes the call after
  the next one return 0 with the answer to another request.

Read but without a run: the comment at `VirtualizeTimerP.nc:99` promises delays
up to `MAXINT`; such a timer is not less than the initial `min_remaining` and
nothing is armed for it (the theorem `TimersAreCovered` is for shorter ones).  A
staged flush of no entries, or of 256 of them, never
ends (`QuantoLogStagedMyUARTP.nc:89`); the continuous logger's `m_tail` grows
without modulo (`QuantoLogContinuousUARTP.nc:138`) and its `m_count` may pass
below zero when a send ends after a restart (`:115`); `FlushesEnd` and
`LogsTypeOK` say what is excluded.  `ue9.h:172` says that
`isCalibrationInfoValid` returns 0 when it is not, the code returns -1; `eDAC`
ignores its argument `Binary` and, without a valid calibration, takes any
channel.  In `ActivityTypeP` the setters of a part do not clear it first and
`isValid` is inverted.

## Fairness

What all fairness here comes from: handlers and tasks are finite (weak
fairness of the code that runs), hardware answers (an SPI or serial byte, an
alarm, `sendDone`), and a posted task runs although interrupts and other tasks
come first (strong fairness of tasks, since what precedes them disables them
for a while).  The last is what `PostedTasksRun` shows of the
scheduler, which itself assumes only that a handler returns (`WF
ExitHandler`), that code returns and finishes its `set` (`SF Return`, `SF
TaskAnnounces`) and that the loop moves on (`SF SchedulerStep`) although
handlers come in.  Clients of the arbiter release what they are given
(`WF SomeRelease`), drivers of the bus and its other user likewise.  The radio
assumes in addition that a channel that is found busy again and again is also
found free again and again: without it, CSMA may back off for ever.  The
receiver assumes that reads end and that its handlers and tasks run although
frames arrive and others use the bus (strong fairness).  Nothing is
assumed about posts, requests, entries, receptions or interrupts arriving, nor
about time: `Tick` is not fair.  The host tools have safety properties only.

`ExpiredTimersFire` has an exception that the code makes necessary: only the
first expired timer fires, so one that expires again and again keeps those of
higher numbers waiting.

## What is proved

Each theorem is about every value of the constants that its module's named
assumptions allow; those only separate model values, say which numbers are
naturals and positive, that a ring is cut into whole blocks, that every symbol
and every word has a code (`FormatAssumption`), and that the recorded blocks are
blocks (`SupplyAssumption`).  The theorems of `KernelProofs`, `LoggersProofs`,
`SharedHardwareProofs`, `RadioProofs` and `HostToolsProofs` that name the specification of a run (`FairKernel`,
`FairLogs`, `FairHardware`, `FairRadio`, `HostSpec`) are about the very formulas
the run checks; they rest on the theorems of the parts, which the composing
modules instantiate or extend.
Where a module has two instances of one part, `SameBuffer`, `SameGamma`,
`SameDelta` and the like show that both are the same.

All invariants were found in the same way: the property is not inductive, since
it says nothing of the places between two atomic sections; what each such place
implies is added until every step keeps the whole; TLC checks the strengthened
invariant on the run's instance, where it can evaluate it; then it is proved, one lemma per action.

### Scheduler and timers

`KernelProofs` proves for all sets of tasks and activities that satisfy
`TaskAssumption` and `ActAssumption`:

* `TypeCorrect`, `ListsCorrect`, `ActivityKept`, `LogCorrect`, `SleepCorrect`:
  the five invariants of the scheduler in the run `kernel`;
* `SchedulerImplementsFifo`: the refinement of `TaskFifo`;
* `SchedulerInKernel`: all of them in the composition.

`ListsHoldPosts` needs only types:
the first part of the module shows that `Push` keeps `Linked` and appends, that
`Pop` keeps it and takes the head, and that `IsWaiting` is membership.
`CodeKeepsItsActivity` and `LogTellsContext` need `ContextInv`: a handler's
`saved` is what it preempted, `m_wokeup` holds only at the head of the loop,
and a pending event holds the activity that the node has already.
`IInv == QueueInv /\ ContextInv` is the conjunction; the module proves `Init =>
IInv`, preservation action by action, and the consequences.

The same module proves for any number of timers, any delays and any lag
that satisfy `TimerAssumption`:

* `TypesHold`: the types, that the service posts and restores its own activity
  only, and that no timer counts as started in the future;
* `TimersAreCovered`: `NextExpiryCovered`, if every delay is less than `MAXINT`
  (`DelaysBelowMaxint`, which is needed: see above);
* `TimersImplementService`: the refinement of `TimerService`, if the value for
  "no timer" is none of the records (`NoneIsNoRecord`);

and restates the last two for the run (`KernelCoversTimers`,
`KernelImplementsTimers`).  `TimerInv` bounds how late a timer can be.
`NextExpiryCovered` is inductive with it: every command and event posts
`updateFromTimer` (`FireTimersInv`), which either fires a timer or arms
`TimerFrom` with the least of what the timers have left.  That this is a
minimum (`MinOfNats`) comes from the well-foundedness of the natural numbers,
that every running timer is counted in it from delays less than `MAXINT`, and a
tick takes no more from a timer than from `TimerFrom`.  `FireTimersMaps` shows
that `fireTimers` is one firing of the service or work that no user sees, for
both of its callers.

### Loggers

`LoggersProofs` proves for any sizes of rings, blocks, logs and messages, any
resources and activities, and any width of the counters:

* `FullBlockInOneHand`: `BlockInOneHand` of the compressing logger;
* `StreamsImplementBlockLog`: both streaming loggers implement `BlockLog`;
* `TypesOfLogs`: `LogsTypeOK`: what `recordChange` writes stays in the logger's
  memory.  What a flush or a dump reads need not: the types of the staged
  `count` and `m_report_index` and of the continuous `m_tail` reach beyond;
* `FlushTells`, `FlushEndsComplete`: `FlushTellsLog` of the staged and of the
  raw logger (not that the staged flush stops at the count, see
  `memory_logs_dump`), and that their flushes leave no entry out (`FlushIsComplete`, an
  action property);
* `DumpsGo`: `DumpsKeepGoing` of the continuous logger;
* `TimesAddUp`: `ReportAddsUp` of the accounting logger.

*Streams.*  `Ring` ties the ring's numbers together: the entry `i` of the log
is in `SlotOf(i)`, the reserved slot is the last, and the rest is filled.
`RemainderOnce` and `RemainderTwice` are what is needed of `%`; `TailMoves`,
`HandlerJoins`, `ClaimJoins`, `FillKeeps` and `ReleaseLeaves` say what a step
does to the entries in their order, so that the rest of the proof is about
sequences.  `HandsApart` shows that `OneHand`, a statement about sums, is
`Apart`, a statement about places of the task: whoever has the block excludes
the others.  `BlocksAreAligned` needs that the buffer is a multiple of
the block.  For the refinement, `Becomes` lists the steps of `BlockLog` on the
entries and what was sent.

*Staged and raw.*  `StagedInv` says of each place of `recordChange` what is
filled (`Recording`, `Filling`): a call of the main program that was
interrupted between its test, its slot and its entry leaves a hole that a
flush may not reach, which is why a flush by a handler in between needs
`m_missed_flush`; `Flushing` gives the flush to exactly one of a posted task,
a message under way and the end.  What the messages of a flush tell is kept in
the history variable `told`, as indices of the log; `Telling` ties it to
`m_report_index`, so that the index grows by what a message tells, and says
when it is at its start.  `RawInv` has the same three parts for the
logger that copies what it sends (`Keeping`, `Changing`, `Reporting`); that
its messages tell a prefix of the log is `PrefixGrows` and `Regroup`.

*Continuous.*  `DumpsKeepGoing` is inductive with the types and with the
queue's tasks being the three of the logger (`DumpInv`).

*Accounting.*  `AccountInv` needs no history: `SlotAddsUp` says that the times
of a resource in the slot that is filled add up to the time of its last change
less the start of the slot, modulo the width of a counter, `OtherAddsUp` says
the same of the slot that was closed, `BodyRight` of the report's copy, and
`Pending` says what a recorder that has read the time and not used it may
still find.  A delta may be negative; `Remainder` and `SameRemainder` carry the
congruence over the cut to the counter's width.  The sums are folds of the
library; `PartialsExist` unfolds them one activity at a time, for which the
existence of the recursive function is shown on the smallest set for which it
might fail (`SmallestSet`), and `SumChanges` says that a sum changes by what
one of its terms does.

### Arbiter, SPI sharing, serial writer

`SharedHardwareProofs` proves for all sets of clients and activities that
satisfy `ArbiterAssumption` (clients, owner and "nobody" are different):

* `TypesHold`, `HoldersOwn`: the arbiter's types, and that a holder owns the
  resource;
* `Implements`: the refinement of `FcfsGrants`, that is order, activity and
  charge of every grant, however tasks and handlers interleave;
* for the run: `ArbiterKeepsPromise`, `HardwareTypes`, `DriverHasBus`,
  `WriteHandedOn` and `FramesAreWhole`, all its invariants, and `WritesShared`.

`HolderOwnsResource` is not inductive: that a client told so has the resource
depends on nobody else being served.  `Inv` adds `StateInv` (a posted
`grantedTask` means `RES_GRANTING` and a main program outside of the arbiter;
nobody was told unless the state is `RES_BUSY`), `MainInv` (what each place
between two atomic sections implies, and that `RES_IMM_GRANTING` lasts only
while the main program is there) and `QueuedContexts` (a queued client has an
activity).  For the refinement, the line is the request being served followed
by the queue: `EnqueueAsks` needs that a client is queued once, so that storing
its activity changes nobody else's, `PassOnGivesBack` that the head of the
queue moves into service with its own activity, and `ServingGrants` that
whoever is told takes the front of the line.

`SharedHardwareProofs` also proves for any number of drivers and any activities that satisfy
`SpiAssumption`:

* `DriverOwnsSpi`: `OwnsBus`.  It needs to know how a driver comes to be told.
  `SpiInv` says that the holder was told, or its grant is posted under the
  activity of its request while the radio has the bus, or the radio is in line
  with that activity (`HolderTold`, `HolderGranted`, `WaitsInLine`); that the radio is in line at
  most once; that drivers that wait are known by the activity of their requests;
  and that an idle radio has no holder and is not in line, so that the bus it
  may have kept is nobody's.  `BusGrantedKeeps` is the step from `WaitsInLine`
  to `HolderGranted`; `ReleaseKeeps` needs that the least of the drivers that wait is one
  of them (`NextHolderWaits`).

And for any number of clients of the port, any lengths of their
buffers and any width of the counters that satisfy `WriterAssumption`:

* `WriteIsInOneHand`, `FrameHoldsBuffer`: `WriteInOneHand` and `FrameIsBuffer`;
* `ServesRoundRobin`: every step is a step of `SharedWriter` or none.

`BufLen` is a constant, to which only the run gives the value `Lengths`.
`WriterInv` is the product of what the upper two layers do with the write
(`NoWrite`, `NextIsPosted`, `Sending`, `Answering`) and of what `LPSerial` does with
its bytes (`Resting`, `Queued`, `Framing`, `Ended`, `Reports`); `Prefix(n)` is what
the wire has to hold after `n` bytes.  `NextInCircle` shows that the search for
the next client finds the first one after `current`, by the least distance
around the circle.

### Radio

`RadioProofs` proves of the receiver, for any sizes of the FIFO and of frames
that satisfy `ReceiveAssumption`, and whatever bytes are read as lengths:

* `FrameIsInOneHand`: `FrameInOneHand`, by induction with two facts: the bus is
  waited for only before a length byte (`GrantsReadLengths`), so that no grant
  reads in the middle of a frame; and a header is read only of a longer frame
  (`HeadersHaveRest`), so that the read of the rest is not empty;
* `TypesHold`: `ReceiveTypeOK`, which no run lists; that `m_bytes_left` does not
  wrap is the point of it;
* for the run: `FrameStaysInHand`, `BusGivenBack` and `SendsAnswered`.

And of medium access and transmitter, for any messages:

* `GivesBackBus`: `BusIsReturned`;
* `AnswersSends`: every step is a step of `RadioSend` or none.

`SendInv` is large because what keeps the bus in one hand is spread over two
components, a queue of four tasks, a handler that may be between two cases of
`captured`, and an alarm that fires in states it was not started for.
`Phases` says what the two state machines and the posted tasks say of each
other, `Switches` which hardware is on in them, `Handling` what each place of
`captured` implies, and `Hands` that the transmitter's bus is with exactly one
of: the FIFO's write, the frame, a channel found busy, a posted grant.  Two
facts are less obvious: a grant whose bus was taken from it by a stop is
answered, harmlessly, before `stopDone_task`, as tasks run in the order of their
posts (`Ahead`); and a wish for the bus outlives the state it was made in only
while the bus is not free.  `Result` maps the answer: a cancel that was accepted
decides what `sendDone` says.

### Host tools

`HostToolsProofs` proves of the LabJack commands, for any calls of the eight
functions, any number of parts of an answer and any number of requests that
satisfy `CommandsAssumption`, however the answers are cut:

* `CallsAreAnswered`: `AnswersMatch`;
* `ConstantsAreRead`: `CalibrationIsRead`.

The argument is in `LabJackProofs`.  `AnswersMatch` speaks of answers that were
accepted, so it needs to know what is under way.  `InOrder` says that parts come
in the order of their requests and that a first part is the only one of its
request that is left, `NewOnes` that no answer which was
accepted is still to come, `OnlyAnswer` that until an answer is cut nothing is
under way but the answer to the request of the call, whole or broken off by the
device.  `BlocksRead` says what `getCalibrationInfo` has stored after each
block; a block that is out of place must come from an answer that was cut.

And of the logger, for packets of any number of samples, any number of sessions
and samples (`LoggerAssumption`):

* `SamplesAreOwn`: `PrintsOwnSamples`.

`LoggerInv` has two halves.  *Whose samples are these* goes from call to call:
`Stopping`, `Flushing`, `Configuring`, `Starting` and `Streaming` say which
commands and answers may be under way in each, and therefore what the device
streams.  A session may find the device streaming for the one before, with
commands of it unobeyed.  The call that sends `StreamStop` waits for its answer,
and so for all that was sent before; but `recv` may take the answer in pieces,
and the next calls, which do not look at theirs, then run ahead by the piece
that was left.  So the flush may still be under way when the data connection is
opened, and samples of the earlier session may be sent on it.  That they are
never printed is due to the piece itself: it stands before the answer to
`StreamConfig` (`InTheWay`), whose check fails and closes the connections.
*Are they all printed, in order* is `Delivered`: what is printed is what the
first `d` samples make (`StateAt`), and what has come and is not printed is
whole packets of those that follow, however they were cut (`WholePackets`).
`PacketContinues` carries this over a packet.  The loop over its bytes is a fold
of the library; `FoldOfPacket` turns it into a run of states, one sample at a
time, by the least number for which it might fail.

*The line and its codes.*  `BlockFormatProofs` is about one line, for any number
of symbols, any width of the words and any size of the buffer:

* `TwoReadBack`: what the library's own test does, `RoundTrip`, for both codes and
  any two integers that have a code, where a buffer has room for them.

A structure of the move-to-front code stands for a list of the symbols
(`Listed`), whatever its last pointer holds; `mtf_encode` and `mtf_decode`
take the same symbol to the front of it (`EncodeListed`, `DecodeListed`,
`ToFront`), so an encoder and a decoder that stand for the same list go on to
do so, although their arrays may differ (`SameListStays`).  A gamma or delta
code that stands in the bits is read back and leaves the reader behind it
(`Reads`), and the zeros with which a line ends are no code (`EndsThere`).  An
integer that finds no room leaves the buffer as it was, so a line is a `Chain`
of codes, of all the integers of the block or of fewer; `CountIs` says that the
decoder counts them right.

*The stream.*  `CompressedStreamProofs` proves for any sizes of blocks and of the
bit buffer, any period of sync blocks, any recorded blocks, and any number and
order of reboots and lost lines:

* `ListsPermuted`: `ListsArePermutations`, without further hypothesis;
* `PrintedFaithfully`, `GivenUpForCause`, `SyncLinesPrinted`: `PrintedIsRecorded`,
  `GivesUpForCause` and the action property `SyncLinePrinted`, if no block needs
  the integer 0.  The first and the last are about a decoder that knows the
  block size, and the entries it prints are the node's only while no line since
  the last sync line was lost or cut: after that wrong values may be printed
  until the next sync line.

The hypothesis `AllowZero = FALSE` is needed: 0 has no Elias code, and the run
`decode_equal_times` shows what a block that needs it does to the decoder.  It
leaves out blocks, not steps: losses, reboots, full buffers and cut lines all
stay.  `Agree` says, integer by integer, that the encoder's codec before the
integer `k` and the decoder's before it stand for the same list and the same
clocks, and that what is decoded so far is what was encoded; `WholeDecodes`
follows.  A line that lacks an integer has fewer codes than a block of the known
size, so decoding it fails (`CutFails`): it is never printed, not even with the
integers behind the gap moved up.  `StreamInv` then goes from step to step: the
line under way holds the codes of a block (`OnTheWay`), and as long as no line is
missing since a sync line, the decoder's codec matches the one the node had
before that line (`Arrived`).  It says that codecs and bits exist with which the
line was made, so TLC cannot evaluate it as it does the other invariants.  A
sync block starts both sides anew (`StartedTyped`), which is why it is printed
whatever came before.

`HostToolsProofs` restates this for the run: `DecoderIsFaithful` has the four
properties, `ToolsTyped` is `HostTypeOK`.

What a recursive function computes is proved without the library's induction
theorems, which take an operator: `Recursion` shows that the function exists up
to the smallest argument for which it might not, and `InductionUpTo` is
induction over a set instead of a predicate.  That is why `BlockFormat`,
`DecoderMain` and `CompressedStream` have recursive functions where a fold would do.

Proving found a slip in two type invariants, `LoggerTypeOK` and `StreamTypeOK`:
an implication that stood on the line of another conjunct took it as its premise.
It is a bullet of its own now, and both are proved.

## What is only model-checked

* Liveness: temporal fairness and ENABLED are out of the prover's reach.  That
  is `PostedTasksRun`, `ExpiredTimersFire`, `BlocksAreSent`, `FlushesEnd`,
  `RequestsAreGranted`, `DriversAreServed`, `FramesAreTaken`, and the fairness in
  `ImplementsSharedWriter` and `ImplementsRadioSend`, of which the initial
  states and the steps are proved.  That the accounting logger's reports are
  sent for ever is not checked at all, as its clock makes the run too long.
* The findings: a run that expects a violation shows a counterexample, and
  `RoundTrip` of integers that have no code, or no room, is not claimed.

Every invariant and every action property of a passing run is proved, and every
refinement up to its fairness.

## Not modelled

`PROJECT.json` lists each component with its status and the reason.

* Time synchronisation, contexts, power states and time stamps of the radio,
  and `resend` and `modify`, which nothing calls.  The receiver's queue of time
  stamps would need the SFD edges of the transmitter's model: as it is cleared
  when it holds more than one, a frame may be given the stamp of the next.
* Transmitter and receiver in one behaviour: each sees the other as a user of
  the bus, and receptions as edges of a pin or as bytes of a FIFO.
* The masking of the loggers' own interrupts (`s_masking_int`).
* The receiving half of the serial layers.
* Activity labels, LEDs, active messages, multi contexts: data or relays
  without state.
* Alarm, energy meter, USART and sensor drivers: register accesses.
* `ArbiterP` with an owner that needs time (only the sht11's), with which
  `immediateRequest` may fail and forget requests queued meanwhile; the arbiter
  without a default owner, which nothing instantiates.
* Arithmetic of voltages and checksums, formats, the applications and the
  scripts.

## Plan

1. Done: scheduler and CPU activity; event loggers; accounting logger; serial
   writer; arbiter; SPI sharing; virtual timers; radio transmitter, medium
   access and receiver; power states; compression and host tools.  Proved: all
   invariants and action properties that the runs check, and every refinement up
   to its fairness.
2. The transmitter and the receiver over one SPI sharing, with `OtherTakesBus`
   and `OthersTakeBus` replaced by it, and with the time stamps.
3. The decoder behind a node whose blocks need the integer 0: how far it falls
   behind, once the code has an answer to it.
