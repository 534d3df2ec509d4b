# A formal model of the STM32H745 dual-core frequency meter

The firmware runs on both cores of an STM32H745. The Cortex-M4 core has the
network, the PTP clock, the timers that measure, and a command line; the
Cortex-M7 core has the serial port and the screen. The two share a region of
memory, three small queues in it and a few hardware semaphores. There are no
tests in the repository. Nearly everything that can go wrong is a matter of
order: interrupts that nest in tasks, two cores that read and write one word,
flags that are cleared while somebody raises them.

This directory holds TLA+ modules translated from the C sources, the TLC
configurations that check them, and proofs for TLAPS of the parts that carry
the rest. Line numbers refer to the files under `src/`.

    tlc -workers 2 -config MCIccQueue_spsc.cfg MCIccQueue.tla
    tlapm IccQueueProofs.tla

`PROJECT.json` says which definition models which lines, which run checks which
property, and which mutation of the model each property catches.

## 1. Inventory

| Component | Source | State it keeps | Operations |
|---|---|---|---|
| ICC queue | `Common/ICC/icc_queue.c` | `elements`, `readIdx`, `writeIdx` in shared memory | `iccq_push`, `iccq_avail`, `iccq_top`, `iccq_pop` |
| ICC notification | `icc_cm4.c`, `icc_cm7.c`, `standard_output.c` (M4) | hardware semaphores, their latched release flags and enables | `icc_write`, `icc_notify`, the free callback of either core, `icc_init` |
| Boot | both `main.c`, `icc_cm4.c:11-30` | wake-up semaphore | M7 initialises, wakes M4, M4 waits |
| Blocking FIFO | `Modules/blocking_io/blocking_fifo.c` (same file on both cores) | ring indices, two binary semaphores | push, push_all, read, pop, wait_avail |
| Serial output | `CM7/Src/standard_output/` | the FIFO, `lineBuf`, the DMA-done flag | `serial_io_thread`, `MSG`, `MSGchar` |
| Display | `CM7/Src/main.c:118-131, 187-206` | `channels`, `prevChannels` | HSEM1 interrupt stores, task compares and draws |
| Screen driver | `CM7/Src/gc9a01.c` | none | blocking SPI writes |
| Frequency estimation | `CM4/Src/timersync/freqmeasure.c` | first captured value, overflow count | two TIM1 interrupts; start, restart, stop |
| Timer synchronisation | `CM4/Src/timersync/timersync.c` | servo state, last captures, capture log | TIM2 interrupt; start, stop, callback of PTP |
| Ethernet MAC | `CM4/Drivers/EthDrv/mac_drv.c` | two descriptor rings, packet counters | `ETHHW_Transmit`, `ETHHW_ISR`, `ProcessRx`, `ProcessTx` |
| Network interface, PHY | `eth_drv_lwip.c`, `phy_common.c` | link state | output, input callback, link thread |
| lwIP OS port | `lwip_port/OS/sys_arch.c` | mailboxes, semaphores, one mutex | as lwIP asks for |
| HTTP glue | `ethernet/http_sever.c` | none of its own | prints frequencies and the capture log |
| Command line | `cliutils/cli.c`, `cmds.c` | line buffer, escape state, history ring; command table | `get_line`, register, remove, lookup |

How they interact. Text and measured values flow M4 -> M7: a task or the TIM2
interrupt calls `MSG`, `icc_write` pushes bytes, `icc_notify` takes and releases
HSEM 1, whose release interrupts the M7 core; its callback drains the bytes into
the serial FIFO and the values into `channels`. Keys flow M7 -> M4 the same way
over HSEM 0 into the command line. The Ethernet interrupt feeds lwIP and PTP;
the time stamps of sent packets come back by callback. The PTP clock drives
TIM2's servo and stamps the captures.

What is hard. Everything below is listed with its line under `hazards` in
`PROJECT.json`.

- Two cores, no common lock: the queue relies on one producer, one consumer and
  single word accesses. The code has several producers, and in the `-O0` build
  loads one word twice.
- One hardware semaphore announces both queues and is taken by nesting contexts:
  a release may cover for another or be lost in the handler.
- Interrupts that preempt each other: TIM1's two, the Ethernet handler against
  the transmitting thread, HSEM1 against the serial thread and the display task.
- Flags cleared by writing 1 with a read-modify-write.
- Rings at their limit, 8- and 16-bit counters that wrap, half a turn of a timer.
- State kept over a stop and a start, or read before it is written.

What makes each part correct: what is pushed comes out once, in order, and is
announced (ICC, serial output); the screen shows the last measurement (display);
a reported frequency belongs to two neighbouring edges (frequency); a time stamp
belongs to its packet, frames are handed on in order (MAC); the interface follows the
cable, the pool of packet buffers stays whole and the printed log is the log (network); the line is what the keys
mean and the history is what was given (command line); the second of a capture
is the second it happened in (timer synchronisation); a command is called
when its words are typed and registration ends (command table).

## 2. Modules

| Module | Models | Main abstraction |
|---|---|---|
| `Channel` | what a queue between the cores promises: a bounded FIFO | - |
| `IccQueue` | `icc_queue.c` and the two loops around it, one step per access to a shared word | an element is the number of the push that brought it |
| `IccNotify` | `icc_write`, `icc_notify` and the receiving interrupt, with two pipes | a push or a pop is one step (IccQueue has the inside) |
| `BlockingFifo` | index arithmetic of `blocking_fifo.c` | operators only |
| `SerialIo` | `serial_io_thread`, the start-up task, the pushing interrupt, DMA | bytes are numbered |
| `Display` | the display task and the storing interrupt | a frequency is a number, repeated ones included |
| `FreqMeasure` | TIM1 as a counter, its two handlers, start and stop | one constant signal period; time in timer ticks |
| `EthMac` | transmit and receive rings, DMA, interrupt handler | packets and frames are numbered; a frame fits a descriptor |
| `TimerSync` | TIM2's interrupt (servo, capture), start and stop, against the PTP clock | time in ticks of TIM2 from event to event; a second of 21000 ticks; one channel |
| `CliLine` | `get_line`, its escape sequences, the history | one or a few letters and a blank; echo left out |
| `CliTable` | registration, the tokenizer both sides share, lookup, help | a text is a sequence of words |
| `LinkPoll` | the PHY's link registers, `fetch_link_properties` | speed and duplex are one mode |
| `TsLog` | the capture log and the page that prints it | a capture is a number, a line has two halves |
| `SysArch` | `sys_arch_protect`, mailboxes, the pool of packet buffers under them | one pool; a frame takes one buffer |
| `NetThread` | the TCP/IP thread that runs the three above, the link thread, two interrupts | one step per register read, half line, list access |
| `IccQueueProofs`, `IccNotifyProofs`, `FreqMeasureProofs`, `EthMacProofs`, `TimerSyncProofs` | theorems about the modules they are named after | - |
| `CliProofs` | theorems about `CliLine` and `CliTable`, the command line | - |
| `Cm7Proofs` | theorems about `SerialIo` and `Display`, the two tasks of the M7 core | - |
| `NetThreadProofs` | theorems about `NetThread` and the lemmas about `LinkPoll`, `TsLog` and `SysArch` | - |

`MCIccQueue`, `MCIccNotify`, `MCSerialIo`, `MCTimerSync` and `MCCliTable` give TLC the constants a
configuration file cannot write down. The other configurations use the module
itself.

The steps follow the code: one action per access to a shared word where two
cores or an interrupt and a task meet, one action for a whole handler where
nothing can come between. The names of variables and of actions are those of the
source. A definition called "history" in a comment only records what happened, for
a property to speak about.

### ICC queue (`IccQueue`, `Channel`)

`PushCheck`, `PushCopy`, `PushLoad`, `PushStore` are `iccq_push` between its
accesses to the indices; `RecvFirst`, `RecvSecond`, `RecvDone`, `Top`,
`PopFirst`, `PopSecond` are the drain loop of `icc_recv_cb`. `SingleLoad` chooses
the build: `-Og` loads `writeIdx` once per `iccq_avail`, `-O0` twice, and then
the value summed is not the value compared. `Pushers` is the set of contexts that
push; the firmware has more than one, since MSG runs in the M4 core's tasks and in
TIM2's interrupt.

### ICC notification (`IccNotify`)

Writers push a message element by element, take the semaphore (which succeeds even
if another context of the core holds it: the hardware compares core numbers) and
release it; of two nested releases only the first unlocks it. Unlocking sets `flag`; if
`enabled`, the receiver's interrupt runs: it disables its notification, clears
the flag, looks at each pipe in turn, pops as many elements as it counted, and
enables the notification again. `Gated` is `sInitialized` of `cli.c`: until then
the callback leaves the bytes alone.

### Serial output (`BlockingFifo`, `SerialIo`)

The FIFO's two binary semaphores and two indices, the thread's read, pop, check
and transmit, the DMA's end. The start-up task prints before it opens the link.
The two tasks are time-sliced, so the thread may run between any two steps of the start-up
task's push; the interrupt's push comes anywhere and nothing keeps the ring from filling.
`SingleLoad` chooses the build, as above. `full` and `late` are history: the ring was filled to
the last byte, `readSem` was released for bytes that were gone. They name the two ways in which
the code loses output, and the properties allow for nothing else.

### Display (`Display`)

The loop over four channels, with the loads of the redraw's arguments, the redraw
and the second load of the value to remember as separate steps. `Measure` stores any value,
also one that was there before. `raced` and `repeats` are history: channels that were stored
during a redraw, and channels that went back to the remembered value while the screen showed
another.

### Frequency estimation (`FreqMeasure`)

`Tick` advances the counter and the signal; a rising edge latches the counter.
An interrupt may be late by `Latency` ticks. The handlers are split where the
other interrupt can come between: the report is written to the link in the middle
of the capture handler, and the overflow interrupt has the higher priority. A
start leaves `is_first_capture`, `last_captured_value` and `overflow_count` as they are, as
the code does.

### Timer synchronisation (`TimerSync`)

`Advance` moves time to the next event: an edge of the signal, the end of the
PTP clock's second, the timer's wrap, or the interrupt's turn, which comes `Latencies`
ticks after a flag was raised. `Isr` is the whole of `TIM2_IRQHandler`: `Update` runs the
servo on the PTP time latched at the wrap (`Skip`, `Jump` or `Trim` of
`timersync_run_ctrl`, which first sets the period decided on last time), then `Capture`
scales the count with the period set by now, reads the PTP clock, decides the
second and takes the interval to the previous edge.

The second is scaled to 21000 ticks of TIM2 (210 MHz), 100 us; the tolerance (420 ticks, the
code's 2000 ns), the gains and the default period are the code's own: `TIMERSYNC_DEFAULT_ADDEND`
is 200e6 - 1, 4.8 % short of the 210e6 ticks that a PTP second has, here 19999 of 21000. The
correction is computed in doubles and cut to an integer, so where the exact sum is whole either
neighbour may come out. After a jump the period comes from the PTP clock's addend: the length of
its second, off by one of `Offs`.

A start is made by the command line's task, and the interrupt comes between any two of its
steps: `Clear` (the `memset`), `Point` (`pTim`), `Rate` (`period`) and `Arm` (the timer's set-up,
which writes ARR over what the servo may have set). It neither clears nor stops the counter, so a
timer that was running meets the half cleared state. In the handler between `Clear` and `Point`, `pTim` is NULL
(`Null`): what is written to ARR through it is lost or a fault that stops the core (`fault`),
what is read is `Word`. `Stop` keeps the count; a count beyond the period runs on to `CntMod`
(2^32). `Fractions` is the reading of the clock in two loads: a second that ends in between goes with
the fraction of the next. `edgeAt`, `delay`, `off`, `torn`, `starts`, `rated`, `locked`, `jumps` and
`clean` are history.

### Ethernet MAC (`EthMac`)

A packet with a callback has `ttse` and `ioc` set; `DmaSend` writes its time back
and raises TI. The handler acknowledges RI or TI with a read-modify-write of the
status register, which clears both (`IsrAck`, `IsrEnd`), searches the receive
ring backwards for the oldest filled descriptor (`RxFind`), and the transmit ring
for times (`TxScan`), oldest packet number first. A frame that finds no buffer stays
in its descriptors (`RxKeep`): the next handler starts from it again, and the DMA, which
takes its descriptors in turn, waits in front of it. `ahead` and `behind` are history: the
handler that then takes up this frame is past the DMA's descriptor, and what the DMA
writes now lies behind it. The DMA fills every descriptor it owns. With none left the backward search does
not end: `RxFind` then has no step, and that is what `GoesRound` names, with the loop after it that
runs on while every frame in a full ring finds no buffer (`starved`).

### Command line (`CliLine`)

`Press` chooses a key and queues its bytes; one action per byte class follows
`get_line`. An escape sequence acts when its last byte comes, on `escParam[0]`,
which that byte only sets afterwards: the first arrow of a line acts on an
uninitialised local (`NewLine` chooses its value), every later one on the
previous sequence. `Store` is the store of a parameter, with no bound: from the fifth on it falls
behind `escParam`, on `escString`, `histIdx`, `noMod` or a local that no property speaks of, as the
compiler has laid them out (`overrun`); an arrow may then recall what lies past the history (`Line`).

### Command table (`CliTable`)

Two tasks register, the start-up task and the PTP task; the command line's task
reads the table without the mutex. All three split text with `tokenize_cli_line`:
`StartCopy` and `EndCopy` are its `strcpy` into the static buffer, `First` and `NextWord`
its calls of `strtok`, whose place in the text is static too. Two splits that overlap
leave `lineCpy` mixed or the cursor astray: what either finds then is the word `Torn`
or the other text's. `Check`, `Acquire`, `Count`, `Search`, `Release`, `Return` and `Back`
are `cli_register_command` between the points where another task can tell the difference.
A duplicate leads to `stuck`: `cli_remove_command` takes the mutex again that its caller
holds, and that mutex is not recursive. `Called` is the lookup; `Format`, `Tidied` and
`PrintHelp` are the help, laid out and flagged without the mutex: `Format` is the first loop, `Tidied`
the second, which loads the count anew and writes the padding of a command that came in
between through a NULL `pPadding` (`nulled`). The write has no effect on the table or is a fault that stops the core.

### The network's thread (`LinkPoll`, `TsLog`, `SysArch`, `NetThread`)

lwIP runs everything in one thread, and so the three parts share it. `NetThread` extends
them and adds who does what: `phy_thread` posts a callback every half second, the
Ethernet interrupt posts frames, a frame is a request for the log's page or anything else
and is freed in the end. The parts share the thread (`job`), the mailbox and the mutex;
TIM2's interrupt, the Ethernet's and the cable come at any step.

The PHY's link bit latches (`latch`): after the link was down the first read says so.
`ReadMode` and `ReadLink` are the two register reads in their order, `Apply` the rest of
`fetch_link_properties`. The page reads `tslog_head` for every line and copies the line in
two halves. The pool is a linked list as lwIP keeps it (external); a thread frees a
buffer in two stores between protect and unprotect, and in the interrupt the mutex
returns an error that nobody looks at.

## 3. What the runs check

| Run | Instance | Shows |
|---|---|---|
| `icc_spsc` | one pusher, 3 slots, 6 pushes, one load of `writeIdx` | the ring is a bounded FIFO: in order, nothing lost, no waiting element overwritten, the count never too large; it implements `Channel` |
| `icc_two_pushers` (violation) | two pushers, 4 slots, 3 pushes | two pushes return true and one element is gone |
| `icc_link` | a task and an interrupt write into two pipes (capacity 2 and 1), 3 elements each | no wake-up of the shared semaphore is lost; pipes are drained in order and never when empty; everything arrives |
| `serial_out` | ring of 4, two start-up pushes, 9 bytes | every byte the ring took is sent, once and in order, the thread waits for data and for the end of a transfer only if there will be one, until the ring is filled or a late release wakes the thread; the count of bytes is right but for whole turns |
| `display_any` | 4 channels, one measured, 4 values in any order | what the sleeping task finds is shown; only the window between drawing and remembering can lose an update, or a value that goes back to the remembered one |
| `freq_bands` | a turn of 12 ticks; signal periods 4, 13, 18, 22 | a fast signal is measured exactly, one of one to two turns at most two ticks short, whatever an earlier start left |
| `freq_gap` (violation) | signal period 8, more than half a turn | a report far off the two ticks that the code's comment allows |
| `timer_lock` | a second of 21000 ticks, a default period of 19999; signals of 1 s, edges near the second's end, and of 1.33 s; two starts, preempted anywhere | after a start has returned the servo jumps once, locks and stays locked; no edge in a wrong second makes an interval that is accepted; one served late is stamped with its own second |
| `eth_rings` | 3 transmit, 4 receive descriptors; up to 4 packets and 5 frames, 5 in all, each frame may find no buffer once | a time stamp belongs to its packet and is reported once, in order, and only an erased interrupt loses one; frames are handed on in order but for those without a buffer and those that came behind the handler; the handler returns unless the ring is full |
| `cli_keys` | lines of 3, history of 2, 3 lines | the history holds the last lines; the buffer is what the keys mean; an arrow recalls a whole line or does nothing, unless a typed sequence overran `escParam` |
| `cli_table` | 1 command of the start-up task, 2 or 3 of the PTP task, 3 slots, 2 lines | a command is counted under its own words and called by them unless splits overlap; the help is laid out, and nothing written through NULL, but for what was registered meanwhile; only a duplicate or that write stops a registration |
| `net_thread` | 2 modes, a log of 3 lines of which 2 fit the page, 4 captures, 2 buffers, a mailbox of 2 | the MAC has the PHY's mode, the interface follows the cable; the page is the log in order; every buffer is in one place until an interrupt comes in the middle of a free |

### Bounds, and why they are enough

- *Rings.* Every ring wraps: 6 pushes through 3 slots, 9 bytes through 4, 4
  packets through 3 descriptors, 5 frames of one or two descriptors through 4.
  Full, empty and wrapped indices all occur. The proofs of `IccQueueProofs`, `Cm7Proofs` and
  `EthMacProofs` hold for every length.
- *Pipes.* Capacities 2 and 1 make `icc_write` meet a full queue. Two writers are
  the least that nest in the semaphore; the theorem `NoLostWakeup` holds for any.
- *Frequency.* `Period = 11` stands for the timer's period; the four signal periods lie
  in the bands that the code distinguishes: two edges in one turn, and one to
  two turns, near both ends. `OvfMod = 5` makes the 8-bit overflow count wrap within
  the 14 ticks of silence plus the longest pair; `Word` is larger than any
  difference except a negative one.
- *Timer.* The edges of the 1 s signal fall 430 ticks before the second's end, just beyond
  the tolerance, and are served 60 or 430 ticks later: before the clock's new second or
  exactly with it, where the two loads of the clock are torn, with a timer that may be ahead or behind. The second
  signal's edges wander over the second. `Offs = {-6, 1}` makes the period after a jump too short or
  too long. An interrupt is served within half a second:
  later, the clock it reads would not say which second the wrap was near. A stop leaves any count the events
  reach, one beyond the next period included; a second start comes with the timer stopped, waiting or
  running. `MaxHeld = 1`: a start is held up past the beginning of one PTP second, enough for a wrap and a capture between
  its steps. `Old = 4` seconds is farther back than an accepted interval reaches.
- *Frames.* With five frames the DMA comes round to one that found no buffer, the handler
  takes it up and two more arrive behind the handler; with four this does not happen.
  `MaxTraffic` bounds packets and frames together: from four packets beside one frame to
  five frames alone.
- *Packets.* `CntMod = 8` is more than the packets sent: within a run the 16-bit
  number of the code does not wrap. With `CntMod = 4` and five packets TLC
  finds `TimesInOrder` violated: at the wrap a later packet is reported first. The theorem
  `ReportsInOrder` names the same condition, `NoWrap`.
- *Command table.* The PTP task registers `timsync operate` twice, which the search finds, or
  fills the table and is refused. Its own lines run beside a typed line, `flexptp` having
  been typed first; so two tasks of one priority split at once in every order.
- *Network.* Two modes and a cable that changes at will: down and up again between two
  polls and between the two reads of one. Four captures overtake a page of two lines from a
  log of three. With two buffers and a mailbox of two the pool runs empty and the mailbox
  is full of polls and frames. What a corrupted pool leads to is not followed: the
  Ethernet interrupt stops there (`EthIrq`).
- *Command line.* A buffer of 3 lets a line reach the limit by typing and by
  recall; 3 lines overflow a history of 2 and repeat a line. The one letter is `[`, which is also
  a byte of the escape sequences; alone on a line it stands for the text `hist`. Longer lines of `[` and
  blanks are what the history keeps. A lone escape and `[` make every later key a parameter, up to the fifth and
  beyond.

A cfg that says `CHECK_DEADLOCK FALSE` has a bound after which nothing is sent,
typed or received, and the modelled part rests.

### What a passing run leaves out on purpose

- `SingleLoad = TRUE`, in `icc_spsc` and `serial_out`: the `-Og` build. With
  FALSE (`-O0`, `CM4/CMakeLists.txt:91`) TLC finds `AvailIsCount` violated: the other
  core wraps between the two loads, the difference is negative, and the 16-bit
  count of `icc_recv_cb` is about 65000. `InOrder` and `NothingLost` go with it. The same load in
  `bfifo_get_used` breaks `UsedIsCount` and `WaitReturnsData`; `WaitingIntact`, `StreamIntact` and
  `AsleepMeansEmpty` hold in either build on these instances.
- `CntMod = 8`, in `eth_rings`: more than the packets sent (see *Packets* above).
- A silence of 256 turns of TIM1, after which the 8-bit overflow count is 0 again
  (`freqmeasure.c:311`), is longer than any modelled.

Apart from these three, where the code goes wrong the model goes wrong with it and the property
names the case. What is then left open:

- `FastIsExact` and `SlowIsClose` leave out the first result after a restart, which mixes two
  measurements (`freqmeasure.c:251`).
- The timer's properties speak of the time after the jump. A restart that finds the timer in phase
  by chance trims the default period first, 4.8 % short; until that has run out of the tolerance
  and the servo jumps, the intervals it reports are false.
- Three models can stop at an endless loop or a write through NULL: `GoesRound` in `EthMac`, `fault`
  in `TimerSync` and `CliTable`. What the core does after such a write is not followed.
- The page's lines are whole: what `http_sever.c:55-64` does to a text that its buffer cuts off is not modelled.
  The text of a line is its letters: leading blanks that `get_line` skips over are gone, not left in the buffer.

### Disagreements between code and comments

Two are violation runs of one property each; `findings` in `PROJECT.json` quotes
the line.

1. `icc_two_pushers`: `iccq_push` returns "true on success", for two contexts at
   once, while one element is gone.
2. `freq_gap`: for a period between half a turn and one turn the difference is
   negative, and the displayed frequency is 0.

Others are the exceptions that properties of passing runs name; dropping the
exception makes TLC show the case:

- `OnlyTheRaceLoses`: `prevChannels` is set from a second load (`main.c:201`). A
  measurement between the draw and this load counts as shown and is not, for ever if
  the frequency stays the same. So does one that returns to the remembered value after
  a redraw for another channel has shown a third (`repeats`).
- `WaitReturnsData`, `AllSent`: `bfifo_wait_avail` is to wait for available data
  (`blocking_fifo.h:86-90`). `readSem` is released after the bytes are visible
  (`blocking_fifo.c:80`): the thread, time-sliced with the start-up task, may take them
  first and is then woken for nothing; it starts a transfer of 0 bytes, which the HAL refuses,
  and waits for its end for ever (`serial_io.c:125`). Without `late` TLC shows it.
- `UsedIsCount`, `StreamIntact`: `bfifo_push` takes as many bytes as are free, all of them if
  it can (`blocking_fifo.c:53`); equal indices mean empty, and the content is forgotten.
- `HandlerReturns`: with every receive descriptor used, the backward search of
  `ETHHW_ProcessRx` (`mac_drv.c:355`) does not end; with the ring full and no buffer to be had, neither does
  the loop after it (`mac_drv.c:361`).
- `ArrowRecalls`: `escParam` has four bytes and no bound (`cli.c:317, 399`). A lone escape, `[` and
  five letters overwrite other locals of `get_line`; no key of a terminal sends that
  (`BufferIsEdited`).
- `JumpsOnce`, `Locks`: a restart of a running timer (`timersync.c:301-311`) may be
  preempted by the interrupt. A jump made there is undone by the rest of the start, and between the `memset` and the next line
  the handler writes through a NULL `pTim`.
- `OnlyMissedIsErased`: flags are cleared by a read-modify-write of a write-1-to-clear
  register (`mac_drv.c:479, 483`). A packet that completes in between loses its interrupt,
  and its callback waits for a later packet, or is overwritten.
- `FramesInOrder`: a frame without a buffer stays in the ring while later ones are
  handed on (`mac_drv.c:361`). The DMA comes round and waits in front of it; the handler
  that takes it up then steps past the DMA's descriptor. Two frames that arrive now are
  taken in the wrong order, and if the second is time-stamped, the handler may stand at
  the descriptor of its time and hand that on as a frame (`behind`).
- `OnlyDuplicatesHang`: the comment "clean up if the same command registered before"
  (`cli.c:499`) announces what deadlocks (`cli.c:517`).
- `RunsWhatWasTyped`, `HandleNames`: two splits at once mix their texts (`cli.c:82`).
- `HelpIsTidy`: a command that is counted between the two loops of the layout has its padding written
  through NULL (`cli.c:164`); one that is counted between the loops and the flag is printed without its
  hint until something else is registered (`cli.c:171`).
- `OnlyInterruptsCorrupt`: the comment on `sys_arch_protect` wants "recursive calls from
  the same task or interrupt" (`sys_arch.c:438`); the mutex has neither, and the receive
  interrupt takes buffers from the pool in the middle of a thread's change.
- `StampIsRight`: the second of a capture is wrong by one when the timer is ahead of the
  PTP clock and the interrupt comes early (`timersync.c:365` finds the clock behind the
  capture). The filter of `compute_dt` drops both intervals such a stamp makes, for every
  signal period between a half and one and a half seconds that is farther from both than twice
  the tolerance (`AcceptedIsTrue`);
  what is printed and logged as the capture's time is still wrong. The clock is read in two loads
  without a latch (`mac_drv.c:190`): a second that ends in between stamps the capture one second early (`torn`).

### Fairness

| Module | Assumed | Why |
|---|---|---|
| `IccNotify` | a writer goes on; the receiver's start-up goes on; a pending enabled interrupt is taken | cores do not stop; nobody is assumed to call `icc_write` |
| `SerialIo` | the start-up task, the thread, the end of a transfer | two time-sliced tasks of one priority, a UART that works |
| `Display` | the task goes on | `osDelay` ends; measurements are not assumed |
| `FreqMeasure` | time passes; a handler goes on | the timer runs freely |
| `TimerSync` | time passes, interrupts are served; a start that has begun goes on (both until a fault) | clocks run, the command line's task gets what the interrupts leave; nobody is assumed to type a command |
| `CliTable` | each of the three tasks goes on, until a fault | one priority, time-sliced; nobody is assumed to type |
| `NetThread` | the TCP/IP thread and the link thread go on | `LinkFollows` holds once the cable and the Ethernet interrupt rest: frames that keep the mailbox full keep the poll out |
| `EthMac` | the transmitting thread, the DMA's transmitter and the handler go on | not the arrival of frames, nor the sending of packets |

All of it is weak fairness. `IccQueue` and `CliLine` are checked for safety only.

## 4. What is proved

`IccQueueProofs` proves, about `IccQueue`, for every length, bound, count
modulus and set of pushers unless said otherwise:

| Theorem | States | Assumes |
|---|---|---|
| `TypeCorrect` | indices stay in the ring | - |
| `WaitingSafe` | no push lands on an element that waits | one pusher; either build |
| `StreamInOrder` | what comes out is 1, 2, 3, ... | one pusher, one load |
| `PushesKept` | a push that returned true is delivered or waits | one pusher, one load |
| `CountIsSafe` | the drain loop's count is at most what is there | one pusher, one load |
| `RingImplementsChannel` | the ring refines `Channel` | one pusher, one load |

The argument. `WaitingIntact` is not inductive: it says nothing of a push whose
element is copied and whose index is not stored yet. `RingInv` adds where the
pusher is: the slot it copies into is the one at `writeIdx`, it is not the
reader's as long as the guard of `PushCheck` held, and the index it is about to
store is the next one. It also bounds the consumer's first load: it lies between
`readIdx` and `writeIdx`, as the ring counts. A torn load can then make the
count wrong, but an inductive fact about `iccq_pop`'s own check remains, that it
never advances past `writeIdx`, and so the ring stays whole in either build.
With one load, the count is at most the elements waiting (`AvailSmall`,
`UsedBounds`), every pop takes a waiting element, and `FifoInductive` adds that
the number delivered and the number waiting sum up to the number stored. The
refinement is a step-by-step reading: storing `writeIdx` appends, advancing
`readIdx` removes, and everything else stutters.

`IccNotifyProofs` proves, about `IccNotify`, for any writers, pipes, capacities and
bounds, with the receiver gated or not:

| Theorem | States |
|---|---|
| `TypeCorrect` | the state is typed |
| `ArrivesInOrder` | a pipe holds the elements that follow the last one delivered, in order |
| `PopsCounted` | the drain loop never pops an empty pipe |
| `NoLostWakeup` | a waiting element has the flag, a handler yet to look, or a release to come |

`PopsCounted` needs `ArrivesInOrder` and that the handler's `stage` names a pipe
while it drains (`TInv`). `NoLostWakeup` is the heart of the link. The
semaphore's nested release is the delicate case: a writer at its release while
the semaphore is free will not raise the flag, so its elements must be covered by the
release that freed it, which came after they were pushed. `MissInductive` shows
this one action at a time; the handler's part is that it clears the flag before
it looks, so an element pushed after the look raises the flag anew.

`Cm7Proofs` proves, about `SerialIo`, for a ring, a line buffer and start-up messages of
any size:

| Theorem | States |
|---|---|
| `CountIsRight` | `bfifo_get_used` is the number of bytes in the ring, but for whole turns of it (`UsedIsCount`) |
| `WireInOrder` | what is sent is 1, 2, 3, ... until the ring is filled (`StreamIntact`) |
| `WaitFindsData` | `bfifo_wait_avail` returns only with data in the ring, and no end of a transfer is waited for that was not started, but for a late release or a filled ring (`WaitReturnsData`) |
| `NoLostWakeUp` | the thread does not sleep on a ring with data (`AsleepMeansEmpty`) |

All four assume `SingleLoad`, without which TLC refutes the first and the third, and nothing about who runs when
or how much is printed. `CountInv` holds for ever, a ring that is filled and overwritten
included: the indices count bytes modulo the ring. The
invariant `SerialInv` says, of a ring that was not filled yet, what its memory holds from `readIdx` on (`RingHolds`), that a
loaded `writeIdx` counts no more than is there (`SeenIsThere`), that the line follows what was
sent (`LineIsNext`), and above all what `readSem` stands for at each place of the thread
(`SemTells`): unless it was released late it is released only if bytes remain that the thread has not dealt with, and
while it sleeps or sends with bytes in the ring it is released or about to be.

`Cm7Proofs` also proves, about `Display`, `OnlyRedrawLoses`, that an update is lost only if it comes between the
call of the redraw and the second load, or goes back to the remembered value under another screen, for
measurements of any value. The property speaks of the
screen when the task is back at its loop; the invariant `DisplayInv` carries it through: what
the redraw is called with (`DrawsLatest`), and that the screen has what `prevChannels` says
unless the loop will see a difference (`ScreenKnown`).

`FreqMeasureProofs` proves, about `FreqMeasure`, for any timer period, signal, silence and
commands, and any latency below the signal's period (`FreqAssumption`: the word of the
difference is wider than the counter):

| Theorem | States | Assumes |
|---|---|---|
| `FastExact` | a signal whose two periods and delays fit a turn is measured exactly | - |
| `SlowClose` | one of one to two turns is measured 0 to 2 ticks short | `OvfMod > 3`, `Word >= 2 * M`: the code's 8 and 32 bits have both |

The argument of `FastExact` (`FreqInv`) follows the counter from the report that clears it over
both edges of the next pair: it lags behind the time since the last edge by no more than
the handling of that report, so it cannot overflow before the second edge, and at most one
overflow from before the report is still counted. `SlowClose` (`SlowInv`) counts time in the
same way, as overflows counted, the one pending and the counter: together they are behind the
elapsed time by at most the latency (`Behind`), so the first edge falls in the counter's second
turn and no overflow is missed. A report that finds an overflow pending when it clears the
counter is excepted, and the next one too (`raced`).

`NetThreadProofs` proves, about the composition `NetThread`:

| Theorem | States |
|---|---|
| `ModeFits` | the MAC's mode is the PHY's (`MacFits`), for any modes and a cable that changes at any step |
| `PageInTime` | the page is the log in order (`PageIsLog`), for a log and a page of any length |
| `PoolSound` | a buffer is lost or given twice only after an interrupt bit (`OnlyInterruptsCorrupt`), for any finite set of buffers and a mailbox of any length |

`LinkInv` relates the latched bit, what a poll has read so far and the remembered state: a
mode that was read before the link fell is never applied to a link that stays up, since the
latch makes the second read say down. `LogInv` numbers the
lines by age: the line `k` places after the head is of capture `captures - LogSize + 1 + k`, and
the line being printed is found as many places nearer the oldest as captures came since its
slot was computed, until it is lapped. `PoolInv` says that until an interrupt bites there is a
sequence of distinct buffers that is the list from `tab` (`IsList`), and that this list, the mailbox and
the thread share all buffers with none in two places; while a free is half done, the buffer
already points at the list's head (`Whole`). That the recursive walk `Followed` along the list returns this
sequence is shown by induction over its length (`FreeIsList`).

`EthMacProofs` proves, about `EthMac`, for rings of any length and any interleaving of the
thread, the DMA and the handler:

| Theorem | States | Assumes |
|---|---|---|
| `ErasesOnlyMissed` | the thread erases a time only if its interrupt was cleared unseen (`OnlyMissedIsErased`) | - |
| `ReportsInOrder` | a callback gets its own packet's time, once, in the order of sending (`TimesInOrder`) | `NoWrap`: fewer packets than the number's 16 bits count (section 3 says what happens at the wrap) |
| `HandsOnInOrder` | frames are handed on once, with their own time or none, in order but for those that had to stay and those behind the handler (`FramesInOrder`) | -; buffers may fail, the last descriptor may be filled |

`Unseen` is about the handler's flag: while no interrupt is pending and the handler is not about to
scan, whatever time is in the ring was missed. What it rests on is that a scan that runs to
its end leaves no time behind (`ScanLeavesNone`). `OrderInv` follows the packets
round the ring: those the DMA has not sent lie one behind the other from its descriptor to the thread's
(`Consecutive`, `DmaFirst`), a time is in its own packet's descriptor and older than everything
still to be sent (`TimesTrue`), and a scan that goes on counting after it has
acknowledged the last time clears a descriptor that is clear already (`Cleared`). What the handler's search
returns is a recursive function over the ring; `SearchFinds` unfolds it to "a time, the oldest".
`RxInv` orders the receive descriptors by age, as places behind the DMA's (`Older`): the
frames in the ring lie in that order (`Sorted`), every frame is handed on or there
(`Accounted`), and the handler stands in the block of used descriptors that ends at the
DMA's, everything older being waived (`InBlock`), or has come past it (`Past`). The lemmas `Turn`
and `AgesTurn` say what becomes of the ages when the DMA goes on.

`CliProofs` proves, about `CliLine`, for a line and a history of any length, any letters
and any keys in any order:

| Theorem | States |
|---|---|
| `StackIsRecent` | the history is the last lines that were given, the newest first (`HistoryIsRecent`) |
| `BufferFollowsKeys` | the buffer is what letters, backspace and delete mean, and none of their sequences overruns `escParam` (`BufferIsEdited`) |
| `ArrowsRecall` | an arrow recalls a whole line or does nothing, and nothing after an erasure, in a line without such an overrun (`ArrowRecalls`) |

All three follow from one invariant, `CliInv`. It says where in the bytes of a key the
editor is and what the escape parser has seen of them (`AtArrow`, `AtDelete`), what the
buffer will be when the rest has come (`Plainly`, `Recalling`), that `noMod` knows of every erasure but the
one to come (`Marked`), and that the newest line of the history is the last one given that
was not empty (`NewestLine`), which is what a repeated line is compared with.

`CliProofs` proves, about `CliTable`, for a table of any size, any number of lines and
any commands that `CliTableAssumption` allows:

| Theorem | States |
|---|---|
| `HandlesName` | the limit holds, a command is counted under its own words, a handle is its own (`HandleNames`) |
| `RunsTyped` | what is called was typed, what is typed is called (`RunsWhatWasTyped`) |
| `HelpsTidily` | the help is laid out and no padding written through NULL (`HelpIsTidy`) |

each but for the cases the property names (overlapping splits, an overtaken return, commands
counted meanwhile). The assumption says that no command's words begin another's, which
holds of the commands the firmware registers, and that the start-up task creates the PTP task
with its last command. The second is what the limit rests on: `cli_register_command` looks
at it before it takes the mutex (`cli.c:468`). `Room` says that a task between this look and its
count still has a place; `StarterLast`, that the two tasks which register are never
between the two at once. `Alone` and `Tokens` are about the tokenizer's static state: two tasks that split at once are both
known to (`clash`), and one that splits alone has its own text in the copy and the first of its words taken. `Laid` carries the help:
what is not laid out was counted since (`missed`), or will be when its task sets the flag.

`TimerSyncProofs` proves, about `TimerSync`, for a second, latencies, counts, default period and
number of starts of any size, a tolerance of 200 ticks or more (the code's has 420) and rate
errors up to a twentieth of it (`TimerAssumption`):

| Theorem | States | Under |
|---|---|---|
| `OneJump` | once a start has returned one jump is enough (`JumpsOnce`) | - |
| `NeverSwings` | after it trimming stays in the tolerance (`StaysLocked`) | - |
| `StampsRight` | an edge served late enough has its own second, or the one before by a torn reading (`StampIsRight`) | - |
| `AcceptsTrue` | no accepted interval is false, every register keeps its range (`AcceptedIsTrue`) | `Regular` |

`TimerInv` says that the time latched at a wrap is served within the turn (`Served`), and
how far off a clock's second the next wrap will be: the last error and what the turn is too long
(`InPhase`, `Meets`). This it says only of a timer that the servo has in hand (`Tracked`: it
runs, and the servo has jumped since the start returned). What the default period, a preempted start or a
stopped counter made of the phase before does not matter: the jump takes the error it finds, and
leaves what the cut of its length and the rate of the next turns make (`Small`). No wrap that
follows is out of the tolerance, so there is no second jump: this is `OneJump`. While the servo trims, the pair of the error and the turn's excess stays in a polygon
(`Settled`), whose widths, in hundredths of the tolerance, are chosen so that it is closed under the
controller with the gains of the code, a rounding of one tick and one more that the doubles
may take, and reached from what a jump leaves.

`CaptInv` carries the edges: one that waits was latched in this turn or in the one before
(`Latched`), less than half a second ago (`Elapsed`). `FractionIs` bounds what
the scaling to nanoseconds moves it by, in the turn that it is scaled by (`SameTurn`) and in
another one, trimmed since (`OtherTurn`). So its stamp is close to its time in its own second
or in the one before (`NearOrOld`), and of two such stamps only those with the same fault are
an accepted interval apart (`IntervalTrue`), if the signal's period is inside half a second to
one and a half by more than twice the tolerance (`Regular`).

The assumptions are those of the modules (`QueueAssumption`, `NotifyAssumption`,
`FreqAssumption` and so on), which TLC evaluates on every run, and those named in the tables.
All proofs use the SMT backend, Zenon and PTL only. Where a recursive function had to be
unfolded (the pool's list, the transmit ring's search), the induction is over the set of
numbers for which the claim holds: the others would have a least one (`WFMin`), and have none. The same
fact gives the first command that fits a line and the last line that is not empty.

What the proofs showed about the models: the number of descriptors a scan has left to look at
(`left`) is not below twice the ring, as the type invariant had it; every turn
counts again the times it finds and takes one off, so `n` times make it grow up to
`n (n - 1) / 2`, more than twice the ring from six descriptors on.
`CliTable` needed its assumption on the commands and on the start-up task, which
the run's instance had satisfied without saying so; so did `TimerSync` the one that an interrupt is
served within half a second. That the default period need not be near the clock's rate, and that a start
may be preempted anywhere, since everything that follows rests on the jump alone, is what the proofs about
`TimerSync` showed.

Only model-checked is liveness (`EverythingArrives`, `AllSent`, `FoundAsleepIsShown`,
`HandlerReturns`, `Locks`, `LinkFollows`, `OnlyDuplicatesHang`), which is beyond the prover. Every
other property of a passing run is a theorem.

## 5. Not modelled

| Part | Why |
|---|---|
| Boot of the two cores | one pulse and one wait, each made once: whether a late waiter misses it depends on option bytes and wake-up logic of the chip |
| `cli_remove_command` behind its mutex, `cli_remove_command_array` | unreachable: the one live caller of the first waits for the mutex it holds, the second has none |
| `rx_thread` of `eth_drv_lwip.c`, multicast filters, netconn mailboxes, lwIP's other pools | not started; set-up; guarded by the same mutex in the same way |
| Screen driver, PHY identification and set-up, clock and pin set-up, PTP register set-up | straight-line register writes |
| The network stack, flexPTP, FreeRTOS, the HAL | not in the repository; where the code calls them their effect is in the calling action |
| etherlib variants | not part of the configured build |
| Message texts, `MSG`'s static buffer, echo of the command line | wording; the buffer's sharing is listed as a hazard |
| Of `timersync.c`: pins and registers, the divider on TIM1, the gains' command, three more channels, the frequency's arithmetic | set-up and arithmetic; the channels are alike and share nothing but the handler |
| Drawing, fonts, `Data_analysis/` | no behaviour in time |
| Vendored headers | register and bit definitions of every chip of the family: nearly all of the 620 000 lines of C in the repository. The firmware's own C, without the set-up code and the font, is a few thousand lines, and the `map` covers most of those in which anything can happen in another order |

## 6. Plan

In the order of importance; all of it is done.

1. `IccQueue`, `Channel` and proofs: everything the user sees crosses it.
2. `IccNotify` and proofs: the wake-up protocol around it.
3. `BlockingFifo`, `SerialIo`.
4. `Display`.
5. `FreqMeasure`.
6. `EthMac`.
7. `CliLine`.
8. `TimerSync`: TIM2's servo and captures against the PTP clock.
9. `CliTable`: registration, duplicates, handles, lookup without the mutex.
10. Failing allocation in `EthMac`.
11. `LinkPoll`, `TsLog`, `SysArch`, composed in `NetThread`.
12. Proofs for `SerialIo`, `Display`, `FreqMeasure` and `NetThread`'s mode and page.
13. Proofs for `CliLine`, `CliTable`, `EthMac`'s two rings, the pool of packet buffers and
    `TimerSync`.
