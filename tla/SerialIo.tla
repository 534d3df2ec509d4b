------------------------------- MODULE SerialIo -------------------------------
(***************************************************************************)
(* The serial output of the M7 core: bytes enter a blocking FIFO, a thread *)
(* sends them to the UART by DMA, a line buffer at a time.                 *)
(*                                                                         *)
(* First the start-up task prints (task_startup), then it opens the link   *)
(* and from there on only the HSEM1 interrupt pushes, one byte per element *)
(* from the M4 core, as fast as it prints: nothing keeps the ring from     *)
(* filling. The interrupt runs to completion: its push is one step. The    *)
(* start-up task has the thread's priority, the two are time-sliced: its   *)
(* push is several steps, and the thread may run between any two of them.  *)
(***************************************************************************)
EXTENDS BlockingFifo

CONSTANTS
  LineLen,     \* SERIAL_IO_LINEBUF_LEN
  BootPushes,  \* the lengths of the start-up task's pushes
  MaxBytes,    \* bound: bytes pushed
  SingleLoad   \* writeIdx is loaded once per bfifo_get_used (the -Og build)

ASSUME SerialAssumption ==
  /\ LineLen \in 1 .. Size
  /\ BootPushes \in Seq(Nat \ {0})
  /\ MaxBytes \in Nat /\ SingleLoad \in BOOLEAN

VARIABLES
  mem, readIdx, writeIdx, readSem, writeSem,  \* BFifo; bytes are numbered
  bootPc, boots,        \* the start-up task: where, and how many pushes are done
  pc, seen, size, line, \* the thread: where, its first load, size, lineBuf
  dma, flag,            \* a transfer is running; its completion flag is set
  pushed, popped, sent, \* history: bytes in and out of the ring, bytes on the wire
  full,  \* history: the ring was once filled to the last byte
  late   \* history: readSem was once released for bytes the thread had taken before

fifoVars   == <<mem, readIdx, writeIdx, readSem, writeSem>>
bootVars   == <<bootPc, boots>>
threadVars == <<pc, seen, size, line>>
uartVars   == <<dma, flag>>
history    == <<pushed, popped, sent, full, late>>
vars == <<fifoVars, bootVars, threadVars, uartVars, history>>

Init ==
  /\ mem = [i \in Indices |-> 0] /\ readIdx = 0 /\ writeIdx = 0
  /\ readSem = 0 /\ writeSem = 1
  /\ bootPc = "print" /\ boots = 0
  /\ pc = "waitTake" /\ seen = 0 /\ size = 0 /\ line = <<>>
  /\ dma = FALSE /\ flag = FALSE
  /\ pushed = 0 /\ popped = 0 /\ sent = <<>>
  /\ full = FALSE /\ late = FALSE

-----------------------------------------------------------------------------
(* Pushing. *)

\* bfifo_push up to the new write index: as many of n bytes as there is room for.
Put(n) ==
  LET free == Size - Used(readIdx, writeIdx, writeIdx)
      m    == Smaller(free, n)
      data == [k \in 1 .. m |-> pushed + k]
  IN  /\ mem' = Written(mem, writeIdx, data)
      /\ writeIdx' = Advance(writeIdx, m)
      /\ pushed' = pushed + m
      /\ full' = (full \/ pushed + m - popped >= Size)

\* Mutant: the interrupt's push leaves readSem as it is.
IsrPushSilent ==
  /\ bootPc = "open" /\ pushed < MaxBytes
  /\ Put(1)
  /\ UNCHANGED <<readIdx, readSem, writeSem, bootVars, threadVars, uartVars, popped, sent, late>>

(* MSGchar in icc_recv_cb. osSemaphoreAcquire with a timeout fails in an   *)
(* interrupt and takes nothing; a full ring looks empty, so the free size  *)
(* is never 0.                                                             *)
IsrPush ==
  /\ bootPc = "open" /\ pushed < MaxBytes
  /\ Put(1)
  /\ writeSem' = 1
  /\ readSem' = 1
  /\ UNCHANGED <<readIdx, bootVars, threadVars, uartVars, popped, sent, late>>

(* MSGraw and MSG in task_startup. *)
BootTake ==
  /\ bootPc = "print" /\ boots < Len(BootPushes)
  /\ writeSem = 1
  /\ writeSem' = 0
  /\ bootPc' = "put"
  /\ UNCHANGED <<mem, readIdx, writeIdx, readSem, boots, threadVars, uartVars, history>>

(* What is printed at start-up fits: what the thread pops meanwhile only   *)
(* adds to a room that is large enough.                                    *)
BootPut ==
  /\ bootPc = "put"
  /\ Put(BootPushes[boots + 1])
  /\ bootPc' = "giveWrite"
  /\ UNCHANGED <<readIdx, readSem, writeSem, boots, threadVars, uartVars, popped, sent, late>>

BootGiveWrite ==
  /\ bootPc = "giveWrite"
  /\ writeSem' = 1
  /\ bootPc' = "giveRead"
  /\ UNCHANGED <<mem, readIdx, writeIdx, readSem, boots, threadVars, uartVars, history>>

\* The bytes in the ring that the thread has not yet copied into its line.
Left == pushed - popped - IF pc \in {"popTake", "popLoad", "pop"} THEN size ELSE 0

BootGiveRead ==
  /\ bootPc = "giveRead"
  /\ readSem' = 1
  /\ boots' = boots + 1
  /\ bootPc' = "print"
  /\ late' = (late \/ (Left <= 0 /\ pc # "popTake"))
  /\ UNCHANGED <<mem, readIdx, writeIdx, writeSem, threadVars, uartVars, pushed, popped, sent, full>>

(* icc_open_pipe. *)
BootOpen ==
  /\ bootPc = "print" /\ boots = Len(BootPushes)
  /\ bootPc' = "open"
  /\ UNCHANGED <<fifoVars, boots, threadVars, uartVars, history>>

-----------------------------------------------------------------------------
(* serial_io_thread. *)

\* What bfifo_get_used returns now that the second load is made.
UsedNow == Used(readIdx, seen, IF SingleLoad THEN seen ELSE writeIdx)

\* The first load of writeIdx in bfifo_get_used.
Load(from, to) ==
  /\ pc = from
  /\ seen' = writeIdx
  /\ pc' = to
  /\ UNCHANGED <<fifoVars, bootVars, size, line, uartVars, history>>

(* bfifo_wait_avail. *)
WaitTake ==
  /\ pc = "waitTake" /\ readSem = 1
  /\ readSem' = 0
  /\ pc' = "waitGive"
  /\ UNCHANGED <<mem, readIdx, writeIdx, writeSem, bootVars, seen, size, line, uartVars, history>>

WaitGive ==
  /\ pc = "waitGive"
  /\ readSem' = 1
  /\ pc' = "readLoad"
  /\ UNCHANGED <<mem, readIdx, writeIdx, writeSem, bootVars, seen, size, line, uartVars, history>>

(* bfifo_read, and the start of bfifo_pop: popping nothing returns at once.*)
ReadLoad == Load("readLoad", "read")

Read ==
  /\ pc = "read"
  /\ LET n == Smaller(UsedNow, LineLen) IN
     /\ size' = n
     /\ line' = Bytes(mem, readIdx, n)
     /\ pc' = IF n = 0 THEN "transmit" ELSE "popTake"
  /\ UNCHANGED <<fifoVars, bootVars, seen, uartVars, history>>

(* bfifo_pop(&fifo, size, 0): the timeout is 0, it goes on either way. *)
PopTake ==
  /\ pc = "popTake"
  /\ readSem' = 0
  /\ pc' = "popLoad"
  /\ UNCHANGED <<mem, readIdx, writeIdx, writeSem, bootVars, seen, size, line, uartVars, history>>

PopLoad == Load("popLoad", "pop")

\* Mutant: everything is popped, not just what was read.
PopAll ==
  /\ pc = "pop"
  /\ readIdx' = Advance(readIdx, UsedNow)
  /\ popped' = popped + UsedNow
  /\ writeSem' = 1
  /\ pc' = "checkLoad"
  /\ UNCHANGED <<mem, writeIdx, readSem, bootVars, seen, size, line, uartVars, pushed, sent, full, late>>

Pop ==
  /\ pc = "pop"
  /\ LET n == Smaller(UsedNow, size) IN
     /\ readIdx' = Advance(readIdx, n)
     /\ popped' = popped + n
  /\ writeSem' = 1
  /\ pc' = "checkLoad"
  /\ UNCHANGED <<mem, writeIdx, readSem, bootVars, seen, size, line, uartVars, pushed, sent, full, late>>

CheckLoad == Load("checkLoad", "check")

\* Mutants: readSem is given back whatever is left, or not at all.
CheckAlways ==
  /\ pc = "check"
  /\ readSem' = 1
  /\ pc' = "transmit"
  /\ UNCHANGED <<mem, readIdx, writeIdx, writeSem, bootVars, seen, size, line, uartVars, history>>

CheckNever ==
  /\ pc = "check"
  /\ pc' = "transmit"
  /\ UNCHANGED <<fifoVars, bootVars, seen, size, line, uartVars, history>>

Check ==
  /\ pc = "check"
  /\ readSem' = IF UsedNow > 0 THEN 1 ELSE readSem
  /\ pc' = "transmit"
  /\ UNCHANGED <<mem, readIdx, writeIdx, writeSem, bootVars, seen, size, line, uartVars, history>>

(* HAL_UART_Transmit_DMA refuses a size of 0; its result is not looked at. *)
Transmit ==
  /\ pc = "transmit"
  /\ dma' = (dma \/ size > 0)
  /\ pc' = "waitFlag"
  /\ UNCHANGED <<fifoVars, bootVars, seen, size, line, flag, history>>

(* osEventFlagsWait clears the flag it waited for. *)
WaitFlag ==
  /\ pc = "waitFlag" /\ flag
  /\ flag' = FALSE
  /\ pc' = "waitTake"
  /\ UNCHANGED <<fifoVars, bootVars, seen, size, line, dma, history>>

(* The end of the transfer: serial_io_tx_cplt. *)
DmaDone ==
  /\ dma
  /\ dma' = FALSE
  /\ flag' = TRUE
  /\ sent' = sent \o line
  /\ UNCHANGED <<fifoVars, bootVars, threadVars, pushed, popped, full, late>>

-----------------------------------------------------------------------------
BootStep == BootTake \/ BootPut \/ BootGiveWrite \/ BootGiveRead \/ BootOpen
ThreadStep ==
  \/ WaitTake \/ WaitGive \/ ReadLoad \/ Read
  \/ PopTake \/ PopLoad \/ Pop \/ CheckLoad \/ Check
  \/ Transmit \/ WaitFlag

Next == IsrPush \/ BootStep \/ ThreadStep \/ DmaDone

(* Both tasks have the default priority and are time-sliced; a transfer ends. *)
Fairness == WF_vars(BootStep) /\ WF_vars(ThreadStep) /\ WF_vars(DmaDone)

Spec == Init /\ [][Next]_vars
FairSpec == Spec /\ Fairness

-----------------------------------------------------------------------------
(* Properties. *)

\* HAL_UART_Transmit_DMA refused the transfer whose end the thread waits for.
Stuck == pc = "waitFlag" /\ ~dma /\ ~flag

\* Type invariant: the FIFO, the tasks, the transfer.
TypeOK ==
  /\ mem \in [Indices -> Nat] /\ readIdx \in Indices /\ writeIdx \in Indices
  /\ readSem \in 0 .. 1 /\ writeSem \in 0 .. 1
  /\ bootPc \in {"print", "put", "giveWrite", "giveRead", "open"}
  /\ boots \in 0 .. Len(BootPushes)
  /\ pc \in {"waitTake", "waitGive", "readLoad", "read", "popTake", "popLoad",
             "pop", "checkLoad", "check", "transmit", "waitFlag"}
  /\ seen \in Indices /\ size \in 0 .. LineLen /\ line \in Seq(Nat)
  /\ dma \in BOOLEAN /\ flag \in BOOLEAN
  /\ pushed \in Nat /\ popped \in Nat /\ sent \in Seq(Nat)
  /\ full \in BOOLEAN /\ late \in BOOLEAN

\* The types hold, and bfifo_get_used is the number of bytes pushed and not popped
\* (blocking_fifo.h:43-48), short of whole turns of the ring: one that is filled to
\* the last byte reads as empty, and what is pushed on top counts from 0 again.
UsedIsCount == TypeOK /\ Used(readIdx, writeIdx, writeIdx) = (pushed - popped) % Size

\* The wire carries the pushed bytes in order, none stale, repeated or lost,
\* although the interrupt pushes between any two loads of the thread and the
\* line buffer is read by the DMA while the thread runs (serial_io.c:120-128),
\* until the ring is once filled to the last byte.
StreamIntact == full \/ \A i \in 1 .. Len(sent) : sent[i] = i

\* bfifo_wait_avail, which should wait for available data (blocking_fifo.h:86-90),
\* returns without any for two reasons only: the start-up task, overtaken by the
\* thread in its push, released readSem for bytes that were gone, or the ring was
\* filled. So it is with a thread that waits for the end of a transfer of nothing.
WaitReturnsData ==
  (pc = "readLoad" /\ Used(readIdx, writeIdx, writeIdx) = 0) \/ Stuck => late \/ full

\* No lost wake-up: the thread sleeps on readSem only while the ring reads as empty
\* or a push is about to release it.
AsleepMeansEmpty ==
  pc = "waitTake" /\ readSem = 0 =>
    \/ Used(readIdx, writeIdx, writeIdx) = 0
    \/ bootPc \in {"giveWrite", "giveRead"}

\* Every byte the ring took is sent, unless the ring is once filled or the thread
\* waits for a transfer that it never started, which WaitReturnsData explains.
AllSent == \A n \in 1 .. MaxBytes : (pushed >= n) ~> (Len(sent) >= n \/ Stuck \/ full)
=============================================================================
