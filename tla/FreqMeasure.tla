------------------------------ MODULE FreqMeasure ------------------------------
(***************************************************************************)
(* The software frequency measurement of the M4 core (freqmeasure.c): TIM1 *)
(* counts 10 us ticks from 0 to Period and latches its counter at every    *)
(* rising edge of the signal; the two TIM1 interrupts turn every second    *)
(* edge into a report. The HAL (external) handles a pending capture before *)
(* a pending overflow in either handler, and the overflow interrupt has    *)
(* the higher priority. Time is the timer's tick; the signal has one       *)
(* constant period and begins at any time.                                 *)
(***************************************************************************)
EXTENDS Integers

CONSTANTS
  Period,    \* htim1.Init.Period: the counter has Period + 1 values
  Periods,        \* the signal periods tried, in ticks
  Silence,   \* bound: ticks before the first edge
  Latency,   \* ticks an interrupt may be pending or running
  OvfMod,    \* number of values of overflow_count (uint8_t: 256)
  Word,      \* number of values of difference (uint32_t: 2^32)
  MaxStarts  \* bound: start commands

ASSUME FreqAssumption ==
  /\ Period \in Nat \ {0} /\ Latency \in Nat /\ Silence \in Nat \ {0}
  /\ Periods \subseteq Nat \ (0 .. Latency)
  /\ OvfMod \in Nat \ {0} /\ MaxStarts \in Nat
  /\ Word \in Nat /\ Word > Period  \* difference is wider than the counter

VARIABLES
  D, toEdge,               \* the signal: its period, ticks to the next edge
  running, cnt, ccr,       \* TIM1: enabled, counter, CCR2
  ccif, uif, late,         \* its flags; ticks since there is something to handle
  by, pc,                  \* the running handler and where it is
  overflow_count, last_captured_value, is_first_capture, difference,
  starts, reports, raced   \* history: start commands; reports since the last (up to
                           \* 2); reports that an overflow seen too late still affects

signal == <<D, toEdge>>
timer  == <<running, cnt, ccr>>
flags  == <<ccif, uif>>
measure == <<overflow_count, last_captured_value, is_first_capture, difference>>
history == <<starts, reports, raced>>
vars == <<signal, timer, flags, late, by, pc, measure, history>>

M == Period + 1

Init ==
  /\ D \in Periods /\ toEdge \in 1 .. Silence
  /\ running = FALSE /\ cnt = 0 /\ ccr = 0
  /\ ccif = FALSE /\ uif = FALSE /\ late = 0
  /\ by = "none" /\ pc = "idle"
  /\ overflow_count = 0 /\ last_captured_value = 0 /\ is_first_capture = 0 /\ difference = 0
  /\ starts = 0 /\ reports = 0 /\ raced = 0

Busy == pc # "idle" \/ (running /\ (ccif \/ uif))

(* One tick of the timer clock. An edge latches the counter. *)
Tick ==
  /\ Busy => late < Latency
  /\ late' = IF Busy THEN late + 1 ELSE 0
  /\ toEdge' = IF toEdge = 1 THEN D ELSE toEdge - 1
  /\ IF running
     THEN /\ cnt' = (cnt + 1) % M
          /\ uif' = (uif \/ cnt' = 0)
          /\ IF toEdge = 1 THEN ccr' = cnt' /\ ccif' = TRUE ELSE UNCHANGED <<ccr, ccif>>
     ELSE UNCHANGED <<cnt, ccr, flags>>
  /\ UNCHANGED <<D, running, by, pc, measure, history>>

-----------------------------------------------------------------------------
(* The commands of the CLI task: it runs when no interrupt waits to be handled. *)

(* capture_start. Initialising the timer clears its counter, and whether it *)
(* leaves an overflow pending depends on the HAL's version. What was        *)
(* measured before is left as it is.                                        *)
CaptureStart ==
  /\ starts < MaxStarts /\ ~Busy
  /\ running' = TRUE /\ cnt' = 0
  /\ uif' \in BOOLEAN
  /\ late' = 0 /\ starts' = starts + 1 /\ reports' = 0
  /\ UNCHANGED <<signal, ccr, ccif, by, pc, measure, raced>>

(* capture_stop. *)
CaptureStop ==
  /\ running /\ ~Busy /\ starts < MaxStarts
  /\ running' = FALSE
  /\ UNCHANGED <<signal, cnt, ccr, flags, late, by, pc, measure, history>>

-----------------------------------------------------------------------------
(* The interrupt handlers. *)

(* TIM1_UP_IRQHandler; it also preempts the capture handler that has not    *)
(* taken the flag yet, and then takes the capture itself.                   *)
UpEnter ==
  /\ running /\ uif
  /\ \/ pc = "idle"
     \/ by = "cc" /\ pc = "capture"
  /\ by' = "up"
  /\ pc' = IF ccif THEN "capture" ELSE "update"
  /\ UNCHANGED <<signal, timer, flags, late, measure, history>>

(* TIM1_CC_IRQHandler. *)
CcEnter ==
  /\ running /\ ccif /\ ~uif /\ pc = "idle"
  /\ by' = "cc" /\ pc' = "capture"
  /\ UNCHANGED <<signal, timer, flags, late, measure, history>>

(* HAL_TIM_IC_CaptureCallback, the first edge of a pair. *)
CaptureFirst ==
  /\ pc = "capture" /\ is_first_capture = 0
  /\ ccif' = FALSE
  /\ last_captured_value' = ccr
  /\ is_first_capture' = 1
  /\ pc' = "update"
  /\ UNCHANGED <<signal, timer, uif, late, by, overflow_count, difference, history>>

\* Mutant: an overflow is taken to lie outside the pair.
DifferenceNoOverflow(ovf, last, cap) == (cap - last) % Word

\* The ticks between the edges of a pair, as the callback computes them.
Difference(ovf, last, cap) ==
  IF ovf = 0 THEN (cap - last) % Word
  ELSE ((Period - last) + cap + (ovf - 2) * Period) % Word

(* The second edge, up to the report. *)
CaptureSecond ==
  /\ pc = "capture" /\ is_first_capture = 1
  /\ ccif' = FALSE
  /\ difference' = Difference(overflow_count, last_captured_value, ccr)
  /\ reports' = IF reports < 2 THEN reports + 1 ELSE 2
  /\ raced' = IF uif THEN 2 ELSE IF raced > 0 THEN raced - 1 ELSE 0
  /\ pc' = "reset"
  /\ UNCHANGED <<signal, timer, uif, late, by, overflow_count, last_captured_value,
                 is_first_capture, starts>>

\* Mutant: the counter runs on.
CaptureResetNoCounter ==
  /\ pc = "reset"
  /\ is_first_capture' = 0 /\ overflow_count' = 0
  /\ pc' = "update"
  /\ UNCHANGED <<signal, timer, flags, late, by, last_captured_value, difference, history>>

(* After the report is written to the link. *)
CaptureReset ==
  /\ pc = "reset"
  /\ cnt' = 0 /\ is_first_capture' = 0 /\ overflow_count' = 0
  /\ raced' = IF uif THEN 2 ELSE raced
  /\ pc' = "update"
  /\ UNCHANGED <<signal, running, ccr, flags, late, by, last_captured_value, difference,
                 starts, reports>>

(* The overflow interrupt inside the capture handler. *)
UpPreempt ==
  /\ by = "cc" /\ pc = "reset" /\ uif
  /\ uif' = FALSE
  /\ overflow_count' = (overflow_count + 1) % OvfMod
  /\ UNCHANGED <<signal, timer, ccif, late, by, pc, last_captured_value, is_first_capture,
                 difference, history>>

(* HAL_TIM_PeriodElapsedCallback, and the return of the handler. *)
Update ==
  /\ pc = "update"
  /\ uif' = FALSE
  /\ overflow_count' = IF uif THEN (overflow_count + 1) % OvfMod ELSE overflow_count
  /\ by' = "none" /\ pc' = "idle"
  /\ UNCHANGED <<signal, timer, ccif, late, last_captured_value, is_first_capture, difference,
                 history>>

HandlerStep ==
  \/ UpEnter \/ CcEnter \/ CaptureFirst \/ CaptureSecond \/ CaptureReset
  \/ UpPreempt \/ Update

Next == Tick \/ CaptureStart \/ CaptureStop \/ HandlerStep

(* The timer runs; an interrupt is taken within the latency, which the guard *)
(* of Tick states.                                                            *)
Spec == Init /\ [][Next]_vars /\ WF_vars(Tick) /\ WF_vars(HandlerStep)

-----------------------------------------------------------------------------
(* Properties. *)

\* Type invariant.
TypeOK ==
  /\ D \in Periods /\ toEdge \in 1 .. D \cup 1 .. Silence
  /\ running \in BOOLEAN /\ cnt \in 0 .. Period /\ ccr \in 0 .. Period
  /\ ccif \in BOOLEAN /\ uif \in BOOLEAN /\ late \in 0 .. Latency
  /\ by \in {"none", "cc", "up"} /\ pc \in {"idle", "capture", "reset", "update"}
  /\ overflow_count \in 0 .. OvfMod - 1 /\ last_captured_value \in 0 .. Period
  /\ is_first_capture \in 0 .. 1 /\ difference \in 0 .. Word - 1
  /\ starts \in 0 .. MaxStarts /\ reports \in 0 .. 2 /\ raced \in 0 .. 2

\* Above this frequency two edges and the delays fit in one turn of the counter.
Fast == 2 * D + 2 * Latency < M

\* The types hold, and every report of a fast signal but the first after a start is exact, although
\* the counter is cleared some ticks after the edge, overflows are counted while
\* there is no signal and the first edge does not clear them (freqmeasure.c:304-327).
FastIsExact == TypeOK /\ (Fast /\ reports = 2 => difference = D)

\* A period of one to two turns of the counter is measured at most two ticks short
\* (the "error between -1/-2" of freqmeasure.c:317), unless the counter overflowed
\* while the edge was being handled: that spoils this report and the next.
SlowIsClose ==
  M + Latency <= D /\ D + Latency < 2 * M /\ reports = 2 /\ raced = 0 => difference \in D - 2 .. D

\* Every report but the first after a start is at most two ticks off: the
\* correction for counted overflows has an "error between -1/-2" (freqmeasure.c:317).
WithinTwo == reports = 2 => difference \in D - 2 .. D + 2
=============================================================================
