------------------------------- MODULE TimerSync -------------------------------
(***************************************************************************)
(* The time-stamping timer of the M4 core (timersync.c). TIM2 counts one   *)
(* PTP second per turn; at every wrap the PTP clock latches its own time   *)
(* and a servo adjusts the length of the turn until the two agree. An edge *)
(* of the signal latches the counter; the one TIM2 interrupt serves the    *)
(* wrap first, then the edge: it scales the counter to a fraction of a     *)
(* second, reads the PTP clock, decides whose second it was, and derives   *)
(* the interval to the previous edge. A start is made by a task that the   *)
(* interrupt preempts: a timer that still runs meets a half cleared servo. *)
(*                                                                         *)
(* Time is counted in ticks of TIM2 (210 in 1000 ns) and moves from event  *)
(* to event. Channel 0 of the servo and one capture channel are modelled;  *)
(* the rate of the PTP clock does not change.                              *)
(***************************************************************************)
EXTENDS Integers, FiniteSetsExt

CONSTANTS
  L,          \* ticks of a PTP second
  Default,    \* TIMERSYNC_DEFAULT_ADDEND: period and ARR after a start
  Offs,       \* ticks by which a period computed from the PTP addend is too long
  Word,       \* what is read for ARR through a null pointer
  CntMod,     \* where the counter wraps if it is beyond ARR (2^32)
  Fine,       \* errors up to 2000 ns are trimmed, larger ones jumped
  Signals,    \* pairs: period of the signal, ticks to its first edge
  Latencies,  \* ticks from an event to its interrupt
  MaxStarts,  \* bound: start commands
  MaxHeld     \* bound: PTP seconds that begin while a start is held up

ASSUME TimerAssumption ==
  /\ L \in Nat \ {0} /\ Default \in Nat \ {0} /\ CntMod \in Nat /\ CntMod > 2 * L
  /\ Fine \in Nat /\ 200 <= Fine /\ 2 * Fine < L /\ Word \in Nat
  /\ MaxStarts \in Nat /\ MaxHeld \in Nat
  /\ Offs \subseteq Int /\ \A o \in Offs : 20 * o <= Fine /\ -20 * o <= Fine
  /\ Signals \subseteq (Nat \ {0}) \X (Nat \ {0})
  /\ Latencies \subseteq Nat \ {0} /\ \A n \in Latencies : 2 * n + Fine < L

VARIABLES
  D, toEdge,                \* the signal
  pos,                      \* the PTP clock: ticks since its second began
  mode, cnt, arr,           \* TIM2: stopped, waiting for the PPS, running
  uif, aux, ccif, cap,      \* its flags with what was latched: PTP time, counter
  toIsr,                    \* ticks until a raised flag is served
  boot, held,               \* how far timersync_start is; seconds that began meanwhile
  period, skipCycles, err_ns, \* ControllerState: what it keeps (the error in ticks)
  fault,                    \* a write through its null pTim stopped the core
  prevAge, prevNs,          \* timestampPrevCapture: seconds ago, fraction
  interval,                 \* the interval of the last edge, 0 if rejected
  edgeAt, delay, off, torn, \* history: the PTP time of the edge (ticks of its second);
                            \* when it was served, later; how far off its stamp is; the
                            \* clock's second was over before its fraction was read
  starts,                   \* history: start commands
  rated,                    \* history: the period stems from the PTP addend
  locked, jumps, clean      \* history: the servo trims such a period; jumps since the
                            \* start returned; edges (up to 2) since it trims after one

signal == <<D, toEdge>>
timer  == <<mode, cnt, arr>>
flags  == <<uif, aux, ccif, cap, toIsr>>
start  == <<boot, held>>
ctrl   == <<period, skipCycles, err_ns, fault>>
stamp  == <<prevAge, prevNs, interval>>
truth  == <<edgeAt, delay, off, torn>>
servo  == <<rated, locked, jumps>>
vars == <<signal, pos, timer, flags, start, ctrl, stamp, truth, starts, servo, clean>>

Old == 4  \* seconds that are as good as never: no interval reaches there

Init ==
  /\ \E s \in Signals : D = s[1] /\ toEdge = s[2]
  /\ pos = 0
  /\ mode = "off" /\ cnt = 0 /\ arr = Default
  /\ uif = FALSE /\ aux = 0 /\ ccif = FALSE /\ cap = 0 /\ toIsr = 0
  /\ boot = "idle" /\ held = 0
  /\ period = 0 /\ skipCycles = 0 /\ err_ns = 0 /\ fault = FALSE
  /\ prevAge = Old /\ prevNs = 0 /\ interval = 0
  /\ edgeAt = 0 /\ delay = 0 /\ off = 0 /\ torn = FALSE
  /\ starts = 0 /\ rated = FALSE /\ locked = FALSE /\ jumps = 0 /\ clean = 0

-----------------------------------------------------------------------------
(* The hardware. *)

Pending == uif \/ ccif
Running == mode = "on"

\* The counter is blocked while ARR is 0.
Counting == Running /\ arr > 0
ToWrap   == IF cnt <= arr + 1 THEN arr + 1 - cnt ELSE CntMod - cnt

Due == {toEdge, L - pos} \cup {n \in {ToWrap} : Counting} \cup {n \in {toIsr} : Pending}

(* Time moves to the next event, unless a start has been held up for MaxHeld. *)
Advance ==
  LET n == Min(Due) IN
  /\ n > 0
  /\ boot = "idle" \/ held < MaxHeld \/ Pending
  /\ toEdge' = toEdge - n
  /\ pos' = pos + n
  /\ cnt' = IF Counting THEN cnt + n ELSE cnt
  /\ toIsr' = IF Pending THEN toIsr - n ELSE toIsr
  /\ UNCHANGED <<D, mode, arr, uif, aux, ccif, cap, start, ctrl, stamp, truth, starts, servo, clean>>

\* A flag is raised; the interrupt is requested if it was not.
Raise == IF Pending THEN toIsr' = toIsr ELSE toIsr' \in Latencies

(* A new second of the PTP clock; the pulse starts a timer that waits for it, *)
(* from the count at which it was stopped.                                    *)
Roll ==
  /\ pos = L
  /\ pos' = 0
  /\ held' = IF boot = "idle" THEN 0 ELSE Min({held + 1, MaxHeld})
  /\ mode' = IF mode = "armed" THEN "on" ELSE mode
  /\ prevAge' = IF prevAge < Old THEN prevAge + 1 ELSE Old
  /\ UNCHANGED <<signal, cnt, arr, boot, flags, ctrl, prevNs, interval, truth, starts, servo, clean>>

(* The counter wraps; its trigger makes the PTP clock latch its time. *)
Wrap ==
  /\ Counting /\ pos < L /\ ToWrap = 0
  /\ cnt' = 0
  /\ uif' = TRUE /\ aux' = pos
  /\ Raise
  /\ UNCHANGED <<signal, pos, mode, arr, ccif, cap, start, ctrl, stamp, truth, starts, servo, clean>>

(* An edge of the signal. *)
Edge ==
  /\ toEdge = 0 /\ pos < L /\ (Counting => ToWrap > 0)
  /\ toEdge' = D
  /\ IF Running
     THEN ccif' = TRUE /\ cap' = cnt /\ edgeAt' = pos /\ Raise
     ELSE UNCHANGED <<ccif, cap, edgeAt, toIsr>>
  /\ UNCHANGED <<D, pos, timer, uif, aux, start, ctrl, stamp, delay, off, torn, starts, servo, clean>>

-----------------------------------------------------------------------------
(* timersync_run_ctrl: it first sets ARR to the period decided on last time, *)
(* through a pointer that is null while a start has only cleared the state.  *)

Null == boot = "cleared"

\* A write to address 0 + ARR does nothing to the timer, or is a fault.
SetAutoReload(n) ==
  /\ arr' = IF Null THEN arr ELSE n
  /\ fault' \in {FALSE, Null}

\* Mutant: a wrap ahead of the PTP second counts as nearly a second late.
ErrorUnfolded(t) == t

\* Ticks by which the wrap came after (before, if negative) the PTP second.
Error(t) == IF t > L \div 2 THEN t - L ELSE t

Near(n) == n >= -Fine /\ n <= Fine

Skip ==
  /\ skipCycles > 0
  /\ SetAutoReload(period)
  /\ skipCycles' = skipCycles - 1
  /\ UNCHANGED <<period, err_ns, servo>>

\* Mutant: the jump has the wrong direction.
JumpPeriodTo(n, e) == {n + e}

\* The length of the one turn that makes up for the error. The cast cuts a fraction.
JumpPeriod(n, e) == {n - e, n - e - 1}

(* One turn of another length, then turns of the PTP clock's second, which    *)
(* the code computes from its addend.                                         *)
Jump ==
  LET e == Error(aux) IN
  /\ skipCycles = 0 /\ ~Near(e)
  /\ \E o \in Offs : period' = L - 1 + o
  /\ \E n \in JumpPeriod(period', e) : SetAutoReload(n)
  /\ skipCycles' = 1
  /\ err_ns' = 0
  /\ rated' = TRUE /\ locked' = FALSE
  /\ jumps' = IF boot = "idle" /\ jumps < 2 THEN jumps + 1 ELSE jumps

\* Mutant: the differential part has the wrong sign.
CorrectionAgainst(e, old) ==
  LET n == 2 * e - 3 * (e - old)
  IN  {IF n >= 0 THEN n \div 21 ELSE -((-n) \div 21)}

\* Kp * err + Kd * diff for errors in ns, cut to an integer. The sum of the
\* doubles may fall just short of a whole number.
Correction(e, old) ==
  LET n == 2 * e + 3 * (e - old)
      m == IF n >= 0 THEN n ELSE -n
      cut == {m \div 21} \cup {k \in {m \div 21 - 1} : k >= 0 /\ m % 21 = 0}
  IN  {IF n >= 0 THEN k ELSE -k : k \in cut}

Trim ==
  LET e  == Error(aux)
      at == IF Null THEN Word ELSE period
  IN
  /\ skipCycles = 0 /\ Near(e)
  /\ err_ns' = e
  /\ \E c \in Correction(e, err_ns) : period' = IF at - c < 0 THEN 0 ELSE at - c
  /\ SetAutoReload(period')
  /\ locked' = (rated /\ boot = "idle")
  /\ UNCHANGED <<skipCycles, rated, jumps>>

Update ==
  IF uif THEN Skip \/ Jump \/ Trim
  ELSE UNCHANGED <<arr, ctrl, servo>>

-----------------------------------------------------------------------------
(* timersync_process_capture. *)

\* CAP_TO_NS: the fraction of a second, with the period that is set by now. The cast
\* stops at 2^32 ns.
Fraction(n, period_) ==
  IF 100 * n > 429 * (period_ + 1) THEN (429 * L) \div 100 ELSE (n * L) \div (period_ + 1)

\* ETHHW_GetTime reads the second, then its fraction: a second that ends in between
\* goes with the fraction of the next.
Fractions == {pos} \cup {n \in {0} : pos = L}

\* Mutant: the second of the PTP clock, always.
SecondsAgoNow(ns, ptp_ns) == 0

\* The second it belongs to, against the PTP clock's: this one or the one before.
SecondsAgo(ns, ptp_ns) == IF ptp_ns > ns THEN 0 ELSE 1

\* Mutant: no upper limit.
AcceptedAny(dt) == 2 * dt >= L

\* compute_dt: half a second to one and a half.
Accepted(dt) == 2 * dt >= L /\ 2 * dt <= 3 * L

Capture(ptp_ns) ==
  LET ns  == Fraction(cap, arr')
      ago == SecondsAgo(ns, ptp_ns)
      dt  == (prevAge - ago) * L + ns - prevNs
  IN
  IF ccif
  THEN /\ interval' = IF prevAge < Old /\ Accepted(dt) THEN dt ELSE 0
       /\ prevAge' = ago /\ prevNs' = ns
       /\ delay' = (pos - edgeAt) % L
       /\ off' = ((IF edgeAt > pos THEN 1 ELSE 0) - ago) * L + ns - edgeAt
       /\ torn' = (ptp_ns # pos)
       /\ clean' = IF locked' /\ locked /\ jumps > 0 THEN (IF clean < 2 THEN clean + 1 ELSE 2) ELSE 0
  ELSE UNCHANGED <<stamp, delay, off, torn>> /\ clean' = IF locked' THEN clean ELSE 0

(* TIM2_IRQHandler. *)
Isr ==
  /\ Pending /\ toIsr = 0
  /\ (Counting => ToWrap > 0) /\ toEdge > 0
  /\ Update
  /\ \E ptp_ns \in Fractions : Capture(ptp_ns)
  /\ uif' = FALSE /\ aux' = 0 /\ ccif' = FALSE /\ cap' = 0 /\ edgeAt' = 0
  /\ UNCHANGED <<signal, pos, mode, cnt, toIsr, start, starts>>

-----------------------------------------------------------------------------
(* The commands of the CLI task, which runs when no interrupt is pending. *)

(* timersync_start clears the servo. The timer may be running and goes on. *)
Clear ==
  /\ boot = "idle" /\ starts < MaxStarts /\ ~Pending
  /\ boot' = "cleared"
  /\ period' = 0 /\ skipCycles' = 0 /\ err_ns' = 0
  /\ starts' = starts + 1
  /\ rated' = FALSE /\ locked' = FALSE /\ jumps' = 0 /\ clean' = 0
  /\ UNCHANGED <<held, signal, pos, timer, flags, fault, stamp, truth>>

(* pTim = TIM2 *)
Point ==
  /\ boot = "cleared" /\ ~Pending
  /\ boot' = "pointed"
  /\ UNCHANGED <<held, signal, pos, timer, flags, ctrl, stamp, truth, starts, servo, clean>>

(* period = TIMERSYNC_DEFAULT_ADDEND *)
Rate ==
  /\ boot = "pointed" /\ ~Pending
  /\ boot' = "rated"
  /\ period' = Default
  /\ rated' = FALSE
  /\ UNCHANGED <<held, signal, pos, timer, flags, skipCycles, err_ns, fault, stamp, truth,
                 starts, locked, jumps, clean>>

(* The set-up of the timer sets ARR over what the servo may have set, and arms *)
(* the trigger. The counter is not cleared, nor is it stopped.                 *)
Arm ==
  /\ boot = "rated" /\ ~Pending
  /\ boot' = "idle" /\ held' = 0
  /\ mode' = IF Running THEN mode ELSE "armed"
  /\ arr' = Default
  /\ UNCHANGED <<signal, pos, cnt, flags, ctrl, stamp, truth, starts, servo, clean>>

StartOn == Point \/ Rate \/ Arm

(* timersync_stop. *)
Stop ==
  /\ boot = "idle" /\ mode # "off" /\ ~Pending /\ starts < MaxStarts
  /\ mode' = "off"
  /\ locked' = FALSE /\ clean' = 0
  /\ UNCHANGED <<signal, pos, cnt, arr, flags, start, ctrl, stamp, truth, starts, rated, jumps>>

Clock == ~fault /\ (Advance \/ Roll \/ Wrap \/ Edge \/ Isr)

Task == ~fault /\ (Clear \/ StartOn \/ Stop)

Next == Clock \/ Task

(* Time passes and interrupts are served. Nobody has to type a command, but a *)
(* start that has begun goes on in the time the interrupts leave.             *)
Spec == Init /\ [][Next]_vars /\ WF_vars(Clock) /\ WF_vars(~fault /\ StartOn)

-----------------------------------------------------------------------------
(* Properties. *)

\* Type invariant.
TypeOK ==
  /\ toEdge \in Nat /\ pos \in 0 .. L
  /\ mode \in {"off", "armed", "on"} /\ cnt \in Nat /\ arr \in Nat
  /\ uif \in BOOLEAN /\ ccif \in BOOLEAN /\ aux \in 0 .. L - 1 /\ cap \in Nat
  /\ boot \in {"idle", "cleared", "pointed", "rated"} /\ held \in 0 .. MaxHeld
  /\ fault \in BOOLEAN
  /\ period \in Nat /\ skipCycles \in 0 .. 1
  /\ err_ns \in -Fine .. Fine
  /\ prevAge \in 0 .. Old /\ prevNs \in Nat /\ interval \in 0 .. 2 * L
  /\ torn \in BOOLEAN /\ rated \in BOOLEAN
  /\ locked \in BOOLEAN /\ jumps \in 0 .. 2 /\ clean \in 0 .. 2

\* The types hold, and while the servo trims, an interval that is reported is the signal's, up to what the
\* two errors of the timer allow: an edge put into the wrong second, by a timer ahead of
\* the clock, an interrupt that comes early or after the clock's new second, or a reading
\* of the clock that a new second tears, never makes an interval that is accepted
\* (timersync.c:29-51, 360-372; mac_drv.c:188-192).
AcceptedIsTrue ==
  /\ TypeOK
  /\ clean = 2 /\ interval # 0 => interval - D >= -2 * Fine /\ interval - D <= 2 * Fine

\* While the servo trims, an edge served later than the servo's tolerance is stamped
\* with its own second, or with the one before if a new second tore the reading of the
\* clock. (Served earlier, by a timer ahead of the clock, it gets the second before: the
\* comparison in timersync.c:365 finds the clock behind the capture.)
StampIsRight ==
  clean > 0 /\ delay > Fine =>
    LET o == IF torn THEN off + L ELSE off IN o >= -Fine /\ o <= Fine

\* Once a start has returned, one jump is enough: the turn after it has the right phase,
\* whatever the count the timer was stopped at, the default period, and what an interrupt
\* that came in the middle of the start has left in the servo. (A jump made there is undone
\* by the start's last step, and the one is still to come: timersync.c:264-274, 301-311.)
JumpsOnce == jumps <= 1

\* Once the servo has jumped since the start returned, trimming never swings so far that it
\* jumps again, with a period off the clock's rate and sums cut to integers
\* (timersync.c:277-287).
StaysLocked == [][locked /\ jumps > 0 /\ ~locked' => mode' = "off" \/ starts' # starts]_vars

\* A timer that runs is in the end locked to the PTP clock, with a period computed from
\* the clock's rate: a start that finds the timer in phase by chance trims the default
\* period first, and jumps when that has run out of the tolerance.
Locks == Running ~> (locked \/ ~Running \/ fault)
=============================================================================
