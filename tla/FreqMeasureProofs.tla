-------------------------- MODULE FreqMeasureProofs --------------------------
(***************************************************************************)
(* Proofs about FreqMeasure for any timer period, any signal, any latency  *)
(* below the signal's period and any commands: a fast signal is measured   *)
(* exactly. The argument follows the counter from the report that clears   *)
(* it over the two edges of the next pair, all before it can overflow.     *)
(***************************************************************************)
EXTENDS FreqMeasure, TLAPS

\* Ticks since the last edge.
Since == D - toEdge

\* A stopped timer has nothing to handle: it is stopped when nothing waits.
StoppedIsIdle == ~running => pc = "idle" /\ ~ccif /\ ~uif

\* An edge is captured before the next one comes.
EdgeIsHandled ==
  /\ pc = "capture" => ccif
  /\ pc = "reset" => ~ccif /\ is_first_capture = 1
  /\ ccif \/ pc = "reset" => toEdge <= D /\ Since <= late

EdgeSeen == is_first_capture = 1 \/ reports > 0 => toEdge <= D

\* Between the pairs, and with one or two edges of a pair gone, the counter has run
\* since the report, and only an overflow from before it may still be counted.
PairInOneTurn ==
  Fast /\ running /\ reports > 0 /\ pc # "reset" =>
    /\ overflow_count <= 1 /\ (uif => overflow_count = 0)
    /\ is_first_capture = 0 /\ ~ccif => cnt <= Since
    /\ is_first_capture = 0 /\ ccif  => cnt = ccr + Since /\ ccr <= D
    /\ is_first_capture = 1 =>
         /\ cnt = (IF ccif THEN ccr ELSE last_captured_value) + Since
         /\ last_captured_value <= D
         /\ ccif => ccr = last_captured_value + D

Exact == Fast /\ reports = 2 => difference = D

FreqInv ==
  TypeOK /\ StoppedIsIdle /\ EdgeIsHandled /\ EdgeSeen /\ PairInOneTurn /\ Exact

-----------------------------------------------------------------------------
(* Arithmetic. *)

LEMMA ModRange ==
  ASSUME NEW x \in Int, NEW w \in Nat \ {0}
  PROVE  x % w \in 0 .. w - 1
OBVIOUS

LEMMA ModSmall ==
  ASSUME NEW w \in Nat \ {0}, NEW x \in 0 .. w - 1
  PROVE  x % w = x
OBVIOUS

LEMMA Product ==
  ASSUME NEW x \in Int, NEW y \in Int
  PROVE  x * y \in Int
OBVIOUS

LEMMA DifferenceRange ==
  ASSUME NEW ovf \in Nat, NEW last \in 0 .. Period, NEW cap \in 0 .. Period
  PROVE  Difference(ovf, last, cap) \in 0 .. Word - 1
<1> USE FreqAssumption
<1>1. (ovf - 2) * Period \in Int
  BY Product
<1>2. (Period - last) + cap + (ovf - 2) * Period \in Int /\ cap - last \in Int
  BY <1>1
<1>3. Word \in Nat \ {0}
  OBVIOUS
<1> QED BY <1>2, <1>3, ModRange DEF Difference

\* With no overflow counted, or one from before the pair, the difference is right.
LEMMA DifferenceExact ==
  ASSUME NEW ovf \in 0 .. 1, NEW last \in 0 .. Period, NEW cap \in 0 .. Period, last <= cap
  PROVE  Difference(ovf, last, cap) = cap - last
<1> USE FreqAssumption
<1>1. Word \in Nat \ {0} /\ cap - last \in 0 .. Word - 1
  OBVIOUS
<1>2. (cap - last) % Word = cap - last
  BY <1>1, ModSmall
<1>3. CASE ovf = 0
  BY <1>2, <1>3 DEF Difference
<1>4. CASE ovf = 1
  <2>1. (Period - last) + cap + (ovf - 2) * Period = cap - last
    BY <1>4
  <2> QED BY <2>1, <1>2, <1>4 DEF Difference
<1> QED BY <1>3, <1>4

LEMMA Counting ==
  ASSUME NEW c \in 0 .. Period
  PROVE  /\ (c + 1) % M \in 0 .. Period
         /\ c < Period => (c + 1) % M = c + 1
         /\ c = Period => (c + 1) % M = 0
<1>1. CASE c < Period
  <2>1. M \in Nat \ {0} /\ c + 1 \in 0 .. M - 1
    BY <1>1, FreqAssumption DEF M
  <2>2. (c + 1) % M = c + 1
    BY <2>1, ModSmall
  <2> QED BY <2>2, <1>1, FreqAssumption
<1>2. CASE c = Period
  <2>1. M \in Nat \ {0} /\ c + 1 = M
    BY <1>2, FreqAssumption DEF M
  <2>2. M % M = 0
    BY <2>1
  <2>3. (c + 1) % M = 0
    BY <2>1, <2>2
  <2> QED BY <2>3, <1>2, FreqAssumption
<1> QED BY <1>1, <1>2, FreqAssumption

LEMMA OverflowCount ==
  ASSUME NEW n \in 0 .. OvfMod - 1
  PROVE  (n + 1) % OvfMod \in 0 .. OvfMod - 1 /\ (n = 0 => (n + 1) % OvfMod <= 1)
<1> USE FreqAssumption
<1>1. (n + 1) % OvfMod \in 0 .. OvfMod - 1
  BY ModRange
<1>2. CASE OvfMod = 1
  BY <1>1, <1>2
<1>3. CASE OvfMod # 1
  <2>1. n = 0 => n + 1 \in 0 .. OvfMod - 1
    BY <1>3
  <2> QED BY <2>1, <1>1, ModSmall
<1> QED BY <1>2, <1>3

-----------------------------------------------------------------------------
LEMMA FreqInitially == Init => FreqInv
<1> SUFFICES ASSUME Init
             PROVE  FreqInv
  OBVIOUS
<1>1. TypeOK
  <2>1. 0 \in 0 .. OvfMod - 1 /\ 0 \in 0 .. Word - 1 /\ 0 \in 0 .. Period
        /\ 0 \in 0 .. Latency /\ 0 \in 0 .. MaxStarts
    BY FreqAssumption
  <2>2. running \in BOOLEAN /\ ccif \in BOOLEAN /\ uif \in BOOLEAN
    BY DEF Init
  <2> QED BY <2>1, <2>2 DEF Init, TypeOK
<1>2. StoppedIsIdle /\ EdgeIsHandled /\ EdgeSeen /\ PairInOneTurn /\ Exact
  BY DEF Init, StoppedIsIdle, EdgeIsHandled, EdgeSeen, PairInOneTurn, Exact
<1> QED BY <1>1, <1>2 DEF FreqInv

LEMMA TickKeeps == FreqInv /\ Tick => FreqInv'
<1> SUFFICES ASSUME FreqInv, Tick
             PROVE  FreqInv'
  OBVIOUS
<1> USE FreqAssumption DEF FreqInv
<1>1. UNCHANGED <<D, running, by, pc, measure, history>>
  BY DEF Tick
<1>2. /\ D \in Nat /\ D > Latency /\ toEdge \in Nat /\ toEdge >= 1 /\ late \in 0 .. Latency
      /\ cnt \in 0 .. Period /\ ccr \in 0 .. Period
  BY DEF TypeOK
<1>3. /\ toEdge' \in 1 .. D \cup 1 .. Silence
      /\ toEdge' = IF toEdge = 1 THEN D ELSE toEdge - 1
  BY <1>2 DEF Tick, TypeOK
<1>4. late' \in 0 .. Latency /\ (Busy => late < Latency /\ late' = late + 1)
  BY <1>2 DEF Tick
<1>5. ASSUME running
      PROVE  /\ cnt' \in 0 .. Period /\ (cnt < Period => cnt' = cnt + 1)
             /\ uif' = (uif \/ cnt' = 0)
             /\ toEdge = 1 => ccr' = cnt' /\ ccif'
             /\ toEdge # 1 => ccr' = ccr /\ ccif' = ccif
  BY <1>5, <1>2, Counting DEF Tick
<1>6. ~running => UNCHANGED <<cnt, ccr, ccif, uif>>
  BY DEF Tick, flags
<1>7. TypeOK'
  <2>1. cnt' \in 0 .. Period /\ ccr' \in 0 .. Period
    BY <1>2, <1>5, <1>6
  <2>2. ccif' \in BOOLEAN /\ uif' \in BOOLEAN
    BY <1>5, <1>6, Zenon DEF TypeOK
  <2>3. (difference \in 0 .. Word - 1)' /\ (overflow_count \in 0 .. OvfMod - 1)'
    BY <1>1 DEF TypeOK, measure
  <2> QED BY <1>1, <1>3, <1>4, <2>1, <2>2, <2>3 DEF TypeOK, measure, history
<1>8. StoppedIsIdle'
  BY <1>1, <1>6 DEF StoppedIsIdle
<1>9. ASSUME ccif \/ pc = "reset"
      PROVE  toEdge # 1 /\ toEdge <= D /\ Since' = Since + 1 /\ Since' <= late'
             /\ Since + 1 <= Latency
  <2>1. Busy
    BY <1>9, Zenon DEF Busy, StoppedIsIdle
  <2> QED BY <2>1, <1>1, <1>2, <1>3, <1>4, <1>9 DEF EdgeIsHandled, Since
<1>10. EdgeIsHandled'
  <2>1. CASE ccif \/ pc = "reset"
    BY <2>1, <1>1, <1>3, <1>2, <1>5, <1>6, <1>9 DEF EdgeIsHandled, measure
  <2>2. CASE ~ccif /\ pc # "reset"
    BY <2>2, <1>1, <1>2, <1>3, <1>4, <1>5, <1>6 DEF EdgeIsHandled, Since
  <2> QED BY <2>1, <2>2
<1>11. EdgeSeen'
  BY <1>1, <1>2, <1>3 DEF EdgeSeen, measure, history
<1>12. PairInOneTurn'
  <2> SUFFICES ASSUME Fast, running, reports > 0, pc # "reset"
               PROVE  PairInOneTurn'
    BY <1>1 DEF PairInOneTurn, Fast, history
  <2>1. toEdge <= D /\ 2 * D + 2 * Latency < M
    BY DEF EdgeSeen, Fast
  <2>2. overflow_count \in Nat /\ overflow_count <= 1 /\ (uif => overflow_count = 0)
    BY DEF PairInOneTurn, TypeOK
  <2>3. /\ is_first_capture \in 0 .. 1 /\ last_captured_value \in 0 .. Period
        /\ UNCHANGED <<is_first_capture, last_captured_value, overflow_count>>
    BY <1>1 DEF TypeOK, measure
  <2>4. cnt + 1 <= 2 * D + Latency
    <3>1. CASE ccif
      BY <3>1, <1>2, <1>9, <2>1, <2>3 DEF PairInOneTurn, Since, EdgeIsHandled
    <3>2. CASE ~ccif
      BY <3>2, <1>2, <2>1, <2>3 DEF PairInOneTurn, Since
    <3> QED BY <3>1, <3>2
  <2>5. cnt' = cnt + 1
    BY <2>1, <2>4, <1>2, <1>5 DEF M
  <2>6. uif' = uif
    BY <2>5, <1>2, <1>5 DEF TypeOK
  <2>7. CASE ccif
    BY <2>1, <2>2, <2>3, <2>5, <2>6, <2>7, <1>1, <1>2, <1>3, <1>5, <1>9 DEF PairInOneTurn, Since
  <2>8. CASE ~ccif /\ toEdge # 1
    BY <2>1, <2>2, <2>3, <2>5, <2>6, <2>8, <1>1, <1>2, <1>3, <1>5 DEF PairInOneTurn, Since
  <2>9. CASE ~ccif /\ toEdge = 1
    BY <2>1, <2>2, <2>3, <2>5, <2>6, <2>9, <1>1, <1>2, <1>3, <1>5 DEF PairInOneTurn, Since
  <2> QED BY <2>7, <2>8, <2>9
<1>13. Exact'
  BY <1>1 DEF Exact, Fast, measure, history
<1> QED BY <1>7, <1>8, <1>10, <1>11, <1>12, <1>13

LEMMA CommandsKeep == FreqInv /\ (CaptureStart \/ CaptureStop) => FreqInv'
<1> SUFFICES ASSUME FreqInv, CaptureStart \/ CaptureStop
             PROVE  FreqInv'
  OBVIOUS
<1> USE FreqAssumption DEF FreqInv, StoppedIsIdle, EdgeIsHandled, EdgeSeen, PairInOneTurn, Exact
<1>1. pc = "idle" /\ ~ccif /\ UNCHANGED <<signal, ccr, ccif, by, pc, measure, raced>>
  BY Zenon DEF CaptureStart, CaptureStop, Busy, timer, flags, history
<1>2. CASE CaptureStart
  <2>1. /\ running' = TRUE /\ cnt' = 0 /\ uif' \in BOOLEAN /\ late' = 0
        /\ starts' = starts + 1 /\ starts < MaxStarts /\ reports' = 0
    BY <1>2 DEF CaptureStart
  <2>2. TypeOK'
    BY <1>1, <2>1 DEF TypeOK, signal, measure
  <2> QED BY <1>1, <2>1, <2>2 DEF measure, signal, TypeOK
<1>3. CASE CaptureStop
  <2>1. running' = FALSE /\ ~uif /\ UNCHANGED <<cnt, ccr, ccif, uif, late, starts, reports, raced>>
    BY <1>3, Zenon DEF CaptureStop, Busy, flags, history
  <2>2. TypeOK'
    BY <1>1, <2>1 DEF TypeOK, signal, measure
  <2> QED BY <1>1, <2>1, <2>2 DEF measure, signal, Since, Fast
<1> QED BY <1>2, <1>3

LEMMA HandlerKeeps == FreqInv /\ HandlerStep => FreqInv'
<1> SUFFICES ASSUME FreqInv, HandlerStep
             PROVE  FreqInv'
  OBVIOUS
<1> USE FreqAssumption DEF FreqInv, StoppedIsIdle, EdgeIsHandled, EdgeSeen, PairInOneTurn, Exact, Since, Fast
<1>1. CASE UpEnter \/ CcEnter
  <2>1. /\ running /\ by' \in {"up", "cc"} /\ pc' \in {"capture", "update"} /\ (pc' = "capture" => ccif)
        /\ pc # "reset"
        /\ UNCHANGED <<signal, timer, flags, late, measure, history>>
    BY <1>1 DEF UpEnter, CcEnter
  <2>2. UNCHANGED <<D, toEdge, running, cnt, ccr, ccif, uif, overflow_count, last_captured_value,
                    is_first_capture, difference, starts, reports, raced>>
    BY <2>1 DEF signal, timer, flags, measure, history
  <2>3. TypeOK'
    BY <2>1, <2>2 DEF TypeOK
  <2> QED BY <2>1, <2>2, <2>3
<1>2. CASE CaptureFirst
  <2>0. ccif /\ running /\ pc = "capture" /\ is_first_capture = 0
    BY <1>2 DEF CaptureFirst
  <2>1. /\ pc' = "update" /\ ccif' = FALSE /\ last_captured_value' = ccr /\ is_first_capture' = 1
        /\ UNCHANGED <<D, toEdge, running, cnt, ccr, uif, late, by, overflow_count, difference,
                       starts, reports, raced>>
    BY <1>2 DEF CaptureFirst, signal, timer, history
  <2>2. TypeOK'
    <3>1. ccif' \in BOOLEAN
      BY <2>1, Zenon
    <3>2. pc' \in {"idle", "capture", "reset", "update"} /\ is_first_capture' \in 0 .. 1
      BY <2>1
    <3>3. last_captured_value' \in 0 .. Period
      BY <2>1 DEF TypeOK
    <3> QED BY <2>1, <3>1, <3>2, <3>3 DEF TypeOK
  <2> QED BY <2>0, <2>1, <2>2
<1>3. CASE CaptureSecond
  <2>0. ccif /\ running /\ pc = "capture" /\ is_first_capture = 1
    BY <1>3 DEF CaptureSecond
  <2>1. /\ ccif' = FALSE /\ pc' = "reset"
        /\ difference' = Difference(overflow_count, last_captured_value, ccr)
        /\ reports' = IF reports < 2 THEN reports + 1 ELSE 2
        /\ UNCHANGED <<D, toEdge, running, cnt, ccr, uif, late, by, overflow_count,
                       last_captured_value, is_first_capture, starts>>
    BY <1>3 DEF CaptureSecond, signal, timer
  <2>2. raced' \in 0 .. 2
    BY <1>3 DEF CaptureSecond, TypeOK
  <2>3. difference' \in 0 .. Word - 1
    BY <2>1, DifferenceRange DEF TypeOK
  <2>4. TypeOK'
    <3>1. TypeOK /\ ccif' \in BOOLEAN /\ pc' \in {"idle", "capture", "reset", "update"}
      BY <2>1
    <3>2. reports' \in 0 .. 2
      BY <2>1 DEF TypeOK
    <3> QED BY <2>1, <2>2, <2>3, <3>1, <3>2 DEF TypeOK
  <2>5. ASSUME Fast, reports > 0 PROVE difference' = D
    <3>1. /\ overflow_count \in 0 .. 1 /\ ccr = last_captured_value + D /\ D \in Nat
          /\ ccr \in 0 .. Period /\ last_captured_value \in 0 .. Period
      BY <2>0, <2>5 DEF TypeOK
    <3> QED BY <3>1, <2>1, DifferenceExact
  <2>6. reports \in 0 .. 2
    BY DEF TypeOK
  <2> QED BY <2>0, <2>1, <2>4, <2>5, <2>6
<1>4. CASE CaptureReset
  <2>1. /\ pc = "reset" /\ pc' = "update" /\ running
        /\ cnt' = 0 /\ is_first_capture' = 0 /\ overflow_count' = 0
        /\ UNCHANGED <<D, toEdge, running, ccr, ccif, uif, late, by, last_captured_value, difference,
                       starts, reports>>
    BY <1>4 DEF CaptureReset, signal, flags
  <2>2. raced' \in 0 .. 2
    BY <1>4 DEF CaptureReset, TypeOK
  <2>3. TypeOK'
    BY <2>1, <2>2 DEF TypeOK
  <2>4. D \in Nat /\ toEdge \in Nat
    BY DEF TypeOK
  <2> QED BY <2>1, <2>3, <2>4
<1>5. CASE UpPreempt
  <2>1. /\ pc = "reset" /\ uif' = FALSE /\ overflow_count' = (overflow_count + 1) % OvfMod
        /\ UNCHANGED <<D, toEdge, running, cnt, ccr, ccif, late, by, pc, last_captured_value,
                       is_first_capture, difference, starts, reports, raced>>
    BY <1>5 DEF UpPreempt, signal, timer, history
  <2>2. TypeOK'
    BY <2>1, OverflowCount DEF TypeOK
  <2> QED BY <2>1, <2>2
<1>6. CASE Update
  <2>1. /\ pc = "update" /\ pc' = "idle" /\ uif' = FALSE /\ by' = "none"
        /\ overflow_count' = IF uif THEN (overflow_count + 1) % OvfMod ELSE overflow_count
        /\ UNCHANGED <<D, toEdge, running, cnt, ccr, ccif, late, last_captured_value,
                       is_first_capture, difference, starts, reports, raced>>
    BY <1>6 DEF Update, signal, timer, history
  <2>2. TypeOK'
    BY <2>1, OverflowCount DEF TypeOK
  <2>3. overflow_count \in 0 .. OvfMod - 1
    BY DEF TypeOK
  <2> QED BY <2>1, <2>2, <2>3, OverflowCount
<1> QED BY <1>1, <1>2, <1>3, <1>4, <1>5, <1>6 DEF HandlerStep

LEMMA FreqIdle == FreqInv /\ UNCHANGED vars => FreqInv'
<1> SUFFICES ASSUME FreqInv, UNCHANGED vars
             PROVE  FreqInv'
  OBVIOUS
<1>1. UNCHANGED <<D, toEdge, running, cnt, ccr, ccif, uif, late, by, pc, overflow_count,
                  last_captured_value, is_first_capture, difference, starts, reports, raced>>
  BY DEF vars, signal, timer, flags, measure, history
<1>2. TypeOK'
  BY <1>1 DEF FreqInv, TypeOK
<1> QED BY <1>1, <1>2 DEF FreqInv, StoppedIsIdle, EdgeIsHandled, EdgeSeen, PairInOneTurn, Exact, Since, Fast

\* A signal with two periods and the delays in one turn of the counter is measured
\* exactly from the second report after a start on, whatever the command line and the
\* interrupts do (freqmeasure.c:304-327).
THEOREM FastExact == Spec => []FastIsExact
<1>1. FreqInv /\ [Next]_vars => FreqInv'
  BY TickKeeps, CommandsKeep, HandlerKeeps, FreqIdle DEF Next
<1>2. FreqInv => FastIsExact
  BY DEF FreqInv, Exact, FastIsExact
<1> QED BY FreqInitially, <1>1, <1>2, PTL DEF Spec

-----------------------------------------------------------------------------
(* A slow signal: the counter overflows once or twice between two edges. The overflows
   counted and the one pending, with the counter, are the time since the report cleared
   it, and no overflow is lost: the next is more than the latency away. *)

Slow == M + Latency <= D /\ D + Latency < 2 * M

OverflowIsRecent == running /\ uif => cnt <= late

\* A handler past its capture was entered for an overflow, or right after an edge.
UpdateIsDue == pc = "update" => uif \/ (~ccif /\ toEdge <= D /\ Since <= late)

\* Turns of the counter since the report, and their ticks.
Turns    == overflow_count + (IF uif THEN 1 ELSE 0)
Ticks(n) == IF n = 0 THEN 0 ELSE IF n = 1 THEN M ELSE IF n = 2 THEN 2 * M ELSE 3 * M

\* The time since the last edge before the pair, and how far the counter is behind it.
Elapsed == Since + (IF is_first_capture = 1 THEN D ELSE 0) + (IF ccif THEN D ELSE 0)
Behind  == Elapsed - cnt - Ticks(Turns)

\* Unless an overflow was pending when the counter was cleared, the counter is behind
\* by the handling of that report, and the first edge came in its second turn.
PairInTurns ==
  Slow /\ running /\ reports > 0 /\ pc # "reset" /\ raced <= 1 =>
    /\ Turns \in 0 .. 3 /\ Behind \in 0 .. Latency
    /\ is_first_capture = 0 /\ ccif => ccr = D - Behind - M
    /\ is_first_capture = 1 => last_captured_value = D - Behind - M
    /\ is_first_capture = 1 /\ ccif /\ (~uif \/ pc = "update") => cnt = ccr + Since

Close == Slow /\ reports = 2 /\ raced = 0 => difference \in D - 2 .. D

SlowInv == FreqInv /\ OverflowIsRecent /\ UpdateIsDue /\ PairInTurns /\ Close

LEMMA SecondTurn ==
  ASSUME NEW c \in 0 .. Period, NEW n \in 0 .. 3, NEW t \in Int, c + Ticks(n) = t, M <= t, t < 2 * M
  PROVE  n = 1 /\ c = t - M
BY FreqAssumption DEF Ticks, M

LEMMA SlowTick == SlowInv /\ Tick => OverflowIsRecent' /\ UpdateIsDue' /\ PairInTurns' /\ Close'
<1> SUFFICES ASSUME SlowInv, Tick
             PROVE  OverflowIsRecent' /\ UpdateIsDue' /\ PairInTurns' /\ Close'
  OBVIOUS
<1> USE FreqAssumption DEF SlowInv, FreqInv
<1>1. UNCHANGED <<D, running, by, pc, overflow_count, last_captured_value, is_first_capture, difference,
                  starts, reports, raced>>
  BY DEF Tick, measure, history
<1>2. /\ D \in Nat /\ D > Latency /\ toEdge \in Nat /\ toEdge >= 1 /\ late \in 0 .. Latency
      /\ cnt \in 0 .. Period /\ ccr \in 0 .. Period /\ last_captured_value \in 0 .. Period
      /\ is_first_capture \in 0 .. 1 /\ overflow_count \in Nat /\ M \in Nat /\ M = Period + 1
  BY DEF TypeOK, M
<1>3. toEdge' = IF toEdge = 1 THEN D ELSE toEdge - 1
  BY DEF Tick
<1>4. late' \in 0 .. Latency /\ (Busy => late < Latency /\ late' = late + 1)
  BY <1>2 DEF Tick
<1>5. ASSUME running
      PROVE  /\ cnt' = IF cnt = Period THEN 0 ELSE cnt + 1
             /\ uif' = (uif \/ cnt' = 0)
             /\ toEdge = 1 => ccr' = cnt' /\ ccif'
             /\ toEdge # 1 => ccr' = ccr /\ ccif' = ccif
  BY <1>5, <1>2, Counting DEF Tick
<1>6. ~running => UNCHANGED <<cnt, ccr, ccif, uif>>
  BY DEF Tick, flags
<1>7. (running /\ (uif \/ ccif)) \/ pc # "idle" => Busy
  BY Zenon DEF Busy
<1>8. ASSUME ccif \/ pc = "reset"
      PROVE  toEdge # 1 /\ toEdge <= D /\ Since' = Since + 1 /\ Since + 1 <= Latency /\ ccif' = ccif
  <2>1. Busy /\ running
    BY <1>8, <1>7, Zenon DEF StoppedIsIdle
  <2> QED BY <2>1, <1>1, <1>2, <1>3, <1>4, <1>5, <1>8 DEF EdgeIsHandled, Since
<1>9. OverflowIsRecent'
  <2> SUFFICES ASSUME running, uif'
               PROVE  cnt' <= late'
    BY <1>1 DEF OverflowIsRecent
  <2>1. CASE uif
    BY <2>1, <1>2, <1>4, <1>5, <1>7 DEF OverflowIsRecent
  <2>2. CASE ~uif
    <3>1. cnt' = 0
      BY <2>2, <1>5, Zenon
    <3> QED BY <3>1, <1>4
  <2> QED BY <2>1, <2>2
<1>10. UpdateIsDue'
  <2> SUFFICES ASSUME pc = "update"
               PROVE  UpdateIsDue'
    BY <1>1 DEF UpdateIsDue
  <2>1. running
    BY DEF StoppedIsIdle
  <2>2. CASE uif
    BY <2>1, <2>2, <1>5 DEF UpdateIsDue
  <2>3. CASE ~uif
    BY <2>1, <2>3, <1>1, <1>2, <1>3, <1>4, <1>5, <1>7 DEF UpdateIsDue, Since
  <2> QED BY <2>2, <2>3
<1>11. PairInTurns'
  <2> SUFFICES ASSUME Slow, running, reports > 0, pc # "reset", raced <= 1
               PROVE  PairInTurns'
    BY <1>1 DEF PairInTurns, Slow
  <2>1. toEdge <= D /\ M + Latency <= D /\ D + Latency < 2 * M
    BY DEF EdgeSeen, Slow
  <2>2. Turns \in 0 .. 3 /\ Behind \in 0 .. Latency
    BY DEF PairInTurns
  <2>3. Elapsed' = Elapsed + 1
    <3>1. CASE ccif
      BY <3>1, <1>1, <1>2, <1>8 DEF Elapsed, Since
    <3>2. CASE ~ccif /\ toEdge = 1
      BY <3>2, <1>1, <1>2, <1>3, <1>5 DEF Elapsed, Since
    <3>3. CASE ~ccif /\ toEdge # 1
      BY <3>3, <1>1, <1>2, <1>3, <1>5 DEF Elapsed, Since
    <3> QED BY <3>1, <3>2, <3>3
  <2>4. Elapsed' <= 2 * D + Latency /\ Elapsed \in Int
    <3>1. CASE ccif
      BY <3>1, <1>1, <1>2, <1>8, <2>3 DEF Elapsed, Since
    <3>2. CASE ~ccif
      BY <3>2, <1>1, <1>2, <2>1, <2>3 DEF Elapsed, Since
    <3> QED BY <3>1, <3>2
  <2>5. ASSUME cnt = Period
        PROVE  ~uif /\ uif' /\ cnt' = 0 /\ Turns' = Turns + 1
    <3>1. ~uif
      BY <2>5, <2>1, <1>2, <1>4, <1>7 DEF OverflowIsRecent
    <3>2. cnt' = 0 /\ uif'
      BY <2>5, <1>2, <1>5
    <3>3. Turns = overflow_count
      BY <3>1, <1>2 DEF Turns
    <3>4. Turns' = overflow_count + 1
      BY <3>2, <1>1 DEF Turns
    <3> QED BY <3>1, <3>2, <3>3, <3>4
  <2>6. ASSUME cnt # Period
        PROVE  uif' = uif /\ cnt' = cnt + 1 /\ Turns' = Turns
    <3>1. cnt' = cnt + 1 /\ cnt' # 0
      BY <2>6, <1>2, <1>5
    <3>2. uif' = uif
      BY <3>1, <1>5, Zenon DEF TypeOK
    <3> QED BY <3>1, <3>2, <1>1 DEF Turns
  <2>7. Turns' \in 0 .. 3 /\ Behind' = Behind
    <3>1. CASE cnt = Period
      <4>1. Turns # 3
        BY <3>1, <2>1, <2>2, <2>3, <2>4, <1>2 DEF Behind, Ticks
      <4> QED BY <3>1, <4>1, <2>2, <2>3, <2>4, <2>5, <1>2 DEF Behind, Ticks
    <3>2. CASE cnt # Period
      BY <3>2, <2>2, <2>3, <2>4, <2>6, <1>2 DEF Behind, Ticks
    <3> QED BY <3>1, <3>2
  <2>8. ASSUME is_first_capture = 0, ccif'
        PROVE  ccr' = D - Behind - M
    <3>1. CASE ccif
      BY <3>1, <2>8, <1>5, <1>8 DEF PairInTurns
    <3>2. CASE ~ccif
      <4>1. toEdge = 1 /\ ccr' = cnt'
        BY <3>2, <2>8, <1>5
      <4>2. Elapsed' = D
        BY <3>2, <4>1, <2>8, <2>3, <1>2 DEF Elapsed, Since
      <4>3. cnt' \in 0 .. Period /\ cnt' + Ticks(Turns') = D - Behind
        BY <4>2, <2>2, <2>7, <1>2, <1>5 DEF Behind, Ticks
      <4>4. D - Behind \in Int /\ M <= D - Behind /\ D - Behind < 2 * M /\ Turns' \in 0 .. 3
        BY <2>1, <2>2, <2>7, <1>2
      <4>5. cnt' = D - Behind - M
        BY <4>3, <4>4, SecondTurn
      <4> QED BY <4>1, <4>3, <4>5
    <3> QED BY <3>1, <3>2
  <2>9. ASSUME is_first_capture = 1, ccif', ~uif' \/ pc = "update"
        PROVE  cnt' = ccr' + Since'
    <3>1. CASE ccif
      <4>1. cnt # Period
        BY <3>1, <2>5, <2>9, <2>1, <1>2, <1>4, <1>7 DEF UpdateIsDue, OverflowIsRecent
      <4>2. cnt = ccr + Since
        BY <3>1, <4>1, <2>6, <2>9 DEF PairInTurns
      <4> QED BY <3>1, <4>1, <4>2, <2>6, <1>2, <1>5, <1>8 DEF Since
    <3>2. CASE ~ccif
      <4>1. toEdge = 1 /\ ccr' = cnt' /\ toEdge' = D
        BY <3>2, <2>9, <1>3, <1>5
      <4> QED BY <4>1, <1>1, <1>2, <1>5 DEF Since
    <3> QED BY <3>1, <3>2
  <2>10. is_first_capture = 1 => last_captured_value = D - Behind - M
    BY DEF PairInTurns
  <2> QED BY <2>7, <2>8, <2>9, <2>10, <1>1 DEF PairInTurns
<1>12. Close'
  BY <1>1 DEF Close, Slow
<1> QED BY <1>9, <1>10, <1>11, <1>12

LEMMA SlowCommands ==
  SlowInv /\ (CaptureStart \/ CaptureStop) => OverflowIsRecent' /\ UpdateIsDue' /\ PairInTurns' /\ Close'
<1> SUFFICES ASSUME SlowInv, CaptureStart \/ CaptureStop
             PROVE  OverflowIsRecent' /\ UpdateIsDue' /\ PairInTurns' /\ Close'
  OBVIOUS
<1>1. pc = "idle" /\ pc' = pc /\ late \in 0 .. Latency /\ UNCHANGED <<D, difference, raced>>
  BY Zenon DEF SlowInv, FreqInv, TypeOK, StoppedIsIdle, CaptureStart, CaptureStop, Busy, signal, timer, flags,
               measure, history
<1>2. CASE CaptureStart
  BY <1>1, <1>2 DEF CaptureStart, OverflowIsRecent, UpdateIsDue, PairInTurns, Close
<1>3. CASE CaptureStop
  BY <1>1, <1>3 DEF SlowInv, CaptureStop, history, OverflowIsRecent, UpdateIsDue, PairInTurns, Close, Slow
<1> QED BY <1>2, <1>3

\* What the report of a slow pair says.
LEMMA SlowDifference ==
  ASSUME Word >= 2 * M, Slow, NEW b \in 0 .. Latency, NEW n \in 2 .. 3, D \in Nat,
         NEW last \in 0 .. Period, last = D - b - M,
         NEW cap \in 0 .. Period, cap = 2 * D - b - Ticks(n)
  PROVE  Difference(n, last, cap) \in D - 2 .. D
<1> USE FreqAssumption
<1>1. D < 2 * M /\ D >= 2
  BY DEF Slow, M
<1>2. ASSUME n = 2 PROVE (Period - last) + cap + (n - 2) * Period = D - 1
  BY <1>2 DEF Ticks, M
<1>3. ASSUME n = 3 PROVE (Period - last) + cap + (n - 2) * Period = D - 2
  BY <1>3 DEF Ticks, M
<1>4. Word \in Nat \ {0} /\ D - 1 \in 0 .. Word - 1 /\ D - 2 \in 0 .. Word - 1
  BY <1>1 DEF M
<1>5. (D - 1) % Word = D - 1 /\ (D - 2) % Word = D - 2
  BY <1>4, ModSmall
<1> QED BY <1>2, <1>3, <1>5 DEF Difference

LEMMA SlowHandler ==
  ASSUME OvfMod > 3, Word >= 2 * M, SlowInv, HandlerStep
  PROVE  OverflowIsRecent' /\ UpdateIsDue' /\ PairInTurns' /\ Close'
<1> USE FreqAssumption DEF SlowInv, FreqInv
<1>1. /\ D \in Nat /\ D > Latency /\ toEdge \in Nat /\ late \in 0 .. Latency
      /\ cnt \in 0 .. Period /\ ccr \in 0 .. Period /\ last_captured_value \in 0 .. Period
      /\ is_first_capture \in 0 .. 1 /\ overflow_count \in Nat /\ M \in Nat /\ M = Period + 1
      /\ reports \in 0 .. 2 /\ raced \in 0 .. 2
  BY DEF TypeOK, M
<1>2. CASE UpEnter \/ CcEnter
  <2>1. /\ pc # "reset" /\ pc # "update"
        /\ UNCHANGED <<D, toEdge, running, cnt, ccr, ccif, uif, late, overflow_count, last_captured_value,
                       is_first_capture, difference, reports, raced>>
    BY <1>2 DEF UpEnter, CcEnter, signal, timer, flags, measure, history
  <2>2. pc' \in {"capture", "update"} /\ (pc' = "update" => uif /\ ~ccif)
    <3>1. CASE UpEnter
      BY <3>1, Zenon DEF UpEnter
    <3>2. CASE CcEnter
      BY <3>2, Zenon DEF CcEnter
    <3> QED BY <1>2, <3>1, <3>2
  <2>3. Turns' = Turns /\ Elapsed' = Elapsed
    BY <2>1 DEF Turns, Elapsed, Since
  <2>4. Behind' = Behind
    BY <2>1, <2>3 DEF Behind
  <2>5. OverflowIsRecent' /\ UpdateIsDue' /\ Close'
    BY <2>1, <2>2 DEF OverflowIsRecent, UpdateIsDue, Close, Slow
  <2>6. PairInTurns'
    BY <2>1, <2>2, <2>3, <2>4 DEF PairInTurns, Slow, Since
  <2> QED BY <2>5, <2>6
<1>3. CASE CaptureFirst
  <2>1. /\ ccif /\ pc = "capture" /\ is_first_capture = 0 /\ toEdge <= D /\ Since <= late
    BY <1>3 DEF CaptureFirst, EdgeIsHandled
  <2>2. /\ pc' = "update" /\ ccif' = FALSE /\ last_captured_value' = ccr /\ is_first_capture' = 1
        /\ UNCHANGED <<D, toEdge, running, cnt, ccr, uif, late, overflow_count, difference, reports, raced>>
    BY <1>3 DEF CaptureFirst, signal, timer, history
  <2>3. Turns' = Turns /\ Elapsed' = Elapsed
    BY <2>1, <2>2, <1>1 DEF Turns, Elapsed, Since
  <2>4. Behind' = Behind
    BY <2>2, <2>3 DEF Behind
  <2>5. OverflowIsRecent' /\ UpdateIsDue' /\ Close'
    BY <2>1, <2>2 DEF OverflowIsRecent, UpdateIsDue, Close, Slow, Since
  <2>6. PairInTurns'
    BY <2>1, <2>2, <2>3, <2>4 DEF PairInTurns, Slow
  <2> QED BY <2>5, <2>6
<1>4. CASE CaptureSecond
  <2>1. ccif /\ running /\ pc = "capture" /\ is_first_capture = 1 /\ toEdge <= D /\ Since <= late
    BY <1>4 DEF CaptureSecond, EdgeIsHandled, StoppedIsIdle
  <2>2. /\ pc' = "reset" /\ difference' = Difference(overflow_count, last_captured_value, ccr)
        /\ reports' = IF reports < 2 THEN reports + 1 ELSE 2
        /\ raced' = IF uif THEN 2 ELSE IF raced > 0 THEN raced - 1 ELSE 0
        /\ UNCHANGED <<D, running, cnt, uif, late>>
    BY <1>4 DEF CaptureSecond, signal, timer
  <2>3. OverflowIsRecent' /\ UpdateIsDue' /\ PairInTurns'
    BY <2>2 DEF OverflowIsRecent, UpdateIsDue, PairInTurns
  <2>4. Close'
    <3> SUFFICES ASSUME Slow, reports > 0, raced <= 1, ~uif
                 PROVE  difference' \in D - 2 .. D
      BY <2>2, <1>1 DEF Close, Slow
    <3>1. /\ Turns \in 0 .. 3 /\ Behind \in 0 .. Latency
          /\ last_captured_value = D - Behind - M /\ cnt = ccr + Since
      BY <2>1 DEF PairInTurns
    <3>2. Turns = overflow_count
      BY <1>1 DEF Turns
    <3>3. Behind = 2 * D - ccr - Ticks(overflow_count)
      <4>1. Elapsed = Since + 2 * D /\ Since \in Int
        BY <2>1, <1>1 DEF Elapsed, Since
      <4>2. Ticks(overflow_count) \in Int
        BY <3>1, <3>2, <1>1 DEF Ticks
      <4> QED BY <4>1, <4>2, <3>1, <3>2, <1>1 DEF Behind
    <3>4. overflow_count \in 2 .. 3
      BY <3>1, <3>2, <3>3, <1>1 DEF Ticks, Slow
    <3>5. ccr = 2 * D - Behind - Ticks(overflow_count)
      BY <3>1, <3>3, <3>4, <1>1 DEF Ticks
    <3> QED BY <2>2, <3>1, <3>4, <3>5, <1>1, SlowDifference
  <2> QED BY <2>3, <2>4
<1>5. CASE CaptureReset
  <2>1. /\ pc = "reset" /\ pc' = "update" /\ ~ccif /\ toEdge <= D /\ Since <= late
        /\ cnt' = 0 /\ is_first_capture' = 0 /\ overflow_count' = 0
        /\ raced' = IF uif THEN 2 ELSE raced
        /\ UNCHANGED <<D, toEdge, running, ccr, ccif, uif, late, difference, reports>>
    BY <1>5 DEF CaptureReset, signal, flags, EdgeIsHandled
  <2>2. OverflowIsRecent' /\ UpdateIsDue'
    BY <2>1, <1>1 DEF OverflowIsRecent, UpdateIsDue, Since
  <2>3. Close'
    BY <2>1, <1>1 DEF Close, Slow
  <2>4. PairInTurns'
    <3> SUFFICES ASSUME ~uif
                 PROVE  PairInTurns'
      BY <2>1 DEF PairInTurns
    <3>1. Turns' = 0 /\ Elapsed' = Since
      BY <2>1, <1>1 DEF Turns, Elapsed, Since
    <3>2. Since \in 0 .. Latency
      BY <2>1, <1>1 DEF Since
    <3>3. Behind' = Since
      BY <2>1, <3>1, <3>2 DEF Behind, Ticks
    <3> QED BY <2>1, <3>1, <3>2, <3>3 DEF PairInTurns
  <2> QED BY <2>2, <2>3, <2>4
<1>6. CASE UpPreempt
  <2>1. /\ pc = "reset" /\ pc' = pc /\ uif' = FALSE
        /\ UNCHANGED <<D, toEdge, running, cnt, ccr, ccif, late, difference, reports, raced>>
    BY <1>6 DEF UpPreempt, signal, timer, history
  <2> QED BY <2>1 DEF OverflowIsRecent, UpdateIsDue, PairInTurns, Close, Slow
<1>7. CASE Update
  <2>1. /\ pc = "update" /\ pc' = "idle" /\ uif' = FALSE
        /\ overflow_count' = IF uif THEN (overflow_count + 1) % OvfMod ELSE overflow_count
        /\ UNCHANGED <<D, toEdge, running, cnt, ccr, ccif, late, last_captured_value,
                       is_first_capture, difference, reports, raced>>
    BY <1>7 DEF Update, signal, timer, history
  <2>2. OverflowIsRecent' /\ UpdateIsDue' /\ Close'
    BY <2>1 DEF OverflowIsRecent, UpdateIsDue, Close, Slow
  <2>3. ASSUME Turns \in 0 .. 3
        PROVE  Turns' = Turns
    <3>1. CASE uif
      <4>1. Turns = overflow_count + 1 /\ overflow_count + 1 \in 0 .. OvfMod - 1
        BY <2>3, <3>1, <1>1 DEF Turns
      <4>2. (overflow_count + 1) % OvfMod = overflow_count + 1
        BY <4>1, ModSmall
      <4>3. Turns' = overflow_count'
        BY <2>1, <4>1, <4>2, <3>1, <1>1 DEF Turns
      <4> QED BY <4>1, <4>2, <4>3, <2>1, <3>1
    <3>2. CASE ~uif
      BY <3>2, <2>1 DEF Turns
    <3> QED BY <3>1, <3>2
  <2>4. Elapsed' = Elapsed /\ Since' = Since
    BY <2>1 DEF Elapsed, Since
  <2>5. Turns' = Turns => Behind' = Behind
    BY <2>1, <2>4 DEF Behind
  <2>6. PairInTurns'
    BY <2>1, <2>3, <2>4, <2>5 DEF PairInTurns, Slow
  <2> QED BY <2>2, <2>6
<1> QED BY <1>2, <1>3, <1>4, <1>5, <1>6, <1>7 DEF HandlerStep

LEMMA SlowIdle == SlowInv /\ UNCHANGED vars => OverflowIsRecent' /\ UpdateIsDue' /\ PairInTurns' /\ Close'
<1> SUFFICES ASSUME SlowInv, UNCHANGED vars
             PROVE  OverflowIsRecent' /\ UpdateIsDue' /\ PairInTurns' /\ Close'
  OBVIOUS
<1>1. UNCHANGED <<D, toEdge, running, cnt, ccr, ccif, uif, late, by, pc, overflow_count,
                  last_captured_value, is_first_capture, difference, starts, reports, raced>>
  BY DEF vars, signal, timer, flags, measure, history
<1> QED BY <1>1 DEF SlowInv, OverflowIsRecent, UpdateIsDue, PairInTurns, Close, Slow, Behind, Turns, Elapsed, Since

\* With a counter of more than three overflows and a difference of two turns, a period
\* of one to two turns is measured at most two ticks short (freqmeasure.c:317), unless
\* an overflow came while an edge was being handled.
THEOREM SlowClose ==
  ASSUME OvfMod > 3, Word >= 2 * M
  PROVE  Spec => []SlowIsClose
<1>1. Init => SlowInv
  <2>1. Init => FreqInv
    BY FreqInitially
  <2>2. Init => OverflowIsRecent /\ UpdateIsDue /\ PairInTurns /\ Close
    BY DEF Init, OverflowIsRecent, UpdateIsDue, PairInTurns, Close
  <2> QED BY <2>1, <2>2 DEF SlowInv
<1>2. SlowInv /\ [Next]_vars => SlowInv'
  <2>1. SlowInv /\ [Next]_vars => FreqInv'
    BY TickKeeps, CommandsKeep, HandlerKeeps, FreqIdle DEF Next, SlowInv
  <2>2. SlowInv /\ [Next]_vars => OverflowIsRecent' /\ UpdateIsDue' /\ PairInTurns' /\ Close'
    BY SlowTick, SlowCommands, SlowHandler, SlowIdle DEF Next
  <2> QED BY <2>1, <2>2 DEF SlowInv
<1>3. SlowInv => SlowIsClose
  BY DEF SlowInv, Close, Slow, SlowIsClose
<1> QED BY <1>1, <1>2, <1>3, PTL DEF Spec
=============================================================================
