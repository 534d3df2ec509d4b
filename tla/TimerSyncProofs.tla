--------------------------- MODULE TimerSyncProofs ---------------------------
(***************************************************************************)
(* Proofs about TimerSync for a second, a tolerance, a default period,     *)
(* signals and latencies of any size that its assumption allows, and any   *)
(* number of starts, cut by interrupts or not: once a start has returned   *)
(* the servo jumps once; then it never jumps again, an edge served late    *)
(* enough has the right second, and no interval that is accepted is false. *)
(***************************************************************************)
EXTENDS TimerSync, TLAPS

\* n is at most h hundredths of the tolerance.
Within(n, h) == 100 * n <= h * Fine /\ -100 * n <= h * Fine

\* With the error e and turns that are q ticks too long: the errors to come, were
\* nothing corrected, stay in a polygon.
Settled(e, q) ==
  /\ Within(e, 48) /\ Within(e + q, 48) /\ Within(e + 2 * q, 52) /\ Within(e + 3 * q, 61)
  /\ Within(e + 5 * q, 85) /\ Within(q, 17) /\ Within(e - 4 * q, 94)

\* Turns that a jump has set are at most a twentieth of the tolerance off.
Small(q) == 20 * q <= Fine /\ -20 * q <= Fine

Drift == period + 1 - L

\* The error at the next wrap: known once the servo trims, small after a jump.
Coming(x) ==
  IF locked THEN x = err_ns + Drift
  ELSE LET h == IF skipCycles = 1 THEN Fine + 20 ELSE 2 * Fine + 20 IN 20 * x <= h /\ -20 * x <= h

Shape ==
  /\ cnt \in Nat /\ toIsr \in Nat /\ pos \in 0 .. L /\ toEdge \in Nat /\ D \in Nat \ {0}
  /\ aux \in 0 .. L - 1 /\ uif \in BOOLEAN /\ ccif \in BOOLEAN
  /\ arr \in Nat /\ period \in Nat /\ err_ns \in -Fine .. Fine
  /\ skipCycles \in 0 .. 1 /\ jumps \in 0 .. 1
  /\ locked \in BOOLEAN /\ mode \in {"off", "armed", "on"} /\ starts \in Nat

\* What a jump leaves, and where no jump was made yet.
Waiting ==
  /\ jumps > 0 => rated /\ boot = "idle"
  /\ mode = "armed" => jumps = 0

\* A flag is served in time, and the latched time is that of the wrap.
Served ==
  /\ Pending => Running /\ \E n \in Latencies : toIsr <= n /\ (uif => cnt + toIsr <= n)
  /\ uif => arr > 0 /\ pos \in {aux + cnt, aux + cnt - L}

Tracked == Running /\ jumps > 0

\* The timer meets the clock at its next wrap, or has met it at the one to be served.
Meets(x) ==
  /\ x \in Int /\ Coming(x)
  /\ IF uif THEN Error(aux) = x ELSE pos + (arr + 1 - cnt) \in {x, x + L, x + 2 * L}

Trimmed ==
  IF locked THEN skipCycles = 0 /\ Settled(err_ns, Drift) ELSE err_ns = 0 /\ Small(Drift)

InPhase ==
  Tracked =>
    /\ cnt <= arr + 1 /\ 2 * (arr + 1) + Fine >= L
    /\ skipCycles = 0 => arr = period
    /\ Trimmed
    /\ \E x \in Int : Meets(x)

TimerInv == Shape /\ Waiting /\ Served /\ InPhase

-----------------------------------------------------------------------------
(* The controller. *)

LEMMA Quotient ==
  ASSUME NEW m \in Nat
  PROVE  m \div 21 \in Nat /\ 21 * (m \div 21) <= m /\ m < 21 * (m \div 21) + 21
OBVIOUS

\* A correction is the wanted one but for less than one tick and the one that the doubles take.
LEMMA CorrectionIs ==
  ASSUME NEW e \in Int, NEW old \in Int, NEW c \in Correction(e, old)
  PROVE  /\ c \in Int
         /\ LET n == 2 * e + 3 * (e - old) IN 21 * c <= n + 21 /\ n <= 21 * c + 21
<1> DEFINE n == 2 * e + 3 * (e - old)
           m == IF n >= 0 THEN n ELSE -n
<1>1. n \in Int /\ m \in Nat
  OBVIOUS
<1>2. PICK d \in Nat : d = m \div 21 /\ 21 * d <= m /\ m < 21 * d + 21
  BY <1>1, Quotient
<1>3. PICK k \in Int : c = (IF n >= 0 THEN k ELSE -k) /\ (k = d \/ (k = d - 1 /\ m % 21 = 0))
  BY <1>1, <1>2 DEF Correction
<1>4. m % 21 = 0 => m = 21 * d
  BY <1>1, <1>2
<1>5. m - 21 <= 21 * k /\ 21 * k <= m
  <2> HIDE DEF m
  <2> QED BY <1>1, <1>2, <1>3, <1>4
<1>6. 21 * c <= n + 21 /\ n <= 21 * c + 21
  <2> HIDE DEF n
  <2> QED BY <1>1, <1>3, <1>5
<1> QED BY <1>3, <1>6

\* The first correction after a jump.
LEMMA FirstTrim ==
  ASSUME NEW e \in Int, 20 * e <= 2 * Fine + 20, -20 * e <= 2 * Fine + 20,
         NEW q \in Int, Small(q), NEW c \in Correction(e, 0)
  PROVE  Settled(e, q - c)
<1>1. c \in Int /\ 21 * c <= 5 * e + 21 /\ 5 * e <= 21 * c + 21
  BY CorrectionIs
<1> QED BY <1>1, TimerAssumption DEF Small, Settled, Within

LEMMA NextTrim ==
  ASSUME NEW e \in Int, NEW q \in Int, Settled(e, q), NEW c \in Correction(e + q, e)
  PROVE  Settled(e + q, q - c)
<1>1. c \in Int /\ 21 * c <= 2 * e + 5 * q + 21 /\ 2 * e + 5 * q <= 21 * c + 21
  BY CorrectionIs
<1> QED BY <1>1, TimerAssumption DEF Settled, Within

LEMMA SettledIsNear ==
  ASSUME NEW e \in Int, NEW q \in Int, Settled(e, q)
  PROVE  Near(e + q) /\ q >= -Fine /\ q <= Fine
BY TimerAssumption DEF Settled, Within, Near

\* The error is that of the second which the wrap is nearest to.
LEMMA ErrorIs ==
  ASSUME NEW t \in 0 .. L - 1
  PROVE  /\ Error(t) \in Int /\ Error(t) \in {t, t - L}
         /\ 2 * Error(t) <= L /\ 2 * Error(t) >= -L
         /\ \A n \in Int : Near(n) /\ t \in {n, n + L} => Error(t) = n
<1>1. PICK h \in Nat : h = L \div 2 /\ 2 * h <= L /\ L <= 2 * h + 1
  BY TimerAssumption
<1> QED BY <1>1, TimerAssumption DEF Error, Near

-----------------------------------------------------------------------------
(* The clock. *)

LEMMA FirstDue ==
  ASSUME Shape
  PROVE  /\ Min(Due) \in Int /\ Min(Due) <= toEdge /\ Min(Due) <= L - pos
         /\ Counting => Min(Due) <= ToWrap
         /\ Pending => Min(Due) <= toIsr
<1>1. toEdge \in Int /\ L - pos \in Int /\ ToWrap \in Int /\ toIsr \in Int
  BY TimerAssumption DEF Shape, ToWrap
<1> DEFINE R == Counting
           P == Pending
<1> HIDE DEF R, P
<1>2. Due = {toEdge, L - pos} \cup {n \in {ToWrap} : R} \cup {n \in {toIsr} : P}
  BY DEF Due, R, P
<1>3. Due \subseteq Int
  BY <1>1, <1>2
<1>4. \E x \in Due : \A y \in Due : x <= y
  <2>1. PICK x \in {toEdge, L - pos} : x <= toEdge /\ x <= L - pos
    BY <1>1
  <2>2. PICK y \in Due : y <= x /\ (R => y <= ToWrap) /\ y \in Int
    BY <1>1, <1>2, <2>1
  <2>3. PICK z \in Due : z <= y /\ (P => z <= toIsr) /\ z \in Int
    BY <1>1, <1>2, <2>2
  <2>4. \A w \in Due : z <= w
    BY <1>1, <1>2, <2>1, <2>2, <2>3
  <2> QED BY <2>3, <2>4
<1>5. Min(Due) \in Due /\ \A y \in Due : Min(Due) <= y
  BY <1>4 DEF Min
<1> QED BY <1>2, <1>3, <1>5 DEF R, P

LEMMA TimerInitially == Init => TimerInv
<1> SUFFICES ASSUME Init PROVE TimerInv
  OBVIOUS
<1>1. D \in Nat \ {0} /\ toEdge \in Nat
  <2>1. PICK s \in Signals : D = s[1] /\ toEdge = s[2]
    BY DEF Init
  <2>2. s \in (Nat \ {0}) \X (Nat \ {0})
    BY TimerAssumption
  <2> QED BY <2>1, <2>2
<1>2. /\ pos = 0 /\ mode = "off" /\ cnt = 0 /\ arr = Default /\ uif = FALSE /\ aux = 0
      /\ ccif = FALSE /\ toIsr = 0 /\ period = 0 /\ skipCycles = 0 /\ err_ns = 0
      /\ starts = 0 /\ locked = FALSE /\ jumps = 0
  BY DEF Init
<1>3. Shape
  <2>1. uif \in BOOLEAN /\ ccif \in BOOLEAN /\ locked \in BOOLEAN
    BY <1>2, Zenon
  <2>2. 0 \in 0 .. L /\ 0 \in 0 .. L - 1 /\ 0 \in -Fine .. Fine
    BY TimerAssumption
  <2>3. cnt \in Nat /\ toIsr \in Nat /\ pos \in 0 .. L /\ aux \in 0 .. L - 1 /\ arr \in Nat
        /\ period \in Nat /\ err_ns \in -Fine .. Fine /\ skipCycles \in 0 .. 1 /\ jumps \in 0 .. 1
        /\ mode \in {"off", "armed", "on"} /\ starts \in Nat
    BY <1>2, <2>2, TimerAssumption
  <2> QED BY <1>1, <2>1, <2>3 DEF Shape
<1> QED BY <1>2, <1>3 DEF TimerInv, Waiting, Served, InPhase, Tracked, Pending, Running

\* Steps that leave the servo and the phase of the timer alone.
LEMMA PhaseStays ==
  ASSUME InPhase, Tracked' => Tracked,
         UNCHANGED <<arr, uif, aux, period, skipCycles, err_ns, locked>>,
         Tracked => cnt' <= arr + 1,
         NEW k \in {0, L}, Tracked /\ ~uif => pos' + (arr + 1 - cnt') = (pos + (arr + 1 - cnt)) - k,
         \A x \in Int : Tracked /\ ~uif /\ Meets(x) /\ k = L => pos + (arr + 1 - cnt) # x
  PROVE  InPhase'
<1> SUFFICES ASSUME Tracked' PROVE InPhase'
  BY DEF InPhase
<1>1. Tracked /\ 2 * (arr + 1) + Fine >= L /\ (skipCycles = 0 => arr = period) /\ Trimmed
  BY DEF InPhase
<1>2. PICK x \in Int : Meets(x)
  BY <1>1 DEF InPhase
<1>3. Coming(x)'
  BY <1>2 DEF Meets, Coming, Drift
<1>4. Trimmed'
  BY <1>1 DEF Trimmed, Drift, Settled, Within, Small
<1>5. uif => Error(aux') = x
  BY <1>2 DEF Meets, Error
<1>6. ~uif => pos' + (arr' + 1 - cnt') \in {x, x + L, x + 2 * L}
  <2> SUFFICES ASSUME ~uif PROVE pos' + (arr + 1 - cnt') \in {x, x + L, x + 2 * L}
    OBVIOUS
  <2>0. pos + (arr + 1 - cnt) \in {x, x + L, x + 2 * L}
    BY <1>2 DEF Meets
  <2>5. k = L => pos + (arr + 1 - cnt) # x
    BY <1>1, <1>2
  <2> DEFINE a == pos + (arr + 1 - cnt)
             b == pos' + (arr + 1 - cnt')
  <2>1. a \in {x, x + L, x + 2 * L}
    BY <2>0, Zenon
  <2>2. b = a - k
    BY <1>1, Zenon
  <2>3. k = L => a # x
    BY <2>5, Zenon
  <2> HIDE DEF a, b
  <2>4. b \in {x, x + L, x + 2 * L}
    BY <2>1, <2>2, <2>3, TimerAssumption
  <2> QED BY <2>4 DEF b
<1>7. Meets(x)'
  BY <1>3, <1>5, <1>6 DEF Meets
<1> QED BY <1>1, <1>4, <1>7 DEF InPhase

LEMMA AdvanceKeeps == TimerInv /\ Advance => TimerInv'
<1> SUFFICES ASSUME TimerInv, Advance PROVE TimerInv'
  OBVIOUS
<1> DEFINE n == Min(Due)
<1>1. n \in Int /\ n > 0 /\ n <= toEdge /\ n <= L - pos
  BY FirstDue DEF TimerInv, Advance
<1>2. (Counting => n <= ToWrap) /\ (Pending => n <= toIsr)
  BY FirstDue DEF TimerInv
<1>3. /\ toEdge' = toEdge - n /\ pos' = pos + n
      /\ cnt' = (IF Counting THEN cnt + n ELSE cnt)
      /\ toIsr' = (IF Pending THEN toIsr - n ELSE toIsr)
      /\ UNCHANGED <<D, mode, arr, uif, aux, ccif, start, ctrl, starts, servo>>
  BY DEF Advance
<1> HIDE DEF n
<1>4. UNCHANGED <<D, mode, arr, uif, aux, ccif, boot, period, skipCycles, err_ns, starts, rated, locked,
                  jumps>>
      /\ (Running' <=> Running) /\ (Pending' <=> Pending)
  BY <1>3 DEF start, ctrl, servo, Running, Pending
<1>5. Shape'
  BY <1>1, <1>2, <1>3, <1>4, TimerAssumption DEF TimerInv, Shape
<1>6. Waiting'
  BY <1>4 DEF TimerInv, Waiting
<1>7. Served'
  <2>1. pos' \in Int /\ cnt \in Int /\ aux \in Int /\ pos \in Int /\ toIsr \in Int
    BY <1>5, TimerAssumption DEF TimerInv, Shape
  <2>2. \A k \in Latencies : k \in Int
    BY TimerAssumption
  <2>3. Pending => \E k \in Latencies : toIsr' <= k /\ (uif => cnt' + toIsr' <= k)
    BY <1>1, <1>3, <2>1, <2>2 DEF TimerInv, Served
  <2>4. uif => Counting
    BY DEF TimerInv, Served, Pending, Counting
  <2>5. uif => pos' \in {aux + cnt', aux + cnt' - L}
    BY <1>1, <1>3, <2>1, <2>4, TimerAssumption DEF TimerInv, Served
  <2> QED BY <1>4, <2>3, <2>5 DEF TimerInv, Served
<1>8. InPhase'
  <2>1. Tracked' => Tracked
    BY <1>4 DEF Tracked
  <2>2. ASSUME Tracked
        PROVE  cnt' <= arr + 1 /\ pos' + (arr + 1 - cnt') = (pos + (arr + 1 - cnt)) - 0
    <3>1. cnt <= arr + 1 /\ 2 * (arr + 1) + Fine >= L /\ ToWrap = arr + 1 - cnt
      BY <2>2 DEF TimerInv, InPhase, ToWrap
    <3>2. cnt \in Nat /\ arr \in Nat /\ pos \in Int
      BY DEF TimerInv, Shape
    <3>3. arr > 0
      BY <3>1, <3>2, TimerAssumption
    <3>4. Counting
      BY <2>2, <3>3 DEF Counting, Tracked
    <3> QED BY <1>1, <1>2, <1>3, <3>1, <3>2, <3>4
  <2>3. 0 \in {0, L} /\ 0 # L
    BY TimerAssumption
  <2> QED BY <1>4, <2>1, <2>2, <2>3, PhaseStays DEF TimerInv
<1> QED BY <1>5, <1>6, <1>7, <1>8 DEF TimerInv

\* The error that is to come is small.
LEMMA ComingIsNear ==
  ASSUME TimerInv, Tracked, NEW x \in Int, Coming(x)
  PROVE  Near(x) /\ x < L /\ x > -L /\ Drift \in Int /\ Drift >= -Fine /\ Drift <= Fine
<1>1. err_ns \in Int /\ Drift \in Int
  BY TimerAssumption DEF TimerInv, Shape, Drift
<1>2. CASE locked
  <2>1. Settled(err_ns, Drift) /\ x = err_ns + Drift
    BY <1>2 DEF TimerInv, InPhase, Trimmed, Coming
  <2> HIDE DEF Drift
  <2> QED BY <1>1, <2>1, SettledIsNear, TimerAssumption DEF Near
<1>3. CASE ~locked
  <2>1. Small(Drift) /\ 20 * x <= 2 * Fine + 20 /\ -20 * x <= 2 * Fine + 20
    BY <1>3, TimerAssumption DEF TimerInv, InPhase, Trimmed, Coming
  <2> HIDE DEF Drift
  <2> QED BY <1>1, <2>1, TimerAssumption DEF Small, Near
<1> QED BY <1>2, <1>3

LEMMA RollKeeps == TimerInv /\ Roll => TimerInv'
<1> SUFFICES ASSUME TimerInv, Roll PROVE TimerInv'
  OBVIOUS
<1>1. /\ pos = L /\ pos' = 0 /\ mode' = (IF mode = "armed" THEN "on" ELSE mode)
      /\ UNCHANGED <<D, toEdge, cnt, arr, boot, uif, aux, ccif, toIsr, period, skipCycles, err_ns,
                     starts, rated, locked, jumps>>
  BY DEF Roll, signal, flags, ctrl, servo
<1>2. Shape'
  BY <1>1, TimerAssumption DEF TimerInv, Shape
<1>3. Waiting'
  BY <1>1 DEF TimerInv, Waiting
<1>4. Pending' <=> Pending
  BY <1>1 DEF Pending
<1>5. Pending => Running
  BY DEF TimerInv, Served
<1>6. Running => Running'
  BY <1>1 DEF Running
<1>7. uif => pos' \in {aux + cnt, aux + cnt - L}
  <2> SUFFICES ASSUME uif PROVE pos' = aux + cnt - L
    OBVIOUS
  <2>1. PICK n \in Latencies : cnt + toIsr <= n
    BY DEF TimerInv, Served, Pending
  <2>2. n \in Nat /\ 2 * n < L
    BY <2>1, TimerAssumption
  <2> QED BY <1>1, <2>1, <2>2, TimerAssumption DEF TimerInv, Shape, Served
<1>8. Served'
  <2>1. uif /\ uif' => pos' \in {aux' + cnt', aux' + cnt' - L}
    BY <1>1, <1>7
  <2> QED BY <1>1, <1>4, <1>5, <1>6, <2>1 DEF TimerInv, Served
<1>9. InPhase'
  <2>1. Tracked' => Tracked
    BY <1>1 DEF TimerInv, Waiting, Tracked, Running
  <2>2. cnt \in Nat /\ arr \in Nat /\ L \in Nat /\ L \in {0, L}
    BY TimerAssumption DEF TimerInv, Shape
  <2>3. pos' + (arr + 1 - cnt') = (pos + (arr + 1 - cnt)) - L
    BY <1>1, <2>2
  <2>4. ASSUME NEW x \in Int, Tracked, Meets(x)
        PROVE  pos + (arr + 1 - cnt) # x
    <3>1. cnt <= arr + 1 /\ x < L
      BY <2>4, ComingIsNear DEF TimerInv, InPhase, Meets
    <3> QED BY <1>1, <2>2, <3>1
  <2>5. Tracked => cnt' <= arr + 1
    BY <1>1 DEF TimerInv, InPhase
  <2> QED BY <1>1, <2>1, <2>2, <2>3, <2>4, <2>5, PhaseStays DEF TimerInv
<1> QED BY <1>2, <1>3, <1>8, <1>9 DEF TimerInv

\* A wrap is served before the next one.
LEMMA WrapOnce ==
  ASSUME TimerInv, Wrap, Tracked
  PROVE  ~uif /\ cnt = arr + 1
<1>1. cnt <= arr + 1 /\ 2 * (arr + 1) + Fine >= L
  BY DEF TimerInv, InPhase
<1>2. cnt = arr + 1
  BY <1>1 DEF Wrap, ToWrap, TimerInv, Shape
<1>3. ASSUME uif PROVE FALSE
  <2>1. PICK n \in Latencies : cnt + toIsr <= n
    BY <1>3 DEF TimerInv, Served, Pending
  <2>2. n \in Nat /\ 2 * n + Fine < L
    BY <2>1, TimerAssumption
  <2> QED BY <1>1, <1>2, <2>1, <2>2, TimerAssumption DEF TimerInv, Shape
<1> QED BY <1>2, <1>3

LEMMA WrapKeeps == TimerInv /\ Wrap => TimerInv'
<1> SUFFICES ASSUME TimerInv, Wrap PROVE TimerInv'
  OBVIOUS
<1>1. /\ Running /\ arr > 0 /\ pos < L /\ ToWrap = 0 /\ cnt' = 0 /\ uif' = TRUE /\ aux' = pos /\ Raise
      /\ UNCHANGED <<D, toEdge, pos, mode, arr, ccif, boot, period, skipCycles, err_ns,
                     starts, rated, locked, jumps>>
  BY DEF Wrap, Counting, signal, start, ctrl, servo
<1>2. toIsr' \in Nat /\ \E n \in Latencies : toIsr' <= n
  <2>1. CASE Pending
    BY <1>1, <2>1 DEF Raise, TimerInv, Shape, Served
  <2>2. CASE ~Pending
    <3>1. toIsr' \in Latencies
      BY <1>1, <2>2 DEF Raise
    <3>2. toIsr' \in Nat /\ toIsr' <= toIsr'
      BY <3>1, TimerAssumption
    <3> QED BY <3>1, <3>2
  <2> QED BY <2>1, <2>2
<1>3. Shape'
  BY <1>1, <1>2, TimerAssumption DEF TimerInv, Shape
<1>4. Waiting'
  BY <1>1 DEF TimerInv, Waiting
<1>5. Running' /\ (Tracked' <=> Tracked)
  BY <1>1 DEF Running, Tracked
<1>6. Served'
  <2>1. \A n \in Latencies : toIsr' <= n => 0 + toIsr' <= n
    BY <1>2, TimerAssumption
  <2>2. pos' = aux' + 0
    BY <1>1 DEF TimerInv, Shape
  <2> QED BY <1>1, <1>2, <1>5, <2>1, <2>2 DEF Served
<1>7. InPhase'
  <2> SUFFICES ASSUME Tracked PROVE InPhase'
    BY <1>5 DEF InPhase
  <2>1. cnt <= arr + 1 /\ 2 * (arr + 1) + Fine >= L /\ (skipCycles = 0 => arr = period) /\ Trimmed
    BY DEF TimerInv, InPhase
  <2>2. arr + 1 - cnt = 0
    BY <1>1, <2>1 DEF ToWrap
  <2>3. ~uif
    BY WrapOnce
  <2>4. PICK x \in Int : Meets(x)
    BY DEF TimerInv, InPhase
  <2>5. pos \in {x, x + L, x + 2 * L}
    BY <2>2, <2>3, <2>4, TimerAssumption DEF Meets, TimerInv, Shape
  <2>6. Near(x) /\ x < L /\ x > -L
    BY <2>4, ComingIsNear DEF Meets
  <2>7. pos \in 0 .. L - 1 /\ pos \in {x, x + L}
    BY <1>1, <2>5, <2>6, TimerAssumption DEF TimerInv, Shape
  <2>8. Error(pos) = x
    BY <2>6, <2>7, ErrorIs
  <2>9. Error(aux') = x
    BY <1>1, <2>8 DEF Error
  <2>10. Coming(x)'
    BY <1>1, <2>4 DEF Meets, Coming, Drift
  <2>11. Meets(x)'
    <3>1. (IF uif THEN Error(aux) = x ELSE pos + (arr + 1 - cnt) \in {x, x + L, x + 2 * L})'
      BY <1>1, <2>9 DEF Error
    <3> QED BY <2>10, <3>1 DEF Meets
  <2>12. Trimmed'
    BY <1>1, <2>1 DEF Trimmed, Drift, Settled, Within, Small
  <2>13. cnt' <= arr' + 1 /\ 2 * (arr' + 1) + Fine >= L /\ (skipCycles' = 0 => arr' = period')
    BY <1>1, <2>1, <2>2 DEF TimerInv, Shape
  <2> QED BY <2>11, <2>12, <2>13 DEF InPhase
<1> QED BY <1>3, <1>4, <1>6, <1>7 DEF TimerInv

LEMMA EdgeKeeps == TimerInv /\ Edge => TimerInv'
<1> SUFFICES ASSUME TimerInv, Edge PROVE TimerInv'
  OBVIOUS
<1>1. /\ toEdge' = D
      /\ UNCHANGED <<D, pos, mode, cnt, arr, uif, aux, boot, period, skipCycles, err_ns,
                     starts, rated, locked, jumps>>
      /\ (ccif' = TRUE /\ Raise /\ Running) \/ UNCHANGED <<ccif, toIsr>>
  BY DEF Edge, timer, start, ctrl, servo
<1>2. InPhase'
  <2>1. Tracked' => Tracked
    BY <1>1 DEF Tracked, Running
  <2>2. 0 \in {0, L} /\ 0 # L
    BY TimerAssumption
  <2>3. pos' + (arr + 1 - cnt') = (pos + (arr + 1 - cnt)) - 0
    BY <1>1 DEF TimerInv, Shape
  <2>4. Tracked => cnt' <= arr + 1
    BY <1>1 DEF TimerInv, InPhase
  <2> QED BY <1>1, <2>1, <2>2, <2>3, <2>4, PhaseStays DEF TimerInv
<1>3. Waiting'
  BY <1>1 DEF TimerInv, Waiting
<1>4. CASE ccif' = TRUE /\ Raise /\ Running
  <2>3. toIsr' \in Nat /\ \E n \in Latencies : toIsr' <= n /\ (uif => cnt + toIsr' <= n)
    <3>1. CASE Pending
      BY <1>4, <3>1 DEF Raise, TimerInv, Shape, Served
    <3>2. CASE ~Pending
      <4>1. toIsr' \in Latencies /\ ~uif
        BY <1>4, <3>2 DEF Raise, Pending
      <4>2. toIsr' \in Nat /\ toIsr' <= toIsr'
        BY <4>1, TimerAssumption
      <4> QED BY <4>1, <4>2
    <3> QED BY <3>1, <3>2
  <2>4. Shape'
    BY <1>1, <1>4, <2>3 DEF TimerInv, Shape
  <2>5. Served'
    BY <1>1, <1>4, <2>3 DEF TimerInv, Served, Running
  <2> QED BY <1>2, <1>3, <2>4, <2>5 DEF TimerInv
<1>5. CASE UNCHANGED <<ccif, toIsr>>
  <2>1. Shape'
    BY <1>1, <1>5 DEF TimerInv, Shape
  <2>2. Served'
    BY <1>1, <1>5 DEF TimerInv, Served, Running, Pending
  <2> QED BY <1>2, <1>3, <2>1, <2>2 DEF TimerInv
<1> QED BY <1>1, <1>4, <1>5

\* When the wrap is served, the timer is less than half a second on and as far off the
\* clock as at the wrap.
LEMMA AtUpdate ==
  ASSUME TimerInv, uif, toIsr = 0
  PROVE  /\ Running /\ 2 * cnt + Fine < L /\ cnt \in Nat /\ pos \in Int
         /\ Error(aux) \in Int /\ 2 * Error(aux) <= L /\ 2 * Error(aux) >= -L
         /\ pos - cnt - Error(aux) \in {-L, 0, L}
<1>1. PICK n \in Latencies : cnt + toIsr <= n
  BY DEF TimerInv, Served, Pending
<1>2. n \in Nat /\ 2 * n + Fine < L
  BY <1>1, TimerAssumption
<1>3. Running /\ 2 * cnt + Fine < L /\ cnt \in Nat /\ aux \in 0 .. L - 1 /\ pos \in 0 .. L
      /\ pos \in {aux + cnt, aux + cnt - L}
  BY <1>1, <1>2, TimerAssumption DEF TimerInv, Shape, Served, Pending
<1>4. /\ Error(aux) \in Int /\ Error(aux) \in {aux, aux - L}
      /\ 2 * Error(aux) <= L /\ 2 * Error(aux) >= -L
  BY <1>3, ErrorIs
<1> QED BY <1>3, <1>4, TimerAssumption

\* A turn of a ticks that is q too long ends as far off as it began, and q more.
LEMMA LeftOver ==
  ASSUME NEW a \in Int, NEW q \in Int, NEW l \in Int, NEW p \in Int, NEW c \in Int, NEW e \in Int,
         a + 1 = l + q, p - c - e \in {-l, 0, l}
  PROVE  p + (a + 1 - c) \in {e + q, e + q + l, e + q + 2 * l}
OBVIOUS

\* What the turn that is set at the wrap brings.
LEMMA TurnBrings ==
  ASSUME TimerInv, uif, toIsr = 0, ~uif', UNCHANGED <<mode, cnt, pos>>,
         NEW e \in Int, e = Error(aux), NEW q \in Int, arr' \in Nat, arr' + 1 = L + q,
         2 * (L + q) + Fine >= L, skipCycles' = 0 => arr' = period', Trimmed',
         NEW x \in Int, x = e + q, Coming(x)'
  PROVE  InPhase'
<1>1. 2 * cnt + Fine < L /\ pos - cnt - e \in {-L, 0, L} /\ cnt \in Nat /\ pos \in Int
  BY AtUpdate
<1>2. PICK a \in Nat : a = arr'
  BY Zenon
<1>9. a + 1 = L + q
  BY <1>2, Zenon
<1>3. pos + (a + 1 - cnt) \in {x, x + L, x + 2 * L}
  <2>1. L \in Int /\ a \in Int /\ cnt \in Int
    BY <1>1, <1>2, TimerAssumption
  <2>2. pos + (a + 1 - cnt) \in {e + q, e + q + L, e + q + 2 * L}
    BY <1>1, <1>9, <2>1, LeftOver, Zenon
  <2> QED BY <2>2, Zenon
<1>4. cnt <= a + 1 /\ 2 * (a + 1) + Fine >= L
  <2>1. 2 * (a + 1) + Fine >= L
    BY <1>9, Zenon
  <2> QED BY <1>1, <2>1, TimerAssumption
<1>5. pos' + (arr' + 1 - cnt') \in {x, x + L, x + 2 * L}
  BY <1>2, <1>3, Zenon
<1>6. Meets(x)'
  BY <1>5, Zenon DEF Meets
<1>7. cnt' <= arr' + 1 /\ 2 * (arr' + 1) + Fine >= L
  BY <1>2, <1>4, Zenon
<1>8. \E y \in Int : Meets(y)'
  BY <1>6
<1> QED BY <1>7, <1>8, Zenon DEF InPhase

\* The wrap of a turn that is tracked is served by a trim or a skip, never by a jump.
LEMMA TrackedIsNear ==
  ASSUME TimerInv, uif, Tracked
  PROVE  Near(Error(aux)) /\ Coming(Error(aux)) /\ Error(aux) \in Int
<1>1. PICK x \in Int : Meets(x)
  BY DEF TimerInv, InPhase
<1>2. Error(aux) = x /\ Coming(x) /\ x \in Int
  BY <1>1 DEF Meets
<1> QED BY <1>2, ComingIsNear

\* What the interrupt leaves of the controller.
LEMMA SkipKeeps ==
  ASSUME TimerInv, uif, toIsr = 0, Skip, ~uif', UNCHANGED <<mode, cnt, pos, boot>>
  PROVE  /\ arr' \in Nat /\ period' \in Nat /\ err_ns' \in -Fine .. Fine
         /\ skipCycles' \in 0 .. 1 /\ jumps' \in 0 .. 1 /\ locked' \in BOOLEAN
         /\ Waiting' /\ InPhase'
<1>1. /\ skipCycles = 1 /\ skipCycles' = 0 /\ arr' = (IF Null THEN arr ELSE period)
      /\ UNCHANGED <<period, err_ns, rated, locked, jumps>>
  BY DEF Skip, SetAutoReload, servo, TimerInv, Shape
<1>2. /\ arr' \in Nat /\ period' \in Nat /\ err_ns' \in -Fine .. Fine
      /\ skipCycles' \in 0 .. 1 /\ jumps' \in 0 .. 1 /\ locked' \in BOOLEAN
  BY <1>1 DEF TimerInv, Shape
<1>3. Waiting'
  BY <1>1 DEF TimerInv, Waiting
<1>4. InPhase'
  <2> SUFFICES ASSUME Tracked PROVE InPhase'
    BY <1>1 DEF InPhase, Tracked, Running
  <2>1. ~locked /\ err_ns = 0 /\ Small(Drift)
    BY <1>1 DEF TimerInv, InPhase, Trimmed
  <2>2. Drift' = Drift /\ Drift \in Int /\ period + 1 = L + Drift
    BY <1>1, TimerAssumption DEF Drift, TimerInv, Shape
  <2>3. arr' = period'
    BY <1>1 DEF TimerInv, Waiting, Tracked, Null
  <2>4. Trimmed'
    BY <1>1, <2>1, <2>2 DEF Trimmed, Small
  <2>5. PICK e \in Int : e = Error(aux) /\ 20 * e <= Fine + 20 /\ -20 * e <= Fine + 20
    BY <1>1, <2>1, TrackedIsNear DEF Coming
  <2>6. PICK d \in Int : d = Drift /\ 20 * d <= Fine /\ -20 * d <= Fine
    BY <2>1, <2>2 DEF Small
  <2>7. 2 * (L + d) + Fine >= L
    BY <2>6, TimerAssumption
  <2>8. arr' + 1 = L + d
    BY <1>1, <2>2, <2>3, <2>6
  <2>9. PICK x \in Int : x = e + d /\ 20 * x <= 2 * Fine + 20 /\ -20 * x <= 2 * Fine + 20
    <3>1. 20 * (e + d) <= 2 * Fine + 20 /\ -20 * (e + d) <= 2 * Fine + 20
      BY <2>5, <2>6, TimerAssumption
    <3> QED BY <3>1
  <2>10. Coming(x)'
    <3>1. ~locked' /\ skipCycles' # 1
      BY <1>1, <2>1
    <3> QED BY <2>9, <3>1 DEF Coming
  <2> QED BY <1>2, <2>3, <2>4, <2>5, <2>6, <2>7, <2>8, <2>9, <2>10, TurnBrings
<1> QED BY <1>2, <1>3, <1>4

LEMMA JumpKeeps ==
  ASSUME TimerInv, uif, toIsr = 0, Jump, ~uif', UNCHANGED <<mode, cnt, pos, boot>>
  PROVE  /\ arr' \in Nat /\ period' \in Nat /\ err_ns' \in -Fine .. Fine
         /\ skipCycles' \in 0 .. 1 /\ jumps' \in 0 .. 1 /\ locked' \in BOOLEAN
         /\ Waiting' /\ InPhase'
<1>1. PICK e \in Int : e = Error(aux) /\ 2 * e <= L /\ 2 * e >= -L /\ Running
  BY AtUpdate
<1>2. jumps = 0
  <2>1. ~Tracked
    BY TrackedIsNear DEF Jump
  <2> QED BY <1>1, <2>1 DEF Tracked, TimerInv, Shape
<1>3. PICK o \in Offs : period' = L - 1 + o
  BY DEF Jump
<1>4. PICK k \in {0, 1} : arr' = IF Null THEN arr ELSE L - 1 + o - e - k
  <2>1. PICK n : n \in JumpPeriod(period', e) /\ SetAutoReload(n)
    BY <1>1 DEF Jump
  <2>2. o \in Int /\ L \in Int
    BY <1>3, TimerAssumption
  <2>3. n \in {L - 1 + o - e, L - 1 + o - e - 1}
    <3>1. JumpPeriod(period', e) = JumpPeriod(L - 1 + o, e)
      BY <1>3, Zenon
    <3>2. n \in JumpPeriod(L - 1 + o, e)
      BY <2>1, <3>1, Zenon
    <3>3. n \in {(L - 1 + o) - e, ((L - 1 + o) - e) - 1}
      BY <3>2, Zenon DEF JumpPeriod
    <3> QED BY <1>1, <2>2, <3>3
  <2>4. n = L - 1 + o - e - 0 \/ n = L - 1 + o - e - 1
    BY <1>1, <2>2, <2>3
  <2> QED BY <2>1, <2>4 DEF SetAutoReload
<1>5. /\ skipCycles' = 1 /\ err_ns' = 0 /\ rated' = TRUE /\ locked' = FALSE
      /\ jumps' = (IF boot = "idle" THEN 1 ELSE 0)
  BY <1>2 DEF Jump
<1>6. o \in Int /\ 20 * o <= Fine /\ -20 * o <= Fine /\ L \in Nat \ {0} /\ Fine \in Nat /\ 2 * Fine < L
      /\ Fine >= 200
  BY <1>3, TimerAssumption
<1>7. arr \in Nat /\ aux \in 0 .. L - 1 /\ L - 1 + o \in Nat /\ L - 1 + o - e - k \in Nat
  BY <1>1, <1>4, <1>6 DEF TimerInv, Shape
<1>8. /\ arr' \in Nat /\ period' \in Nat /\ err_ns' \in -Fine .. Fine
      /\ skipCycles' \in 0 .. 1 /\ jumps' \in 0 .. 1
  <2>1. 0 \in -Fine .. Fine /\ 0 \in 0 .. 1 /\ 1 \in 0 .. 1
    BY <1>6
  <2> QED BY <1>3, <1>4, <1>5, <1>7, <2>1
<1>9. locked' \in BOOLEAN
  BY <1>5, Zenon
<1>10. Waiting'
  <2>1. mode' = "on"
    BY <1>1 DEF Running
  <2> QED BY <1>5, <2>1 DEF Waiting
<1>11. InPhase'
  <2> SUFFICES ASSUME boot = "idle" PROVE InPhase'
    BY <1>5 DEF InPhase, Tracked
  <2>1. arr' = L - 1 + o - e - k
    BY <1>4 DEF Null
  <2>2. PICK q \in Int : /\ q = o - e - k /\ arr' + 1 = L + q
                         /\ 2 * (L + q) + Fine >= L /\ e + q = o - k
    <3>1. k \in Int /\ k >= 0 /\ k <= 1
      BY <1>4
    <3>2. 2 * (L + (o - e - k)) + Fine >= L
      BY <1>1, <1>6, <3>1
    <3> QED BY <1>1, <1>6, <2>1, <3>1, <3>2
  <2>3. Drift' = o
    BY <1>3, <1>6 DEF Drift
  <2>4. Trimmed'
    BY <1>5, <1>6, <2>3 DEF Trimmed, Small
  <2>5. PICK x \in Int : x = o - k /\ 20 * x <= Fine + 20 /\ -20 * x <= Fine + 20
    <3>1. 20 * (o - k) <= Fine + 20 /\ -20 * (o - k) <= Fine + 20 /\ o - k \in Int
      BY <1>4, <1>6
    <3> QED BY <3>1
  <2>6. Coming(x)'
    BY <1>5, <2>5 DEF Coming
  <2>7. skipCycles' = 0 => arr' = period'
    BY <1>5
  <2> QED BY <1>1, <1>8, <2>2, <2>4, <2>5, <2>6, <2>7, TurnBrings
<1> QED BY <1>8, <1>9, <1>10, <1>11

LEMMA TrimKeeps ==
  ASSUME TimerInv, uif, toIsr = 0, Trim, ~uif', UNCHANGED <<mode, cnt, pos, boot>>
  PROVE  /\ arr' \in Nat /\ period' \in Nat /\ err_ns' \in -Fine .. Fine
         /\ skipCycles' \in 0 .. 1 /\ jumps' \in 0 .. 1 /\ locked' \in BOOLEAN
         /\ Waiting' /\ InPhase'
<1> DEFINE at == IF Null THEN Word ELSE period
<1>1. PICK e \in Int : e = Error(aux) /\ Near(e)
  BY AtUpdate DEF Trim
<1>2. PICK c \in Correction(e, err_ns) : period' = IF at - c < 0 THEN 0 ELSE at - c
  BY <1>1 DEF Trim
<1>3. /\ skipCycles = 0 /\ skipCycles' = 0 /\ err_ns' = e /\ arr' = (IF Null THEN arr ELSE period')
      /\ locked' = (rated /\ boot = "idle") /\ UNCHANGED <<rated, jumps>>
  BY <1>1 DEF Trim, SetAutoReload
<1>4. err_ns \in Int /\ period \in Nat /\ arr \in Nat /\ at \in Nat /\ L \in Nat
  BY TimerAssumption DEF TimerInv, Shape
<1> HIDE DEF at
<1>5. c \in Int
  BY <1>1, <1>2, <1>4, CorrectionIs
<1>6. period' \in Nat
  BY <1>2, <1>4, <1>5
<1>7. arr' \in Nat /\ err_ns' \in -Fine .. Fine /\ skipCycles' \in 0 .. 1 /\ jumps' \in 0 .. 1
  <2>1. e \in -Fine .. Fine
    BY <1>1, TimerAssumption DEF Near
  <2>2. arr' \in Nat
    BY <1>3, <1>4, <1>6
  <2>3. jumps' \in 0 .. 1 /\ 0 \in 0 .. 1
    BY <1>3 DEF TimerInv, Shape
  <2> QED BY <1>3, <2>1, <2>2, <2>3
<1>8. locked' \in BOOLEAN
  BY <1>3, Zenon
<1>9. Waiting'
  BY <1>3 DEF TimerInv, Waiting
<1>10. InPhase'
  <2> SUFFICES ASSUME Tracked PROVE InPhase'
    BY <1>3 DEF InPhase, Tracked, Running
  <2>1. rated /\ boot = "idle" /\ ~Null
    BY DEF TimerInv, Waiting, Tracked, Null
  <2>2. locked' /\ arr' = period' /\ at = period
    BY <1>3, <2>1 DEF at
  <2>3. Drift \in Int /\ period = L - 1 + Drift
    BY <1>4 DEF Drift
  <2>4. PICK d \in Int : d = Drift
    BY <2>3
  <2>5. PICK q \in Int : q = d - c
    BY <1>5
  <2>6. Settled(e, q)
    <3>1. Coming(e)
      BY <1>1, TrackedIsNear
    <3>2. CASE locked
      <4>1. Settled(err_ns, d) /\ e = err_ns + d
        BY <2>4, <3>1, <3>2 DEF Coming, TimerInv, InPhase, Trimmed
      <4>2. Settled(err_ns + d, d - c)
        BY <1>2, <1>4, <4>1, NextTrim
      <4> QED BY <2>5, <4>1, <4>2
    <3>3. CASE ~locked
      <4>1. err_ns = 0 /\ Small(d)
        BY <2>4, <3>3 DEF TimerInv, InPhase, Trimmed
      <4>2. 20 * e <= 2 * Fine + 20 /\ -20 * e <= 2 * Fine + 20
        BY <1>3, <3>1, <3>3 DEF Coming
      <4> QED BY <1>1, <1>2, <2>5, <4>1, <4>2, FirstTrim
    <3> QED BY <3>2, <3>3
  <2>7. q >= -Fine
    BY <1>1, <2>6, SettledIsNear
  <2>8. period' = L - 1 + q
    <3>1. at - c = L - 1 + q
      BY <1>4, <1>5, <2>2, <2>3, <2>4, <2>5
    <3> QED BY <1>2, <2>7, <3>1, TimerAssumption
  <2>9. arr' + 1 = L + q /\ 2 * (L + q) + Fine >= L /\ Drift' = q
    <3>1. arr' + 1 = L + q /\ Drift' = q
      BY <1>4, <2>2, <2>8 DEF Drift
    <3>2. 2 * (L + q) + Fine >= L
      BY <2>7, TimerAssumption
    <3> QED BY <3>1, <3>2
  <2>10. Trimmed'
    BY <1>3, <2>2, <2>6, <2>9 DEF Trimmed
  <2>11. PICK x \in Int : x = e + q
    OBVIOUS
  <2>12. Coming(x)'
    BY <1>3, <2>2, <2>9, <2>11 DEF Coming
  <2>13. skipCycles' = 0 => arr' = period'
    BY <2>2
  <2> QED BY <1>1, <1>7, <2>9, <2>10, <2>11, <2>12, <2>13, TurnBrings
<1> QED BY <1>3, <1>6, <1>7, <1>8, <1>9, <1>10

LEMMA IsrKeeps == TimerInv /\ Isr => TimerInv'
<1> SUFFICES ASSUME TimerInv, Isr PROVE TimerInv'
  OBVIOUS
<1>1. /\ toIsr = 0 /\ Update /\ uif' = FALSE /\ aux' = 0 /\ ccif' = FALSE
      /\ UNCHANGED <<D, toEdge, pos, mode, cnt, toIsr, boot, starts>>
  BY DEF Isr, signal, start
<1>2. Served'
  BY <1>1 DEF Served, Pending
<1>3. /\ arr' \in Nat /\ period' \in Nat /\ err_ns' \in -Fine .. Fine
      /\ skipCycles' \in 0 .. 1 /\ jumps' \in 0 .. 1 /\ locked' \in BOOLEAN
      /\ Waiting' /\ InPhase'
  <2>1. CASE uif
    <3>1. Skip \/ Jump \/ Trim
      BY <1>1, <2>1 DEF Update
    <3>2. ~uif' /\ UNCHANGED <<mode, cnt, pos, boot>>
      BY <1>1
    <3>3. CASE Skip
      BY <1>1, <2>1, <3>2, <3>3, SkipKeeps
    <3>4. CASE Jump
      BY <1>1, <2>1, <3>2, <3>4, JumpKeeps
    <3>5. CASE Trim
      BY <1>1, <2>1, <3>2, <3>5, TrimKeeps
    <3> QED BY <3>1, <3>3, <3>4, <3>5
  <2>2. CASE ~uif
    <3>1. UNCHANGED <<arr, period, skipCycles, err_ns, rated, locked, jumps>>
      BY <1>1, <2>2 DEF Update, ctrl, servo
    <3>2. Waiting'
      BY <1>1, <3>1 DEF TimerInv, Waiting
    <3>3. InPhase'
      <4> SUFFICES ASSUME Tracked PROVE InPhase'
        BY <1>1, <3>1 DEF InPhase, Tracked, Running
      <4>1. cnt <= arr + 1 /\ 2 * (arr + 1) + Fine >= L /\ (skipCycles = 0 => arr = period) /\ Trimmed
        BY DEF TimerInv, InPhase
      <4>2. PICK x \in Int : Meets(x)
        BY DEF TimerInv, InPhase
      <4>3. Coming(x)' /\ Trimmed'
        BY <3>1, <4>1, <4>2 DEF Meets, Coming, Drift, Trimmed, Settled, Within, Small
      <4>4. Meets(x)'
        BY <1>1, <2>2, <3>1, <4>2, <4>3 DEF Meets
      <4> QED BY <1>1, <3>1, <4>1, <4>3, <4>4 DEF InPhase
    <3> QED BY <3>1, <3>2, <3>3 DEF TimerInv, Shape
  <2> QED BY <2>1, <2>2
<1>4. uif' \in BOOLEAN /\ ccif' \in BOOLEAN
  BY <1>1, Zenon
<1>5. Shape'
  <2>1. 0 \in 0 .. L - 1
    BY TimerAssumption
  <2> QED BY <1>1, <1>3, <1>4, <2>1 DEF TimerInv, Shape
<1> QED BY <1>2, <1>3, <1>5 DEF TimerInv

\* The task is not on while an interrupt is pending, and it holds up a servo that has jumped
\* only by clearing it.
LEMMA TaskKeeps == TimerInv /\ Task => TimerInv'
<1> SUFFICES ASSUME TimerInv, Task PROVE TimerInv'
  OBVIOUS
<1>1. ~Pending /\ UNCHANGED <<D, toEdge, pos, cnt, uif, aux, ccif, toIsr>>
  BY DEF Task, Clear, StartOn, Point, Rate, Arm, Stop, timer, signal, flags
<1>2. Served'
  BY <1>1 DEF Served, Pending
<1>3. CASE Clear
  <2>1. /\ period' = 0 /\ skipCycles' = 0 /\ err_ns' = 0 /\ starts' = starts + 1
        /\ locked' = FALSE /\ jumps' = 0 /\ UNCHANGED <<mode, arr>>
    BY <1>3 DEF Clear, timer
  <2>2. locked' \in BOOLEAN
    BY <2>1, Zenon
  <2>3. Shape'
    <3>1. 0 \in -Fine .. Fine
      BY TimerAssumption
    <3> QED BY <1>1, <2>1, <2>2, <3>1 DEF TimerInv, Shape
  <2> QED BY <1>2, <2>1, <2>3 DEF TimerInv, Waiting, InPhase, Tracked
<1>4. CASE Point \/ Rate \/ Arm
  <2>1. boot # "idle" /\ jumps = 0
    BY <1>4 DEF Point, Rate, Arm, TimerInv, Waiting, Shape
  <2>2. /\ period' \in {period, Default} /\ arr' \in {arr, Default} /\ mode' \in {mode, "armed"}
        /\ UNCHANGED <<skipCycles, err_ns, starts, locked, jumps>>
    BY <1>4 DEF Point, Rate, Arm, timer, ctrl, servo
  <2>3. Shape'
    BY <1>1, <2>2, TimerAssumption DEF TimerInv, Shape
  <2> QED BY <1>2, <2>1, <2>2, <2>3 DEF TimerInv, Waiting, InPhase, Tracked
<1>5. CASE Stop
  <2>1. /\ mode' = "off" /\ locked' = FALSE
        /\ UNCHANGED <<arr, boot, period, skipCycles, err_ns, starts, rated, jumps>>
    BY <1>5 DEF Stop, start, ctrl
  <2>2. locked' \in BOOLEAN
    BY <2>1, Zenon
  <2>3. Shape'
    BY <1>1, <2>1, <2>2 DEF TimerInv, Shape
  <2>4. Waiting'
    BY <2>1 DEF TimerInv, Waiting
  <2> QED BY <1>2, <2>1, <2>3, <2>4 DEF TimerInv, InPhase, Tracked, Running
<1> QED BY <1>3, <1>4, <1>5 DEF Task, StartOn

LEMMA TimerStep == TimerInv /\ [Next]_vars => TimerInv'
<1> SUFFICES ASSUME TimerInv, [Next]_vars PROVE TimerInv'
  OBVIOUS
<1>1. CASE Advance
  BY <1>1, AdvanceKeeps
<1>2. CASE Roll
  BY <1>2, RollKeeps
<1>3. CASE Wrap
  BY <1>3, WrapKeeps
<1>4. CASE Edge
  BY <1>4, EdgeKeeps
<1>5. CASE Isr
  BY <1>5, IsrKeeps
<1>6. CASE Task
  BY <1>6, TaskKeeps
<1>7. CASE UNCHANGED vars
  <2>1. UNCHANGED <<D, toEdge, pos, mode, cnt, arr, uif, aux, ccif, toIsr, boot, period, skipCycles, err_ns,
                    starts, rated, locked, jumps>>
    BY <1>7 DEF vars, signal, timer, flags, start, ctrl, servo
  <2>2. Shape'
    BY <2>1 DEF TimerInv, Shape
  <2>3. Waiting' /\ Served'
    BY <2>1 DEF TimerInv, Waiting, Served, Running, Pending
  <2>4. InPhase'
    BY <2>1 DEF TimerInv, InPhase, Tracked, Running, Meets, Coming, Trimmed, Drift, Settled, Within, Small,
                Error
  <2> QED BY <2>2, <2>3, <2>4 DEF TimerInv
<1> QED BY <1>1, <1>2, <1>3, <1>4, <1>5, <1>6, <1>7 DEF Next, Clock

\* JumpsOnce (timersync_run_ctrl, timersync.c:229-275; timersync_start, 301-311): once a start
\* has returned, the turn that a jump sets has the phase of the clock, from any count, at
\* any default period, and whatever the interrupts in the middle of the start have left.
THEOREM OneJump == Spec => []JumpsOnce
<1>1. TimerInv => JumpsOnce
  BY DEF TimerInv, Shape, JumpsOnce
<1> QED BY TimerInitially, TimerStep, <1>1, PTL DEF Spec

\* StaysLocked (timersync_run_ctrl, timersync.c:277-287): a controller that has jumped, and
\* cuts its sums to integers, never trims itself out of its tolerance.
THEOREM NeverSwings == Spec => StaysLocked
<1>1. TimerInv /\ [Next]_vars
      => [locked /\ jumps > 0 /\ ~locked' => mode' = "off" \/ starts' # starts]_vars
  <2> SUFFICES ASSUME TimerInv, Next, locked, jumps > 0, ~locked' PROVE mode' = "off" \/ starts' # starts
    OBVIOUS
  <2>1. CASE Isr
    <3>1. uif /\ (Skip \/ Jump \/ Trim)
      BY <2>1 DEF Isr, Update, servo
    <3>2. Tracked
      BY <3>1 DEF TimerInv, Served, Pending, Tracked
    <3>3. ~Jump
      BY <3>1, <3>2, TrackedIsNear DEF Jump
    <3>4. ~Skip
      BY DEF Skip, servo
    <3>5. ~Trim
      BY <3>2 DEF Trim, TimerInv, Waiting
    <3> QED BY <3>1, <3>3, <3>4, <3>5
  <2>2. CASE Clear
    BY <2>2 DEF Clear, TimerInv, Shape
  <2>3. CASE Stop
    BY <2>3 DEF Stop
  <2>4. CASE Advance \/ Roll \/ Wrap \/ Edge \/ Point \/ Rate \/ Arm
    BY <2>4 DEF Advance, Roll, Wrap, Edge, Point, Rate, Arm, servo
  <2> QED BY <2>1, <2>2, <2>3, <2>4 DEF Next, Clock, Task, StartOn
<1> QED BY TimerInitially, TimerStep, <1>1, PTL DEF Spec, StaysLocked

-----------------------------------------------------------------------------
(* Captures. *)

\* Ticks since the last edge.
Since == D - toEdge

\* The periods of which two edges give an interval of half a second to one and a half.
Regular == \A s \in Signals : 2 * s[1] > L + 4 * Fine /\ 2 * s[1] < 3 * L - 4 * Fine

CaptShape ==
  /\ cap \in Nat /\ edgeAt \in 0 .. L - 1 /\ clean \in 0 .. 2 /\ prevAge \in 0 .. Old
  /\ prevNs \in Nat /\ delay \in Int /\ off \in Int /\ interval \in 0 .. 2 * L
  /\ torn \in BOOLEAN /\ fault \in BOOLEAN /\ rated \in BOOLEAN
  /\ boot \in {"idle", "cleared", "pointed", "rated"} /\ held \in 0 .. MaxHeld
  /\ locked => Running /\ skipCycles = 0
  /\ clean > 0 => locked /\ jumps > 0
  /\ Regular => 2 * D > L + 4 * Fine /\ 2 * D < 3 * L - 4 * Fine

\* What waits to be served is the last edge, of less than half a second ago.
Elapsed ==
  ccif => /\ toEdge <= D /\ 2 * (Since + toIsr) + Fine < L
          /\ edgeAt - pos + Since \in {0, L}

\* It was latched in this turn of the timer or in the one before.
Latched ==
  ccif /\ locked /\ jumps > 0 =>
    \/ cap <= cnt /\ cnt - cap = Since
    \/ uif /\ cap <= arr + 1 /\ cnt + (arr + 1) - cap = Since

\* A stamp less its edge's time: close to it, or to one of the two seconds before it.
NearOrOld(x) == Near(x) \/ Near(x + L) \/ Near(x + 2 * L)

LastServed == pos - Since - (IF ccif THEN D ELSE 0)
LastStamp ==
  Regular /\ clean > 0 /\ prevAge < Old => NearOrOld(prevNs - prevAge * L - LastServed)

IntervalIs ==
  Regular /\ clean = 2 /\ interval # 0 =>
    interval - D >= -2 * Fine /\ interval - D <= 2 * Fine

CaptInv == CaptShape /\ Elapsed /\ Latched /\ LastStamp /\ StampIsRight /\ IntervalIs

\* Arithmetic.
LEMMA Cancel ==
  ASSUME NEW a \in Int, NEW b \in Int, NEW t \in Nat \ {0}, a * t < b * t
  PROVE  a < b
OBVIOUS

LEMMA Distribute ==
  ASSUME NEW a \in Int, NEW b \in Int, NEW t \in Int
  PROVE  (a - b) * t = a * t - b * t /\ (a + b) * t = a * t + b * t /\ a * t \in Int
OBVIOUS

LEMMA NoMore ==
  ASSUME NEW a \in Int
  PROVE  0 + a = a
OBVIOUS

LEMMA NextSecond ==
  ASSUME NEW a \in Int, NEW t \in Int
  PROVE  (a + 1) * t = a * t + t /\ a * t \in Int
OBVIOUS

LEMMA Grows ==
  ASSUME NEW a \in Nat, NEW b \in Nat, NEW t \in Nat, a <= b
  PROVE  a * t <= b * t /\ t * a <= t * b
OBVIOUS

LEMMA DivIs ==
  ASSUME NEW m \in Nat, NEW t \in Nat \ {0}
  PROVE  m \div t \in Nat /\ (m \div t) * t <= m /\ m < (m \div t) * t + t
OBVIOUS

LEMMA ModSecond ==
  ASSUME NEW n \in Nat, n < L
  PROVE  n % L = n /\ (n - L) % L = n
BY TimerAssumption

\* A count in a turn that is q ticks too long is scaled by at most b ticks, down if the
\* turn is too long and up if it is too short.
LEMMA FractionIs ==
  ASSUME NEW n \in Nat, NEW p \in Nat, NEW q \in Int, q = p + 1 - L,
         n <= 4 * (p + 1), NEW b \in Nat, n * (IF q >= 0 THEN q ELSE -q) <= b * (p + 1)
  PROVE  /\ Fraction(n, p) \in Nat
         /\ q >= 0 => Fraction(n, p) <= n /\ Fraction(n, p) >= n - b
         /\ q < 0 => Fraction(n, p) >= n /\ Fraction(n, p) <= n + b
<1> DEFINE t == p + 1
           f == Fraction(n, p)
<1>1. t \in Nat \ {0} /\ L \in Nat /\ L = t - q
  BY TimerAssumption
<1>2. n * L \in Nat
  BY <1>1
<1>3. f \in Nat /\ f * t <= n * L /\ n * L < f * t + t
  <2>1. ~(100 * n > 429 * (p + 1))
    OBVIOUS
  <2>2. f = (n * L) \div t
    BY <2>1 DEF Fraction
  <2> QED BY <1>1, <1>2, <2>2, DivIs
<1>4. n * L = n * t - n * q /\ n * t \in Int /\ n * q \in Int
  <2>1. \A a, x, y \in Int : a * (x - y) = a * x - a * y
    OBVIOUS
  <2>2. t \in Int
    BY <1>1
  <2> QED BY <1>1, <2>1, <2>2
<1>5. f * t \in Int /\ b * t \in Int /\ f * t + t = (f + 1) * t /\ n * t + b * t = (n + b) * t
      /\ (n + b + 1) * t = n * t + b * t + t /\ (n + 1) * t = n * t + t
      /\ (f + b + 1) * t = f * t + b * t + t
  <2>1. \A x, y \in Int : (x + 1) * y = x * y + y
    OBVIOUS
  <2>2. \A x, y, z \in Int : (x + z) * y = x * y + z * y
    OBVIOUS
  <2> QED BY <1>1, <1>3, <2>1, <2>2
<1> HIDE DEF t, f
<1>6. CASE q >= 0
  <2>1. n * q <= b * t /\ n * q >= 0
    <3>1. n * q <= b * t
      BY <1>6 DEF t
    <3>2. q \in Nat
      BY <1>6
    <3> QED BY <3>1, <3>2
  <2>2. f * t < (n + 1) * t
    BY <1>1, <1>3, <1>4, <1>5, <2>1
  <2>3. n * t < (f + b + 1) * t
    BY <1>1, <1>3, <1>4, <1>5, <2>1
  <2>4. f < n + 1 /\ n < f + b + 1
    BY <1>1, <1>3, <2>2, <2>3, Cancel
  <2> QED BY <1>3, <1>6, <2>4 DEF f
<1>7. CASE q < 0
  <2>1. -(n * q) <= b * t /\ n * q <= 0
    <3>1. n * (-q) <= b * t
      BY <1>7 DEF t
    <3>2. -q \in Nat /\ n * (-q) = -(n * q) /\ n * (-q) >= 0
      BY <1>7
    <3> QED BY <1>4, <3>1, <3>2
  <2>2. n * t < (f + 1) * t
    BY <1>1, <1>3, <1>4, <1>5, <2>1
  <2>3. f * t < (n + b + 1) * t
    BY <1>1, <1>3, <1>4, <1>5, <2>1
  <2>4. n < f + 1 /\ f < n + b + 1
    BY <1>1, <1>3, <2>2, <2>3, Cancel
  <2> QED BY <1>3, <1>7, <2>4 DEF f
<1> QED BY <1>6, <1>7

LEMMA FractionAtMost ==
  ASSUME NEW n \in Nat, NEW p \in Nat, 10 * n <= 11 * (p + 1)
  PROVE  10 * Fraction(n, p) <= 11 * L
<1> DEFINE t == p + 1
           f == Fraction(n, p)
<1>1. t \in Nat \ {0} /\ L \in Nat /\ n * L \in Nat
  BY TimerAssumption
<1>2. f \in Nat /\ f * t <= n * L
  <2>1. ~(100 * n > 429 * (p + 1))
    OBVIOUS
  <2>2. f = (n * L) \div t
    BY <2>1 DEF Fraction
  <2> QED BY <1>1, <2>2, DivIs
<1>3. 10 * n <= 11 * t
  OBVIOUS
<1> HIDE DEF t, f
<1>4. ASSUME 11 * L + 1 <= 10 * f PROVE FALSE
  <2>1. (11 * L + 1) * t <= (10 * f) * t
    BY <1>1, <1>2, <1>4, Grows
  <2>2. (10 * n) * L <= (11 * t) * L
    BY <1>1, <1>3, Grows
  <2>3. (11 * L + 1) * t = 11 * (L * t) + t /\ L * t \in Int
    BY <1>1
  <2>4. (10 * f) * t = 10 * (f * t) /\ f * t \in Int
    BY <1>1, <1>2
  <2>5. (10 * n) * L = 10 * (n * L) /\ (11 * t) * L = 11 * (L * t)
    BY <1>1
  <2> QED BY <1>1, <1>2, <2>1, <2>2, <2>3, <2>4, <2>5
<1>5. 10 * f <= 11 * L
  BY <1>1, <1>2, <1>4
<1> QED BY <1>5 DEF f

\* A stamp is one of the seconds about its edge: the right one, or the one before, or, torn,
\* the one before that. For an edge that is served later than the tolerance it is the right
\* one, or, torn, the one before.
LEMMA SecondIs ==
  ASSUME NEW ns \in Nat, 10 * ns <= 11 * L, NEW s \in Nat, pos \in 0 .. L, 2 * s + Fine < L,
         NEW j \in {-L, 0, L}, Near(ns - (pos - s) - j), NEW ptp \in Fractions
  PROVE  LET x == ns - SecondsAgo(ns, ptp) * L - (pos - s)
         IN  NearOrOld(x) /\ (s > Fine => Near(IF ptp # pos THEN x + L ELSE x))
<1>1. SecondsAgo(ns, ptp) * L = IF ptp > ns THEN 0 ELSE L
  BY TimerAssumption DEF SecondsAgo
<1>2. CASE ptp = pos
  BY <1>1, <1>2, TimerAssumption DEF NearOrOld, Near
<1>3. CASE ptp # pos
  <2>1. ptp = 0 /\ pos = L
    BY <1>3 DEF Fractions
  <2>2. SecondsAgo(ns, ptp) * L = L
    BY <1>1, <2>1
  <2>3. j # L
    BY <2>1, TimerAssumption DEF Near
  <2> QED BY <1>3, <2>1, <2>2, <2>3, TimerAssumption DEF NearOrOld, Near
<1> QED BY <1>2, <1>3

LEMMA TurnIs ==
  ASSUME NEW p \in Int, NEW l \in Int
  PROVE  p + 1 - l \in Int /\ p + 1 = l + (p + 1 - l)
OBVIOUS

LEMMA Shorter ==
  ASSUME NEW p \in Int, NEW l \in Int, NEW c \in Int, NEW r \in Int, r = p - c
  PROVE  (p + 1 - l) - (r + 1 - l) = c
OBVIOUS

\* n of a ticks, where n is up to a tenth more than a, of an m that is a tenth less than b.
LEMMA ScaledBy ==
  ASSUME NEW n \in Nat, NEW a \in Nat, NEW m \in Nat, NEW b \in Nat,
         10 * n <= 11 * a, 11 * m <= 10 * b
  PROVE  n * m <= b * a
<1>1. (10 * n) * m <= (11 * a) * m /\ (11 * m) * a <= (10 * b) * a
  BY Grows
<1>2. (10 * n) * m = 10 * (n * m) /\ (11 * a) * m = (11 * m) * a /\ (10 * b) * a = 10 * (b * a)
  OBVIOUS
<1>3. n * m \in Int /\ b * a \in Int /\ (11 * a) * m \in Int
  OBVIOUS
<1> QED BY <1>1, <1>2, <1>3

\* A stamp that the length of the turn moved by x against its count.
Moved(x, q, b) == (q >= 0 => x <= 0 /\ x >= -b) /\ (q < 0 => x >= 0 /\ x <= b)

Size(q) == IF q >= 0 THEN q ELSE -q

\* In the turn that the stamp is scaled by.
LEMMA SameTurn ==
  ASSUME NEW e \in Int, NEW q \in Int, Settled(e, q), NEW x \in Int, Moved(x, q, Size(q))
  PROVE  Near(x - e)
BY TimerAssumption DEF Near, Settled, Within, Moved, Size

\* In the turn before it, of another length.
LEMMA OtherTurn ==
  ASSUME NEW e \in Int, NEW d \in Int, NEW q \in Int, Settled(e, d), Settled(e + d, q),
         21 * (d - q) <= 2 * e + 5 * d + 21, 2 * e + 5 * d <= 21 * (d - q) + 21,
         NEW b \in Nat, 10 * b <= 11 * Size(q) + 9, NEW x \in Int, Moved(x, q, b)
  PROVE  Near(x - e) /\ 10 * (L + d) <= 11 * (L + q)
BY TimerAssumption DEF Near, Settled, Within, Moved, Size

LEMMA TenthMore ==
  ASSUME NEW m \in Nat
  PROVE  \E b \in Nat : 11 * m <= 10 * b /\ 10 * b <= 11 * m + 9
<1> DEFINE b == (11 * m + 9) \div 10
<1>1. b \in Nat /\ 11 * m <= 10 * b /\ 10 * b <= 11 * m + 9
  OBVIOUS
<1> QED BY <1>1

\* What a turn that is trimmed begins and ends with.
LEMMA TrimIs ==
  ASSUME TimerInv, TimerInv', Update, uif, toIsr = 0, UNCHANGED mode, locked, locked', jumps > 0,
         skipCycles = 0
  PROVE  /\ err_ns \in Int /\ Drift \in Int /\ Drift' \in Int /\ Tracked
         /\ err_ns' = err_ns + Drift /\ Error(aux) = err_ns'
         /\ Settled(err_ns, Drift) /\ Settled(err_ns', Drift')
         /\ arr + 1 = L + Drift /\ arr' + 1 = L + Drift'
         /\ 21 * (Drift - Drift') <= 2 * err_ns + 5 * Drift + 21
         /\ 2 * err_ns + 5 * Drift <= 21 * (Drift - Drift') + 21
<1>1. Trim
  BY DEF Update, Skip, Jump
<1>2. Running /\ Tracked /\ ~Null
  BY AtUpdate DEF Tracked, TimerInv, Waiting, Null
<1>3. err_ns \in Int /\ period \in Nat /\ arr \in Nat /\ period' \in Nat /\ arr' \in Nat
  BY TimerAssumption DEF TimerInv, Shape
<1>4. Drift \in Int /\ Drift' \in Int /\ period + 1 = L + Drift /\ period' + 1 = L + Drift'
  <2>1. L \in Int /\ period \in Int /\ period' \in Int
    BY <1>3, TimerAssumption
  <2> QED BY <2>1, TurnIs DEF Drift
<1>5. PICK c \in Correction(Error(aux), err_ns) : period' = IF period - c < 0 THEN 0 ELSE period - c
  BY <1>1, <1>2 DEF Trim
<1>6. err_ns' = Error(aux) /\ arr' = period' /\ UNCHANGED jumps
  BY <1>1, <1>2 DEF Trim, SetAutoReload
<1>7. arr = period /\ Settled(err_ns, Drift)
  BY <1>2 DEF TimerInv, InPhase, Trimmed
<1>8. Error(aux) = err_ns + Drift
  <2>1. Coming(Error(aux))
    BY <1>2, TrackedIsNear
  <2> QED BY <2>1 DEF Coming
<1>9. Settled(err_ns', Drift')
  <2>1. Tracked'
    BY <1>2, <1>6 DEF Tracked, Running
  <2> QED BY <2>1 DEF TimerInv, InPhase, Trimmed
<1>10. c \in Int /\ 21 * c <= 2 * err_ns + 5 * Drift + 21 /\ 2 * err_ns + 5 * Drift <= 21 * c + 21
  <2>1. Error(aux) \in Int
    BY <1>3, <1>4, <1>8
  <2>2. c \in Int /\ LET n == 2 * Error(aux) + 3 * (Error(aux) - err_ns) IN 21 * c <= n + 21 /\ n <= 21 * c + 21
    BY <1>3, <1>5, <2>1, CorrectionIs
  <2> QED BY <1>3, <1>4, <1>8, <2>2
<1>11. period' = period - c
  <2>1. Drift' >= -Fine
    BY <1>3, <1>4, <1>6, <1>8, <1>9, SettledIsNear
  <2>2. period' # 0
    BY <1>4, <2>1, TimerAssumption
  <2> QED BY <1>3, <1>5, <1>10, <2>2
<1>12. Drift - Drift' = c
  <2>1. L \in Int /\ period \in Int /\ period' \in Int
    BY <1>3, TimerAssumption
  <2> QED BY <1>10, <1>11, <2>1, Shorter DEF Drift
<1> QED BY <1>2, <1>3, <1>4, <1>6, <1>7, <1>8, <1>9, <1>10, <1>12

\* An edge at y is stamped close to its time, in some second: when the turn it was
\* latched in is as long as the turn that the stamp is scaled by.
LEMMA ScaledSame ==
  ASSUME NEW n \in Nat, NEW p \in Nat, NEW q \in Int, NEW e \in Int, p + 1 = L + q, n <= p + 1,
         Settled(e, q), NEW y \in Int, NEW j \in {-L, 0, L}, y = n + e - j
  PROVE  Fraction(n, p) \in Nat /\ 10 * Fraction(n, p) <= 11 * L /\ Near(Fraction(n, p) - y - j)
<1> DEFINE f == Fraction(n, p)
           b == Size(q)
<1>1. b \in Nat /\ L \in Int
  BY TimerAssumption DEF Size
<1>2. n * b <= b * (p + 1)
  <2> HIDE DEF b
  <2>1. p + 1 \in Nat /\ n * b <= (p + 1) * b
    BY <1>1, Grows
  <2>2. (p + 1) * b = b * (p + 1)
    BY <1>1, <2>1
  <2> QED BY <2>1, <2>2
<1>3. q = p + 1 - L
  BY <1>1
<1>4. /\ f \in Nat
      /\ q >= 0 => f <= n /\ f >= n - b
      /\ q < 0 => f >= n /\ f <= n + b
  <2>1. n <= 4 * (p + 1)
    OBVIOUS
  <2> QED BY <1>1, <1>2, <1>3, <2>1, FractionIs DEF Size
<1>8. 10 * f <= 11 * L
  <2>1. 10 * n <= 11 * (p + 1)
    OBVIOUS
  <2> QED BY <2>1, FractionAtMost
<1> HIDE DEF f, b
<1>5. f - n \in Int /\ Moved(f - n, q, b)
  BY <1>1, <1>4 DEF Moved
<1>6. Near(f - n - e)
  BY <1>5, SameTurn DEF b
<1>7. f - y - j = f - n - e
  BY <1>1, <1>4
<1> QED BY <1>4, <1>6, <1>7, <1>8 DEF f

\* And when it is another one, trimmed meanwhile.
LEMMA ScaledOther ==
  ASSUME NEW n \in Nat, NEW p \in Nat, NEW q \in Int, NEW d \in Int, NEW e \in Int,
         p + 1 = L + q, n <= L + d, Settled(e, d), Settled(e + d, q),
         21 * (d - q) <= 2 * e + 5 * d + 21, 2 * e + 5 * d <= 21 * (d - q) + 21,
         NEW y \in Int, NEW j \in {-L, 0, L}, y = n + e - j
  PROVE  Fraction(n, p) \in Nat /\ 10 * Fraction(n, p) <= 11 * L /\ Near(Fraction(n, p) - y - j)
<1> DEFINE f == Fraction(n, p)
           m == Size(q)
<1>1. m \in Nat /\ L \in Int /\ p + 1 \in Nat
  BY TimerAssumption DEF Size
<1>2. PICK b \in Nat : 11 * m <= 10 * b /\ 10 * b <= 11 * m + 9
  BY <1>1, TenthMore
<1>3. 10 * (L + d) <= 11 * (L + q)
  <2>1. Moved(0, q, b)
    BY DEF Moved
  <2> QED BY <1>2, <2>1, OtherTurn
<1>10. 10 * n <= 11 * (p + 1)
  BY <1>1, <1>3
<1>4. n * m <= b * (p + 1)
  <2> HIDE DEF m
  <2> QED BY <1>1, <1>2, <1>10, ScaledBy
<1>5. q = p + 1 - L
  BY <1>1
<1>6. /\ f \in Nat
      /\ q >= 0 => f <= n /\ f >= n - b
      /\ q < 0 => f >= n /\ f <= n + b
  <2>1. n <= 4 * (p + 1)
    BY <1>10
  <2> QED BY <1>1, <1>4, <1>5, <2>1, FractionIs DEF Size
<1>11. 10 * f <= 11 * L
  BY <1>10, FractionAtMost
<1> HIDE DEF f
<1>7. f - n \in Int /\ Moved(f - n, q, b)
  BY <1>1, <1>6 DEF Moved
<1>8. Near(f - n - e)
  BY <1>2, <1>7, OtherTurn
<1>9. f - y - j = f - n - e
  BY <1>1, <1>6
<1> QED BY <1>6, <1>8, <1>9, <1>11 DEF f

LEMMA HalfLess ==
  ASSUME NEW x \in Int, NEW y \in Int, NEW l \in Int, 2 * x < l, 2 * y >= l
  PROVE  x <= y
OBVIOUS

\* The stamp of an edge is close to the edge's time, in some second.
LEMMA StampIs ==
  ASSUME TimerInv, TimerInv', CaptInv, Isr, ccif, locked, locked', jumps > 0
  PROVE  LET ns == Fraction(cap, arr') IN
         ns \in Nat /\ 10 * ns <= 11 * L /\ \E j \in {-L, 0, L} : Near(ns - (pos - Since) - j)
<1> DEFINE y == pos - Since
<1>1. /\ toIsr = 0 /\ Update /\ Running /\ skipCycles = 0
      /\ UNCHANGED <<pos, mode, cnt, toEdge, D>> /\ uif' = FALSE
  BY DEF Isr, CaptInv, CaptShape, signal
<1>2. /\ pos \in 0 .. L /\ cnt \in Nat /\ cap \in Nat /\ arr \in Nat /\ arr' \in Nat /\ err_ns \in Int
      /\ Since \in Nat /\ 2 * Since + Fine < L /\ L \in Nat /\ y \in Int
  BY <1>1, TimerAssumption DEF TimerInv, Shape, CaptInv, CaptShape, Elapsed, Since
<1> HIDE DEF y
<1>3. CASE ~uif
  <2>1. arr' = arr
    BY <1>1, <1>3 DEF Update
  <2>2. arr = period /\ cnt <= arr + 1 /\ Settled(err_ns, Drift) /\ \E x \in Int : Meets(x)
    BY <1>1, <1>3 DEF TimerInv, InPhase, Tracked, Trimmed
  <2>3. PICK q \in Int : q = Drift /\ arr + 1 = L + q
    BY <1>2, <2>2 DEF Drift
  <2>4. PICK x \in Int : Meets(x)
    BY <2>2
  <2>10. x = err_ns + q /\ pos + (arr + 1 - cnt) \in {x, x + L, x + 2 * L} /\ Settled(err_ns, q)
    BY <1>3, <2>2, <2>3, <2>4 DEF Meets, Coming
  <2>5. cap <= cnt /\ cnt - cap = Since
    BY <1>3 DEF CaptInv, Latched
  <2>6. cap <= arr + 1
    BY <1>2, <2>2, <2>5
  <2>7. \E j \in {-L, 0, L} : y = cap + err_ns - j
    BY <1>2, <2>2, <2>3, <2>5, <2>10 DEF y
  <2>8. PICK j \in {-L, 0, L} : y = cap + err_ns - j
    BY <2>7
  <2>9. /\ Fraction(cap, arr') \in Nat /\ 10 * Fraction(cap, arr') <= 11 * L
        /\ Near(Fraction(cap, arr') - y - j)
    BY <1>2, <2>1, <2>3, <2>6, <2>8, <2>10, ScaledSame
  <2> QED BY <2>9 DEF y
<1>4. CASE uif
  <2> DEFINE e == err_ns
             d == Drift
             q == Drift'
  <2>1. /\ e \in Int /\ d \in Int /\ q \in Int /\ err_ns' = e + d /\ Error(aux) = e + d
        /\ Settled(e, d) /\ Settled(e + d, q) /\ arr + 1 = L + d /\ arr' + 1 = L + q
        /\ 21 * (d - q) <= 2 * e + 5 * d + 21 /\ 2 * e + 5 * d <= 21 * (d - q) + 21
    BY <1>1, <1>4, TrimIs
  <2>2. 2 * cnt < L /\ pos - cnt - (e + d) \in {-L, 0, L}
    <3>1. 2 * cnt + Fine < L /\ cnt \in Nat /\ pos - cnt - Error(aux) \in {-L, 0, L}
      BY <1>1, <1>4, AtUpdate
    <3>2. 2 * cnt < L
      BY <3>1, TimerAssumption
    <3> QED BY <2>1, <3>1, <3>2, Zenon
  <2> HIDE DEF e, d, q
  <2>3. e + d \in Int /\ Near(e + d) /\ q >= -Fine
    <3>1. Near(e + d)
      BY <2>1, SettledIsNear
    <3>2. q >= -Fine
      BY <2>1, SettledIsNear
    <3> QED BY <2>1, <3>1, <3>2
  <2>4. CASE cap <= cnt /\ cnt - cap = Since
    <3>1. cap <= arr' + 1
      <4>1. 2 * cap < L
        BY <1>2, <2>2, <2>4
      <4>2. 2 * (L + q) >= L
        BY <2>1, <2>3, TimerAssumption
      <4>3. arr' + 1 \in Int /\ cap \in Int /\ L \in Int
        BY <1>2
      <4>4. arr' + 1 = L + q
        BY <2>1, Zenon
      <4>5. 2 * (arr' + 1) >= L
        BY <4>2, <4>4, Zenon
      <4> QED BY <4>1, <4>3, <4>5, HalfLess
    <3>2. \E j \in {-L, 0, L} : y = cap + (e + d) - j
      BY <1>2, <2>1, <2>2, <2>4 DEF y
    <3>3. PICK j \in {-L, 0, L} : y = cap + (e + d) - j
      BY <3>2
    <3>4. /\ Fraction(cap, arr') \in Nat /\ 10 * Fraction(cap, arr') <= 11 * L
          /\ Near(Fraction(cap, arr') - y - j)
      BY <1>2, <2>1, <2>3, <3>1, <3>3, ScaledSame
    <3> QED BY <3>4 DEF y
  <2>5. CASE cap <= arr + 1 /\ cnt + (arr + 1) - cap = Since
    <3>1. cap <= L + d
      BY <2>1, <2>5
    <3>2. \E k \in {-L, 0, L} : y = cap + e - (L - k)
      BY <1>2, <2>1, <2>2, <2>5 DEF y
    <3>3. PICK k \in {-L, 0, L} : y = cap + e - (L - k)
      BY <3>2
    <3>4. k # -L
      BY <1>2, <2>1, <2>3, <3>1, <3>3, TimerAssumption DEF Near, y
    <3>5. L - k \in {-L, 0, L}
      BY <1>2, <3>3, <3>4
    <3>6. /\ Fraction(cap, arr') \in Nat /\ 10 * Fraction(cap, arr') <= 11 * L
          /\ Near(Fraction(cap, arr') - y - (L - k))
      BY <1>2, <2>1, <3>1, <3>3, <3>5, ScaledOther
    <3> QED BY <3>5, <3>6 DEF y
  <2> QED BY <2>4, <2>5 DEF CaptInv, Latched
<1> QED BY <1>3, <1>4

LEMMA CaptInitially == Init => CaptInv
<1> SUFFICES ASSUME Init PROVE CaptInv
  OBVIOUS
<1> USE TimerAssumption
<1>1. /\ cap = 0 /\ edgeAt = 0 /\ clean = 0 /\ prevAge = 4 /\ prevNs = 0 /\ delay = 0 /\ off = 0
      /\ interval = 0 /\ locked = FALSE /\ ccif = FALSE /\ boot = "idle" /\ held = 0
      /\ torn = FALSE /\ fault = FALSE /\ rated = FALSE
  BY DEF Init, Old
<1>2. Regular => 2 * D > L + 4 * Fine /\ 2 * D < 3 * L - 4 * Fine
  <2>1. PICK s \in Signals : D = s[1]
    BY DEF Init
  <2> QED BY <2>1 DEF Regular
<1>3. CaptShape
  <2>1. torn \in BOOLEAN /\ fault \in BOOLEAN /\ rated \in BOOLEAN
    BY <1>1, Zenon
  <2> QED BY <1>1, <1>2, <2>1 DEF CaptShape, Old
<1> QED BY <1>1, <1>3 DEF CaptInv, Elapsed, Latched, LastStamp, StampIsRight, IntervalIs

\* What is known of the last interval and of the last stamp stays.
LEMMA ReportsStay ==
  ASSUME CaptInv, UNCHANGED <<D, clean, interval, delay, off, torn>>
  PROVE  StampIsRight' /\ IntervalIs'
BY DEF CaptInv, StampIsRight, IntervalIs, Regular

LEMMA AdvanceCapt ==
  ASSUME TimerInv, CaptInv, Advance
  PROVE  CaptInv'
<1> DEFINE n == Min(Due)
<1>1. n \in Int /\ n > 0 /\ n <= toEdge /\ n <= L - pos
  BY FirstDue DEF TimerInv, Advance
<1>2. /\ toEdge' = toEdge - n /\ pos' = pos + n
      /\ cnt' = (IF Counting THEN cnt + n ELSE cnt)
      /\ toIsr' = (IF Pending THEN toIsr - n ELSE toIsr)
      /\ UNCHANGED <<D, mode, arr, uif, ccif, cap, boot, held, skipCycles, fault, prevAge, prevNs,
                     interval, edgeAt, delay, off, torn, rated, locked, jumps, clean>>
  BY DEF Advance, start, ctrl, stamp, truth, servo
<1> HIDE DEF n
<1>3. /\ D \in Int /\ toEdge \in Int /\ pos \in Int /\ cnt \in Int /\ toIsr \in Int /\ L \in Int
      /\ edgeAt \in Int /\ cap \in Int /\ arr \in Int /\ Since \in Int
  BY TimerAssumption DEF TimerInv, Shape, CaptInv, CaptShape, Since
<1>4. Since' = Since + n /\ pos' - Since' = pos - Since
  BY <1>1, <1>2, <1>3 DEF Since
<1>5. CaptShape'
  BY <1>2 DEF CaptInv, CaptShape, Running, Regular
<1>6. Elapsed'
  <2> SUFFICES ASSUME ccif PROVE Elapsed'
    BY <1>2 DEF Elapsed
  <2>1. toIsr' = toIsr - n /\ toEdge <= D /\ 2 * (Since + toIsr) + Fine < L /\ edgeAt - pos + Since \in {0, L}
    BY <1>2 DEF Pending, CaptInv, Elapsed
  <2>2. Since' + toIsr' = Since + toIsr /\ edgeAt - pos' + Since' = edgeAt - pos + Since /\ toEdge' <= D
    BY <1>1, <1>2, <1>3, <1>4, <2>1
  <2> QED BY <1>2, <2>1, <2>2 DEF Elapsed
<1>7. Latched'
  <2> SUFFICES ASSUME ccif, locked, jumps > 0 PROVE Latched'
    BY <1>2 DEF Latched
  <2>1. cnt' = cnt + n
    <3>1. Tracked
      BY DEF CaptInv, CaptShape, Tracked
    <3>2. 2 * (arr + 1) + Fine >= L
      BY <3>1 DEF TimerInv, InPhase
    <3>3. arr > 0
      BY <1>3, <3>2, TimerAssumption
    <3> QED BY <1>2, <3>1, <3>3 DEF Counting, Tracked
  <2>2. \/ cap <= cnt /\ cnt - cap = Since
        \/ uif /\ cap <= arr + 1 /\ cnt + (arr + 1) - cap = Since
    BY DEF CaptInv, Latched
  <2>3. \/ cap <= cnt' /\ cnt' - cap = Since'
        \/ uif /\ cap <= arr + 1 /\ cnt' + (arr + 1) - cap = Since'
    BY <1>1, <1>3, <1>4, <2>1, <2>2
  <2> QED BY <1>2, <2>3 DEF Latched
<1>8. LastStamp'
  <2>1. LastServed' = LastServed
    BY <1>2, <1>4 DEF LastServed
  <2> QED BY <1>2, <2>1 DEF CaptInv, LastStamp, NearOrOld, Near, Regular
<1> QED BY <1>2, <1>5, <1>6, <1>7, <1>8, ReportsStay DEF CaptInv

LEMMA LeastOfTwo ==
  ASSUME NEW m \in Nat, NEW h \in 0 .. m
  PROVE  Min({h + 1, m}) \in 0 .. m
<1>1. \E x \in {h + 1, m} : \A y \in {h + 1, m} : x <= y
  OBVIOUS
<1>2. Min({h + 1, m}) \in {h + 1, m} /\ \A y \in {h + 1, m} : Min({h + 1, m}) <= y
  BY <1>1 DEF Min
<1> QED BY <1>2

LEMMA RollCapt ==
  ASSUME TimerInv, CaptInv, Roll
  PROVE  CaptInv'
<1>1. /\ pos = L /\ pos' = 0 /\ mode' = (IF mode = "armed" THEN "on" ELSE mode)
      /\ prevAge' = (IF prevAge < Old THEN prevAge + 1 ELSE Old)
      /\ held' = (IF boot = "idle" THEN 0 ELSE Min({held + 1, MaxHeld}))
      /\ UNCHANGED <<D, toEdge, cnt, arr, uif, ccif, cap, toIsr, boot, skipCycles, fault, prevNs,
                     interval, edgeAt, delay, off, torn, rated, locked, jumps, clean>>
  BY DEF Roll, signal, flags, ctrl, truth, servo
<1>2. /\ D \in Int /\ toEdge \in Int /\ toIsr \in Nat /\ L \in Nat \ {0} /\ prevNs \in Int
      /\ edgeAt \in 0 .. L - 1 /\ prevAge \in 0 .. Old /\ Old = 4
  BY TimerAssumption DEF TimerInv, Shape, CaptInv, CaptShape, Old
<1>3. Since' = Since /\ Since \in Int
  BY <1>1, <1>2 DEF Since
<1>4. CaptShape'
  <2>1. held' \in 0 .. MaxHeld
    <3>1. held \in 0 .. MaxHeld /\ MaxHeld \in Nat
      BY TimerAssumption DEF CaptInv, CaptShape
    <3>2. Min({held + 1, MaxHeld}) \in 0 .. MaxHeld
      BY <3>1, LeastOfTwo
    <3> QED BY <1>1, <3>1, <3>2
  <2>2. mode = "on" => mode' = "on"
    BY <1>1
  <2>3. prevAge' \in 0 .. Old
    BY <1>1, <1>2
  <2> QED BY <1>1, <2>1, <2>2, <2>3 DEF CaptInv, CaptShape, Running, Regular
<1>5. Elapsed'
  <2> SUFFICES ASSUME ccif PROVE Elapsed'
    BY <1>1 DEF Elapsed
  <2>1. toEdge <= D /\ 2 * (Since + toIsr) + Fine < L /\ edgeAt - L + Since \in {0, L}
    BY <1>1 DEF CaptInv, Elapsed
  <2>2. edgeAt - 0 + Since = L
    BY <1>2, <1>3, <2>1, TimerAssumption
  <2> QED BY <1>1, <1>3, <2>1, <2>2 DEF Elapsed
<1>6. Latched'
  BY <1>1, <1>3 DEF CaptInv, Latched
<1>7. LastStamp'
  <2> SUFFICES ASSUME Regular, clean > 0, prevAge' < Old
               PROVE  NearOrOld(prevNs - prevAge' * L - LastServed')
    BY <1>1 DEF LastStamp, NearOrOld, Near, Regular
  <2>1. prevAge < Old /\ prevAge' = prevAge + 1
    BY <1>1, <1>2
  <2>2. prevAge' * L = prevAge * L + L /\ prevAge * L \in Int
    BY <1>2, <2>1, NextSecond
  <2>3. LastServed' = LastServed - L /\ LastServed \in Int
    BY <1>1, <1>2, <1>3 DEF LastServed
  <2>4. prevNs - prevAge' * L - LastServed' = prevNs - prevAge * L - LastServed
    BY <1>2, <2>2, <2>3
  <2> QED BY <2>1, <2>4 DEF CaptInv, LastStamp
<1> QED BY <1>1, <1>4, <1>5, <1>6, <1>7, ReportsStay DEF CaptInv

LEMMA WrapCapt ==
  ASSUME TimerInv, CaptInv, Wrap
  PROVE  CaptInv'
<1>1. /\ Running /\ cnt' = 0 /\ uif' = TRUE /\ Raise
      /\ UNCHANGED <<D, toEdge, pos, mode, arr, ccif, cap, boot, held, skipCycles, fault, prevAge,
                     prevNs, interval, edgeAt, delay, off, torn, rated, locked, jumps, clean>>
  BY DEF Wrap, Counting, signal, start, ctrl, stamp, truth, servo
<1>2. cap \in Int /\ arr \in Int /\ cnt \in Int
  BY DEF TimerInv, Shape, CaptInv, CaptShape
<1>3. Since' = Since
  BY <1>1 DEF Since
<1>4. CaptShape'
  BY <1>1 DEF CaptInv, CaptShape, Running, Regular
<1>5. ccif => toIsr' = toIsr
  BY <1>1 DEF Raise, Pending
<1>6. Elapsed'
  BY <1>1, <1>3, <1>5 DEF CaptInv, Elapsed
<1>7. Latched'
  <2> SUFFICES ASSUME ccif, locked, jumps > 0 PROVE Latched'
    BY <1>1 DEF Latched
  <2>1. ~uif /\ cnt = arr + 1
    BY <1>1, WrapOnce DEF Tracked
  <2>2. cap <= cnt /\ cnt - cap = Since
    BY <2>1 DEF CaptInv, Latched
  <2>3. cap <= arr + 1 /\ 0 + (arr + 1) - cap = Since
    BY <1>2, <2>1, <2>2
  <2> QED BY <1>1, <1>3, <2>3 DEF Latched
<1>8. LastStamp'
  BY <1>1, <1>3 DEF CaptInv, LastStamp, LastServed, NearOrOld, Near, Regular
<1> QED BY <1>1, <1>4, <1>6, <1>7, <1>8, ReportsStay DEF CaptInv

LEMMA EdgeCapt ==
  ASSUME TimerInv, CaptInv, Edge
  PROVE  CaptInv'
<1>1. /\ toEdge = 0 /\ pos < L /\ toEdge' = D
      /\ UNCHANGED <<D, pos, mode, cnt, arr, uif, boot, held, skipCycles, fault, prevAge, prevNs,
                     interval, delay, off, torn, rated, locked, jumps, clean>>
      /\ IF Running THEN ccif' = TRUE /\ cap' = cnt /\ edgeAt' = pos /\ Raise
         ELSE UNCHANGED <<ccif, cap, edgeAt, toIsr>>
  BY DEF Edge, timer, start, ctrl, stamp, servo
<1>2. D \in Nat \ {0} /\ cnt \in Nat /\ pos \in 0 .. L /\ toIsr \in Nat /\ L \in Nat /\ edgeAt \in Int
  BY TimerAssumption DEF TimerInv, Shape, CaptInv, CaptShape
<1>3. Since = D /\ Since' = 0
  BY <1>1, <1>2 DEF Since
<1>4. CaptShape'
  BY <1>1, <1>2 DEF CaptInv, CaptShape, Running, Regular
<1>5. CASE Running
  <2>1. ccif' = TRUE /\ cap' = cnt /\ edgeAt' = pos /\ Raise
    BY <1>1, <1>5
  <2>2. toIsr' \in Nat /\ 2 * toIsr' + Fine < L
    <3>1. CASE Pending
      <4>1. PICK n \in Latencies : toIsr <= n
        BY <3>1 DEF TimerInv, Served
      <4>2. n \in Nat /\ 2 * n + Fine < L
        BY <4>1, TimerAssumption
      <4>3. toIsr' = toIsr
        BY <2>1, <3>1 DEF Raise
      <4> QED BY <1>2, <4>1, <4>2, <4>3, TimerAssumption
    <3>2. CASE ~Pending
      BY <2>1, <3>2, TimerAssumption DEF Raise
    <3> QED BY <3>1, <3>2
  <2>3. Elapsed'
    <3>1. toEdge' <= D' /\ edgeAt' = pos'
      BY <1>1, <1>2, <2>1
    <3>2. edgeAt' - pos' + Since' = 0
      BY <1>1, <1>2, <1>3, <2>1
    <3>3. Since' + toIsr' = toIsr'
      <4>1. toIsr' \in Int /\ Since' = 0
        BY <1>3, <2>2
      <4>2. 0 + toIsr' = toIsr'
        BY <4>1, NoMore
      <4> QED BY <4>1, <4>2, Zenon
    <3>4. 2 * (Since' + toIsr') + Fine < L
      BY <2>2, <3>3, Zenon
    <3> QED BY <3>1, <3>2, <3>4 DEF Elapsed
  <2>4. Latched'
    BY <1>1, <1>2, <1>3, <2>1 DEF Latched
  <2>5. LastStamp'
    <3>1. Regular /\ ccif => FALSE
      <4> SUFFICES ASSUME Regular, ccif PROVE FALSE
        OBVIOUS
      <4>1. 2 * (Since + toIsr) + Fine < L
        BY DEF CaptInv, Elapsed
      <4>2. 2 * D > L + 4 * Fine /\ Fine \in Nat
        BY TimerAssumption DEF CaptInv, CaptShape
      <4> QED BY <1>2, <1>3, <4>1, <4>2
    <3>2. ~ccif => LastServed' = LastServed
      BY <1>1, <1>2, <1>3, <2>1 DEF LastServed
    <3> QED BY <1>1, <3>1, <3>2 DEF CaptInv, LastStamp, NearOrOld, Near, Regular
  <2> QED BY <1>1, <1>4, <2>3, <2>4, <2>5, ReportsStay DEF CaptInv
<1>6. CASE ~Running
  <2>1. ~ccif /\ ~ccif'
    BY <1>1, <1>6 DEF TimerInv, Served, Pending
  <2>2. ~(clean > 0) /\ clean' = clean
    BY <1>1, <1>6 DEF CaptInv, CaptShape
  <2> QED BY <1>1, <1>4, <2>1, <2>2, ReportsStay DEF CaptInv, Elapsed, Latched, LastStamp
<1> QED BY <1>5, <1>6

LEMMA TaskCapt ==
  ASSUME TimerInv, CaptInv, Task
  PROVE  CaptInv'
<1>1. /\ ~Pending
      /\ UNCHANGED <<D, toEdge, pos, cnt, uif, ccif, cap, toIsr, fault, prevAge, prevNs, interval, edgeAt,
                     delay, off, torn>>
  BY DEF Task, Clear, StartOn, Point, Rate, Arm, Stop, signal, timer, flags, ctrl, stamp, truth
<1>2. ~ccif'
  BY <1>1 DEF Pending
<1>3. clean' = 0 /\ (clean' > 0 => locked' /\ jumps' > 0)
  <2>1. CASE Clear \/ Stop
    BY <2>1 DEF Clear, Stop
  <2>2. CASE Point \/ Rate \/ Arm
    <3>1. jumps = 0
      BY <2>2 DEF Point, Rate, Arm, TimerInv, Waiting, Shape
    <3>2. clean = 0
      BY <3>1 DEF CaptInv, CaptShape
    <3> QED BY <2>2, <3>2 DEF Point, Rate, Arm
  <2> QED BY <2>1, <2>2 DEF Task, StartOn
<1>4. locked' => Running' /\ skipCycles' = 0
  <2>1. CASE Clear \/ Stop
    BY <2>1 DEF Clear, Stop
  <2>2. CASE Point \/ Rate \/ Arm
    <3>1. UNCHANGED <<locked, skipCycles>> /\ (mode = "on" => mode' = "on")
      BY <2>2 DEF Point, Rate, Arm, timer, ctrl, servo, Running
    <3> QED BY <3>1 DEF CaptInv, CaptShape, Running
  <2> QED BY <2>1, <2>2 DEF Task, StartOn
<1>5. rated' \in BOOLEAN
  <2>1. rated' = rated \/ rated' = FALSE
    BY DEF Task, Clear, StartOn, Point, Rate, Arm, Stop, servo
  <2> QED BY <2>1, Zenon DEF CaptInv, CaptShape
<1>6. boot' \in {"idle", "cleared", "pointed", "rated"} /\ held' \in 0 .. MaxHeld
  <2>1. 0 \in 0 .. MaxHeld
    BY TimerAssumption
  <2>2. held' = held \/ held' = 0
    BY DEF Task, Clear, StartOn, Point, Rate, Arm, Stop, start
  <2>3. boot' \in {boot, "idle", "cleared", "pointed", "rated"}
    BY DEF Task, Clear, StartOn, Point, Rate, Arm, Stop, start
  <2> QED BY <2>1, <2>2, <2>3 DEF CaptInv, CaptShape
<1>7. CaptShape'
  BY <1>1, <1>3, <1>4, <1>5, <1>6 DEF CaptInv, CaptShape, Regular
<1> QED BY <1>1, <1>2, <1>3, <1>7 DEF CaptInv, Elapsed, Latched, LastStamp, StampIsRight, IntervalIs

\* What the interrupt leaves of the servo.
LEMMA UpdateLocks ==
  ASSUME TimerInv, CaptInv, Isr
  PROVE  /\ locked' => Running' /\ skipCycles' = 0 /\ jumps' = jumps
         /\ fault' \in BOOLEAN /\ rated' \in BOOLEAN /\ UNCHANGED <<boot, held>>
<1>1. Running' = Running /\ Running /\ Update /\ UNCHANGED <<boot, held>>
  BY DEF Isr, Running, TimerInv, Served, start
<1>2. (locked => skipCycles = 0) /\ fault \in BOOLEAN /\ rated \in BOOLEAN
  BY DEF CaptInv, CaptShape
<1>3. fault' \in {fault, FALSE, Null} /\ Null \in BOOLEAN
  BY <1>1 DEF Update, Skip, Jump, Trim, SetAutoReload, ctrl, Null
<1>4. rated' = rated \/ rated' = TRUE
  BY <1>1 DEF Update, Skip, Jump, Trim, servo
<1>5. fault' \in BOOLEAN /\ rated' \in BOOLEAN
  BY <1>2, <1>3, <1>4, Zenon
<1>6. locked' => skipCycles' = 0 /\ jumps' = jumps
  <2> SUFFICES ASSUME locked' PROVE skipCycles' = 0 /\ jumps' = jumps
    OBVIOUS
  <2>1. CASE uif /\ Skip
    <3>1. locked /\ skipCycles > 0
      BY <2>1 DEF Skip, servo
    <3> QED BY <1>2, <3>1
  <2>2. CASE uif /\ Jump
    BY <2>2 DEF Jump
  <2>3. CASE uif /\ Trim
    BY <2>3 DEF Trim
  <2>4. CASE ~uif
    BY <1>1, <1>2, <2>4 DEF Update, ctrl, servo
  <2> QED BY <1>1, <2>1, <2>2, <2>3, <2>4 DEF Update
<1> QED BY <1>1, <1>5, <1>6

\* The interrupt without an edge.
LEMMA UpdateCapt ==
  ASSUME TimerInv, TimerInv', CaptInv, Isr, ~ccif
  PROVE  CaptInv'
<1>1. /\ ~ccif' /\ clean' = (IF locked' THEN clean ELSE 0) /\ cap' = 0 /\ edgeAt' = 0
      /\ UNCHANGED <<D, toEdge, pos, prevAge, prevNs, interval, delay, off, torn>>
  BY DEF Isr, Capture, signal, stamp
<1>2. clean \in 0 .. 2 /\ (clean' = clean \/ clean' = 0)
  BY <1>1 DEF CaptInv, CaptShape
<1>3. clean' > 0 => locked' /\ jumps' > 0
  <2> SUFFICES ASSUME clean' > 0 PROVE locked' /\ jumps' > 0
    OBVIOUS
  <2>1. locked' /\ clean > 0
    BY <1>1
  <2> QED BY <2>1, UpdateLocks DEF CaptInv, CaptShape
<1>4. CaptShape'
  <2>1. 0 \in 0 .. L - 1 /\ 0 \in Nat /\ clean' \in 0 .. 2
    BY <1>2, TimerAssumption
  <2>2. (locked' => Running' /\ skipCycles' = 0) /\ fault' \in BOOLEAN /\ rated' \in BOOLEAN
        /\ UNCHANGED <<boot, held>>
    BY UpdateLocks
  <2> QED BY <1>1, <1>3, <2>1, <2>2 DEF CaptInv, CaptShape, Regular
<1>5. LastServed' = LastServed
  BY <1>1 DEF LastServed, Since
<1>6. LastStamp'
  BY <1>1, <1>2, <1>5 DEF CaptInv, LastStamp, NearOrOld, Near, Regular
<1>7. StampIsRight' /\ IntervalIs'
  BY <1>1, <1>2 DEF CaptInv, StampIsRight, IntervalIs, Regular
<1> QED BY <1>1, <1>4, <1>6, <1>7 DEF CaptInv, Elapsed, Latched

\* Which second the edge was in.
LEMMA EdgeSecond ==
  ASSUME NEW p \in 0 .. L, NEW s \in Nat, 2 * s < L, NEW e \in 0 .. L - 1, e - p + s \in {0, L}
  PROVE  /\ (p - e) % L = s
         /\ e = p - s + (IF e > p THEN L ELSE 0)
<1>1. CASE e - p + s = 0
  <2>1. p - e = s /\ ~(e > p) /\ s < L
    BY <1>1, TimerAssumption
  <2> QED BY <2>1, ModSecond
<1>2. CASE e - p + s = L
  <2>1. p - e = s - L /\ e > p /\ s < L
    BY <1>2, TimerAssumption
  <2> QED BY <2>1, ModSecond, TimerAssumption
<1> QED BY <1>1, <1>2

LEMMA NoOrOne ==
  ASSUME NEW l \in Int, NEW a \in {0, 1}, NEW b \in {0, 1}
  PROVE  (a - b) * l = (IF a = 0 THEN 0 ELSE l) - (IF b = 0 THEN 0 ELSE l)
         /\ b * l = IF b = 0 THEN 0 ELSE l
OBVIOUS

\* Two stamps that are close to their edges' times, or to a second before, and as far apart as an
\* interval that is accepted: both are in the right second, or both in the one before.
LEMMA IntervalTrue ==
  ASSUME NEW x \in Int, NEW y \in Int, NearOrOld(x), NearOrOld(y), NEW d \in Int,
         2 * d > L + 4 * Fine, 2 * d < 3 * L - 4 * Fine, Accepted(x - y + d)
  PROVE  x - y >= -2 * Fine /\ x - y <= 2 * Fine
BY TimerAssumption DEF NearOrOld, Near, Accepted

LEMMA FractionNat ==
  ASSUME NEW n \in Nat, NEW p \in Nat
  PROVE  Fraction(n, p) \in Nat
<1>1. n * L \in Nat /\ p + 1 \in Nat \ {0} /\ 429 * L \in Nat /\ 100 \in Nat \ {0}
  BY TimerAssumption
<1>2. (n * L) \div (p + 1) \in Nat /\ (429 * L) \div 100 \in Nat
  BY <1>1, DivIs
<1> QED BY <1>2, Zenon DEF Fraction

LEMMA OffIs ==
  ASSUME NEW p \in Int, NEW s \in Int, NEW y \in Int, NEW b \in Int, NEW n \in Int, NEW e, e = p - s + y,
         NEW a, a = y - b
  PROVE  a + n - e = n - b - (p - s)
OBVIOUS

\* The interrupt with an edge.
LEMMA CaptureCapt ==
  ASSUME TimerInv, TimerInv', CaptInv, Isr, ccif
  PROVE  CaptInv'
<1>16. PICK ptp \in Fractions : Capture(ptp)
  BY DEF Isr
<1> DEFINE ns == Fraction(cap, arr')
           ago == SecondsAgo(ns, ptp)
           late == IF edgeAt > pos THEN 1 ELSE 0
           x == ns - ago * L - (pos - Since)
           dt == (prevAge - ago) * L + ns - prevNs
<1>1. /\ interval' = (IF prevAge < Old /\ Accepted(dt) THEN dt ELSE 0)
      /\ prevAge' = ago /\ prevNs' = ns
      /\ delay' = (pos - edgeAt) % L
      /\ off' = (late - ago) * L + ns - edgeAt
      /\ torn' = (ptp # pos)
      /\ clean' = (IF locked' /\ locked /\ jumps > 0 THEN (IF clean < 2 THEN clean + 1 ELSE 2) ELSE 0)
      /\ UNCHANGED <<D, toEdge, pos>> /\ cap' = 0 /\ edgeAt' = 0 /\ ccif' = FALSE /\ uif' = FALSE
  BY <1>16 DEF Isr, Capture, signal
<1>2. /\ pos \in 0 .. L /\ Since \in Nat /\ 2 * Since + Fine < L /\ 2 * Since < L /\ edgeAt \in 0 .. L - 1 /\ L \in Nat \ {0}
      /\ edgeAt - pos + Since \in {0, L} /\ cap \in Nat /\ arr' \in Nat /\ clean \in 0 .. 2
      /\ prevAge \in 0 .. Old /\ prevNs \in Nat /\ Old = 4 /\ D \in Int
  <2>1. toEdge <= D /\ toEdge \in Nat /\ D \in Nat /\ 2 * (Since + toIsr) + Fine < L /\ toIsr \in Nat
        /\ edgeAt - pos + Since \in {0, L}
    BY DEF TimerInv, Shape, CaptInv, Elapsed
  <2>2. Since \in Nat
    BY <2>1 DEF Since
  <2>3. 2 * Since + Fine < L /\ 2 * Since < L
    BY <2>1, <2>2, TimerAssumption
  <2> QED BY <2>1, <2>2, <2>3, TimerAssumption DEF TimerInv, Shape, CaptInv, CaptShape, Old
<1>3. ns \in Nat
  BY <1>2, FractionNat
<1>4. ago \in {0, 1} /\ late \in {0, 1}
  BY DEF SecondsAgo
<1> HIDE DEF ns, ago
<1>5. ago * L = (IF ago = 0 THEN 0 ELSE L) /\ (late - ago) * L = (IF late = 0 THEN 0 ELSE L) - ago * L
  BY <1>2, <1>4, NoOrOne
<1> DEFINE back == IF ago = 0 THEN 0 ELSE L
<1>6. back \in Int /\ ago * L = back
  BY <1>2, <1>5
<1> HIDE DEF back
<1>7. delay' = Since /\ edgeAt = pos - Since + (IF edgeAt > pos THEN L ELSE 0)
  BY <1>1, <1>2, EdgeSecond
<1>8. off' = x /\ x \in Int
  <2>1. (late - ago) * L = (IF edgeAt > pos THEN L ELSE 0) - back
    BY <1>2, <1>5, <1>6
  <2>2. x = ns - back - (pos - Since)
    BY <1>6
  <2> DEFINE y == IF edgeAt > pos THEN L ELSE 0
             a == (late - ago) * L
  <2>3. y \in Int /\ a = y - back /\ edgeAt = pos - Since + y /\ off' = a + ns - edgeAt
    BY <1>1, <1>2, <1>7, <2>1
  <2> HIDE DEF x, y, a
  <2>4. off' = ns - back - (pos - Since)
    BY <1>2, <1>3, <1>6, <2>3, OffIs
  <2> QED BY <1>2, <1>3, <1>6, <2>2, <2>4
<1>9. ASSUME clean' > 0
      PROVE  NearOrOld(x) /\ (Since > Fine => Near(IF ptp # pos THEN x + L ELSE x))
  <2>1. locked /\ locked' /\ jumps > 0
    BY <1>1, <1>9
  <2>2. 10 * ns <= 11 * L /\ \E j \in {-L, 0, L} : Near(ns - (pos - Since) - j)
    BY <2>1, StampIs DEF ns
  <2>3. PICK j \in {-L, 0, L} : Near(ns - (pos - Since) - j)
    BY <2>2
  <2> QED BY <1>2, <1>3, <2>2, <2>3, SecondIs DEF ago
<1>10. dt \in Int /\ dt = x - (prevNs - prevAge * L - (pos - Since - D)) + D
       /\ prevAge * L \in Int
  <2>1. (prevAge - ago) * L = prevAge * L - ago * L /\ prevAge * L \in Int
    BY <1>2, <1>4, Distribute
  <2> HIDE DEF x
  <2>2. x = ns - back - (pos - Since)
    BY <1>6 DEF x
  <2> QED BY <1>2, <1>3, <1>6, <2>1, <2>2
<1> HIDE DEF x, dt, late
<1>11. CaptShape'
  <2>1. clean' \in 0 .. 2 /\ (clean' > 0 => locked' /\ jumps' > 0)
    BY <1>1, <1>2, UpdateLocks
  <2>2. interval' \in 0 .. 2 * L
    BY <1>1, <1>2, <1>10 DEF Accepted
  <2>3. prevNs' \in Nat /\ prevAge' \in 0 .. Old /\ delay' \in Int /\ off' \in Int
        /\ cap' \in Nat /\ edgeAt' \in 0 .. L - 1
    BY <1>1, <1>2, <1>3, <1>4, <1>7, <1>8
  <2>5. torn' \in BOOLEAN
    BY <1>1, Zenon
  <2>6. (locked' => Running' /\ skipCycles' = 0) /\ fault' \in BOOLEAN /\ rated' \in BOOLEAN
        /\ UNCHANGED <<boot, held>>
    BY UpdateLocks
  <2>4. Regular => 2 * D' > L + 4 * Fine /\ 2 * D' < 3 * L - 4 * Fine
    BY <1>1 DEF CaptInv, CaptShape
  <2> QED BY <2>1, <2>2, <2>3, <2>4, <2>5, <2>6 DEF CaptInv, CaptShape, Regular
<1>12. LastServed' = pos - Since
  <2>1. pos' = pos /\ Since' = Since /\ ~ccif'
    BY <1>1 DEF Since
  <2>2. pos - Since - 0 = pos - Since
    BY <1>2
  <2> QED BY <2>1, <2>2 DEF LastServed
<1>13. LastStamp'
  <2> SUFFICES ASSUME clean' > 0 PROVE NearOrOld(x)
    <3>1. prevNs' - prevAge' * L - LastServed' = x
      BY <1>1, <1>12 DEF x
    <3> QED BY <3>1 DEF LastStamp, NearOrOld, Near, Regular
  <2> QED BY <1>9
<1>14. StampIsRight'
  <2> SUFFICES ASSUME clean' > 0, delay' > Fine
               PROVE  LET o == IF torn' THEN off' + L ELSE off' IN o >= -Fine /\ o <= Fine
    BY DEF StampIsRight
  <2>1. Near(IF ptp # pos THEN x + L ELSE x)
    BY <1>7, <1>9
  <2> QED BY <1>1, <1>8, <2>1 DEF Near
<1>15. IntervalIs'
  <2> SUFFICES ASSUME Regular, clean' = 2, interval' # 0
               PROVE  interval' - D >= -2 * Fine /\ interval' - D <= 2 * Fine
    BY <1>1 DEF IntervalIs, Regular
  <2> DEFINE y == prevNs - prevAge * L - (pos - Since - D)
  <2>1. prevAge < Old /\ Accepted(dt) /\ interval' = dt
    BY <1>1
  <2>2. clean > 0
    BY <1>1, <1>2
  <2>3. NearOrOld(y)
    BY <2>1, <2>2 DEF CaptInv, LastStamp, LastServed
  <2>4. NearOrOld(x)
    BY <1>9
  <2>5. 2 * D > L + 4 * Fine /\ 2 * D < 3 * L - 4 * Fine
    BY DEF CaptInv, CaptShape
  <2>6. y \in Int /\ x \in Int /\ dt = x - y + D
    BY <1>2, <1>8, <1>10
  <2> HIDE DEF y
  <2>7. x - y >= -2 * Fine /\ x - y <= 2 * Fine
    BY <1>2, <2>1, <2>3, <2>4, <2>5, <2>6, IntervalTrue
  <2>8. dt - D = x - y
    BY <1>2, <2>6
  <2> QED BY <2>1, <2>7, <2>8
<1> QED BY <1>1, <1>11, <1>13, <1>14, <1>15 DEF CaptInv, Elapsed, Latched

LEMMA CaptStep == TimerInv /\ TimerInv' /\ CaptInv /\ [Next]_vars => CaptInv'
<1> SUFFICES ASSUME TimerInv, TimerInv', CaptInv, [Next]_vars PROVE CaptInv'
  OBVIOUS
<1>1. CASE Isr
  BY <1>1, UpdateCapt, CaptureCapt
<1>2. CASE UNCHANGED vars
  BY <1>2 DEF vars, signal, timer, flags, start, ctrl, stamp, truth, servo, CaptInv, CaptShape, Elapsed,
       Latched, LastStamp, LastServed, Since, StampIsRight, IntervalIs, NearOrOld, Near,
       Regular, Running
<1> QED BY <1>1, <1>2, AdvanceCapt, RollCapt, WrapCapt, EdgeCapt, TaskCapt DEF Next, Clock

LEMMA CaptInvariant == Spec => [](TimerInv /\ CaptInv)
BY TimerInitially, TimerStep, CaptInitially, CaptStep, PTL DEF Spec

\* StampIsRight (timersync_process_capture, timersync.c:360-394; ETHHW_GetTime,
\* mac_drv.c:188-192): while the servo trims, an edge served later than the tolerance is
\* stamped with its own second, also when it was latched before a wrap and is scaled by the
\* next turn's length, and with the one before if a new second tore the clock's reading.
THEOREM StampsRight == Spec => []StampIsRight
<1>1. CaptInv => StampIsRight
  BY DEF CaptInv
<1> QED BY <1>1, CaptInvariant, PTL

\* AcceptedIsTrue (compute_dt, timersync.c:29-51): while the servo trims, an interval that is
\* accepted is the signal's, for every signal of a period between half a second and one
\* and a half; and every variable keeps its type.
THEOREM AcceptsTrue ==
  ASSUME Regular
  PROVE  Spec => []AcceptedIsTrue
<1>1. TimerInv /\ CaptInv => AcceptedIsTrue
  <2> SUFFICES ASSUME TimerInv, CaptInv PROVE AcceptedIsTrue
    OBVIOUS
  <2>1. jumps \in 0 .. 2
    BY DEF TimerInv, Shape
  <2>2. TypeOK
    BY <2>1 DEF TimerInv, Shape, CaptInv, CaptShape, TypeOK
  <2> QED BY <2>2 DEF CaptInv, IntervalIs, AcceptedIsTrue
<1> QED BY <1>1, CaptInvariant, PTL
=============================================================================
