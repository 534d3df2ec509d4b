------------------------------ MODULE Cm7Proofs ------------------------------
(***************************************************************************)
(* Proofs about the two tasks of the M7 core. SerialIo, for a ring, a line *)
(* buffer and start-up messages of any size and any order of interrupt,    *)
(* start-up task and thread; of the compiler's two ways to count what the  *)
(* ring holds, the one that loads writeIdx once. Display, for any channels *)
(* and measurements of any values, at any of the display task's steps.     *)
(***************************************************************************)
EXTENDS SerialIo, Display, TLAPS

(* The invariants. *)

Giving  == bootPc \in {"giveWrite", "giveRead"}
Popping == pc \in {"popTake", "popLoad", "pop"}

\* Bytes in the ring.
Count == pushed - popped

\* The thread sleeps, or is on its way there, on an empty ring only.
SleepInv ==
  /\ pc \in {"waitTake", "transmit", "waitFlag"} /\ readSem = 0 /\ ~Giving => readIdx = writeIdx
  /\ pc \in {"readLoad", "read"} => readSem = 1 \/ Giving
  /\ pc = "check" /\ readSem = 0 /\ ~Giving => seen = writeIdx

\* From index i on, the memory has the c bytes after byte b; so has a sequence.
Holds(m, i, c, b) == \A k \in 0 .. c - 1 : m[Advance(i, k)] = b + 1 + k
Follows(s, c, b)  == s \in Seq(Nat) /\ Len(s) = c /\ \A k \in 1 .. c : s[k] = b + k

\* The ring holds the bytes pushed and not popped, in their order.
RingHolds ==
  /\ Count \in 0 .. Size - 1
  /\ writeIdx = Advance(readIdx, Count)
  /\ Holds(mem, readIdx, Count, popped)

\* A count that was loaded is at most the bytes in the ring.
SeenIsThere ==
  /\ Left >= 0
  /\ pc \in {"read", "pop", "check"} => Used(readIdx, seen, seen) <= Count
  /\ pc = "pop" => Used(readIdx, seen, seen) >= size

\* The line holds the bytes that follow those sent.
LineIsNext ==
  /\ Popping => size > 0
  /\ Popping \/ pc \in {"checkLoad", "check", "transmit"} \/ dma => Follows(line, size, Len(sent))

\* What was popped is sent, or is the line.
PoppedIsSent ==
  /\ dma => pc = "waitFlag"
  /\ flag => pc = "waitFlag" /\ ~dma
  /\ Len(sent) = IF pc \in {"checkLoad", "check", "transmit"} \/ dma THEN popped - size ELSE popped

SentRight == \A i \in 1 .. Len(sent) : sent[i] = i

\* readSem tells of a byte the thread has not dealt with, and the thread knows of one.
WakeTells ==
  /\ readSem = 1 => Left > 0 \/ pc = "popTake"
  /\ pc \in {"waitGive", "readLoad", "read"} => Left > 0
  /\ pc = "read" => Used(readIdx, seen, seen) > 0
  /\ pc \in {"checkLoad", "check", "transmit"} => size > 0
  /\ pc = "waitFlag" => dma \/ flag

\* As long as the ring was never filled.
FlowInv ==
  RingHolds /\ SeenIsThere /\ LineIsNext /\ PoppedIsSent /\ SentRight /\ (late \/ WakeTells)

\* The start-up task is in one of its pushes.
BootInv == bootPc \in {"put", "giveWrite", "giveRead"} => boots < Len(BootPushes)

CountInv  == TypeOK /\ Used(readIdx, writeIdx, writeIdx) = Count % Size
SerialInv == TypeOK /\ SleepInv /\ (full \/ FlowInv)

-----------------------------------------------------------------------------
(* Remainders. *)

LEMMA Divides ==
  ASSUME NEW a \in Int, NEW n \in Int, n > 0
  PROVE  a = n * (a \div n) + (a % n) /\ a % n \in 0 .. n - 1 /\ a \div n \in Int
<1>1. a = n * (a \div n) + (a % n)
  BY Z3T(30)
<1>2. a % n \in 0 .. n - 1 /\ a \div n \in Int
  BY Z3T(30)
<1> QED BY <1>1, <1>2

LEMMA NoTurn ==
  ASSUME NEW q \in Int, NEW n \in Int, n > 0, q * n < n, -n < q * n
  PROVE  q = 0
BY SMTT(30)

LEMMA Remainder ==
  ASSUME NEW a \in Int, NEW q \in Int, NEW r \in 0 .. Size - 1, a = Size * q + r
  PROVE  a % Size = r
<1> DEFINE d == a \div Size
<1> DEFINE m == a % Size
<1>0. Size \in Int /\ Size > 0
  BY FifoAssumption
<1>1. a = Size * d + m /\ m \in 0 .. Size - 1 /\ d \in Int
  BY <1>0, Divides
<1> HIDE DEF d, m
<1>2. (d - q) * Size = r - m /\ d - q \in Int
  BY <1>0, <1>1
<1>3. (d - q) * Size < Size /\ -Size < (d - q) * Size
  BY <1>0, <1>1, <1>2
<1>4. d - q = 0
  BY <1>0, <1>2, <1>3, NoTurn
<1>5. m = r
  BY <1>0, <1>1, <1>2, <1>4
<1> QED BY <1>5 DEF m

\* Adding less than a turn moves the remainder on by as much, over the end.
LEMMA RemainderMoves ==
  ASSUME NEW a \in Int, NEW m \in Int, NEW b \in Int, b = a + m,
         NEW u, u = a % Size, NEW r \in 0 .. Size - 1, r = u + m \/ r = u + m - Size \/ r = u + m + Size
  PROVE  b % Size = r
<1> USE FifoAssumption
<1> DEFINE d == a \div Size
<1>1. a = Size * d + u /\ u \in 0 .. Size - 1 /\ d \in Int
  BY Divides
<1> HIDE DEF d
<1>2. \E q \in Int : b = Size * q + r
  <2>1. CASE r = u + m
    <3>1. b = Size * d + r
      BY <1>1, <2>1
    <3> QED BY <1>1, <3>1
  <2>2. CASE r = u + m - Size
    <3>1. b = Size * (d + 1) + r /\ d + 1 \in Int
      BY <1>1, <2>2
    <3> QED BY <3>1
  <2>3. CASE r = u + m + Size
    <3>1. b = Size * (d - 1) + r /\ d - 1 \in Int
      BY <1>1, <2>3
    <3> QED BY <3>1
  <2> QED BY <2>1, <2>2, <2>3
<1>3. PICK q \in Int : b = Size * q + r
  BY <1>2
<1>4. Size \in Int /\ Size > 0
  OBVIOUS
<1> QED BY <1>3, <1>4, Remainder

-----------------------------------------------------------------------------
(* The ring. *)

LEMMA Wraps ==
  ASSUME NEW x \in Int, -Size < x, x < 2 * Size
  PROVE  /\ x % Size \in Nat
         /\ x < 0 => x % Size = x + Size
         /\ x >= 0 /\ x < Size => x % Size = x
         /\ x >= Size => x % Size = x - Size
<1> USE FifoAssumption
<1>1. CASE x < 0
  BY <1>1
<1>2. CASE x >= 0 /\ x < Size
  BY <1>2
<1>3. CASE x >= Size
  BY <1>3
<1> QED BY <1>1, <1>2, <1>3

LEMMA Advances ==
  ASSUME NEW i \in Indices, NEW j \in 0 .. Size - 1
  PROVE  /\ Advance(i, j) \in Indices
         /\ (i + j) % Size = Advance(i, j)
         /\ Used(i, Advance(i, j), Advance(i, j)) = j
<1>1. Advance(i, j) \in Indices /\ Used(i, Advance(i, j), Advance(i, j)) = j
  BY FifoAssumption DEF Indices, Advance, Used
<1>2. (i + j) % Size = Advance(i, j)
  <2>1. i + j \in Int /\ 0 <= i + j /\ -Size < i + j /\ i + j < 2 * Size
    BY FifoAssumption DEF Indices
  <2> QED BY <2>1, Wraps, FifoAssumption DEF Advance, Indices
<1> QED BY <1>1, <1>2

LEMMA AdvancesTwice ==
  ASSUME NEW i \in Indices, NEW j \in 0 .. Size - 1, NEW k \in 0 .. Size - 1, j + k < Size
  PROVE  Advance(Advance(i, j), k) = Advance(i, j + k)
BY FifoAssumption DEF Indices, Advance

\* How far a place in the ring is from where a push begins.
LEMMA Distance ==
  ASSUME NEW i \in Indices, NEW c \in 0 .. Size - 1, NEW k \in 0 .. Size - 1
  PROVE  (Advance(i, k) - Advance(i, c)) % Size = IF k < c THEN k - c + Size ELSE k - c
<1> USE FifoAssumption DEF Indices
<1> DEFINE d == Advance(i, k) - Advance(i, c)
<1>1. /\ d \in Int /\ -Size < d /\ d < Size
      /\ d = k - c \/ d = k - c + Size \/ d = k - c - Size
  BY DEF Advance
<1> HIDE DEF d
<1>2. d % Size = IF d < 0 THEN d + Size ELSE d
  BY <1>1, Wraps
<1>3. d % Size = IF k < c THEN k - c + Size ELSE k - c
  BY <1>1, <1>2
<1> QED BY <1>3 DEF d

LEMMA WrittenHolds ==
  ASSUME NEW m \in [Indices -> Nat], NEW i \in Indices, NEW c \in 0 .. Size - 1, NEW n \in Nat,
         c + n < Size, NEW b \in Nat, Holds(m, i, c, b), NEW data, Follows(data, n, b + c)
  PROVE  /\ Written(m, Advance(i, c), data) \in [Indices -> Nat]
         /\ Holds(Written(m, Advance(i, c), data), i, c + n, b)
<1> USE FifoAssumption DEF Holds, Follows
<1>1. ASSUME NEW p \in Indices
      PROVE  (p - Advance(i, c)) % Size \in Nat
  <2>1. Advance(i, c) \in Indices
    BY Advances
  <2>2. p - Advance(i, c) \in Int /\ -Size < p - Advance(i, c) /\ p - Advance(i, c) < 2 * Size
    BY <2>1 DEF Indices
  <2> QED BY <2>2, Wraps
<1>2. Written(m, Advance(i, c), data) \in [Indices -> Nat]
  BY <1>1 DEF Written
<1>3. ASSUME NEW k \in 0 .. c + n - 1
      PROVE  Written(m, Advance(i, c), data)[Advance(i, k)] = b + 1 + k
  <2>1. k \in 0 .. Size - 1 /\ Advance(i, k) \in Indices
    BY Advances
  <2>2. (Advance(i, k) - Advance(i, c)) % Size = IF k < c THEN k - c + Size ELSE k - c
    BY <2>1, Distance
  <2>3. Written(m, Advance(i, c), data)[Advance(i, k)]
          = IF (Advance(i, k) - Advance(i, c)) % Size < n
            THEN data[((Advance(i, k) - Advance(i, c)) % Size) + 1] ELSE m[Advance(i, k)]
    BY <2>1 DEF Written
  <2>4. CASE k < c
    BY <2>2, <2>3, <2>4
  <2>5. CASE k >= c
    <3>1. k - c < n /\ k - c + 1 \in 1 .. n
      BY <2>5
    <3>2. data[k - c + 1] = b + c + (k - c + 1)
      BY <3>1
    <3> QED BY <2>2, <2>3, <2>5, <3>1, <3>2
  <2> QED BY <2>4, <2>5
<1> QED BY <1>2, <1>3

\* A push of what there is room for takes it all.
LEMMA PutAdds ==
  ASSUME TypeOK, RingHolds, NEW n \in Nat, Count + n < Size, Put(n), readIdx' = readIdx, popped' = popped
  PROVE  /\ mem' \in [Indices -> Nat] /\ writeIdx' \in Indices /\ pushed' = pushed + n /\ pushed' \in Nat
         /\ RingHolds' /\ Count' = Count + n
<1> USE FifoAssumption
<1>1. /\ pushed \in Nat /\ popped \in Nat /\ Count \in 0 .. Size - 1 /\ Count = pushed - popped
      /\ readIdx \in Indices /\ mem \in [Indices -> Nat] /\ writeIdx = Advance(readIdx, Count)
  BY DEF TypeOK, RingHolds, Count
<1>2. Smaller(Size - Used(readIdx, writeIdx, writeIdx), n) = n
  <2>1. Used(readIdx, writeIdx, writeIdx) = Count
    BY <1>1, Advances
  <2> QED BY <1>1, <2>1 DEF Smaller
<1> DEFINE data == [k \in 1 .. n |-> pushed + k]
<1>3. mem' = Written(mem, writeIdx, data) /\ writeIdx' = Advance(writeIdx, n) /\ pushed' = pushed + n
  BY <1>2 DEF Put
<1>4. Follows(data, n, popped + Count)
  BY <1>1 DEF Follows
<1>5. Holds(mem, readIdx, Count, popped)
  BY DEF RingHolds
<1> HIDE DEF data
<1>6. mem' \in [Indices -> Nat] /\ Holds(mem', readIdx, Count + n, popped)
  BY <1>1, <1>3, <1>4, <1>5, WrittenHolds
<1>7. writeIdx' = Advance(readIdx, Count + n) /\ writeIdx' \in Indices
  <2>1. n \in 0 .. Size - 1 /\ Count + n \in 0 .. Size - 1
    BY <1>1
  <2> QED BY <1>1, <1>3, <2>1, Advances, AdvancesTwice
<1>8. Count' = Count + n
  BY <1>1, <1>3 DEF Count
<1> QED BY <1>1, <1>3, <1>6, <1>7, <1>8 DEF RingHolds

LEMMA Joined ==
  ASSUME NEW s \in Seq(Nat), NEW t \in Seq(Nat)
  PROVE  s \o t \in Seq(Nat) /\ Len(s \o t) = Len(s) + Len(t)
OBVIOUS

-----------------------------------------------------------------------------
(* Types, and the count. *)

LEMMA WrittenTyped ==
  ASSUME NEW m \in [Indices -> Nat], NEW w \in Indices, NEW c \in Nat, NEW data \in [1 .. c -> Nat]
  PROVE  Written(m, w, data) \in [Indices -> Nat]
<1>1. data \in Seq(Nat) /\ Len(data) = c
  OBVIOUS
<1>2. ASSUME NEW p \in Indices
      PROVE  (IF (p - w) % Size < Len(data) THEN data[((p - w) % Size) + 1] ELSE m[p]) \in Nat
  <2>1. (p - w) % Size \in Nat
    <3>1. p - w \in Int /\ -Size < p - w /\ p - w < 2 * Size
      BY FifoAssumption DEF Indices
    <3> QED BY <3>1, Wraps
  <2> QED BY <1>1, <2>1
<1> QED BY <1>2 DEF Written

LEMMA BytesTyped ==
  ASSUME NEW m \in [Indices -> Nat], NEW r \in Indices, NEW n \in Nat
  PROVE  Bytes(m, r, n) \in Seq(Nat)
<1>1. ASSUME NEW k \in 1 .. n
      PROVE  (r + k - 1) % Size \in Indices
  BY FifoAssumption, Divides DEF Indices
<1> QED BY <1>1 DEF Bytes

\* A push adds some of what it is given, never more than the ring's length.
LEMMA PutTyped ==
  ASSUME TypeOK, NEW n \in Nat, Put(n)
  PROVE  /\ mem' \in [Indices -> Nat] /\ pushed' \in Nat /\ full' \in BOOLEAN
         /\ \E m \in 0 .. Size :
              /\ m = Smaller(Size - Used(readIdx, writeIdx, writeIdx), n)
              /\ writeIdx' = Advance(writeIdx, m) /\ writeIdx' \in Indices
              /\ pushed' = pushed + m /\ full' = (full \/ pushed + m - popped >= Size)
<1> DEFINE m == Smaller(Size - Used(readIdx, writeIdx, writeIdx), n)
<1> DEFINE data == [k \in 1 .. m |-> pushed + k]
<1>1. /\ mem' = Written(mem, writeIdx, data) /\ writeIdx' = Advance(writeIdx, m)
      /\ pushed' = pushed + m /\ full' = (full \/ pushed + m - popped >= Size)
  BY Zenon DEF Put
<1>2. m \in 0 .. Size
  BY FifoAssumption DEF TypeOK, Smaller, Used, Indices
<1> HIDE DEF m
<1>3. data \in [1 .. m -> Nat] /\ mem \in [Indices -> Nat] /\ writeIdx \in Indices /\ pushed \in Nat
  BY <1>2 DEF TypeOK
<1> HIDE DEF data
<1>4. mem' \in [Indices -> Nat]
  BY <1>1, <1>2, <1>3, WrittenTyped
<1>5. writeIdx' \in Indices /\ pushed' \in Nat
  BY <1>1, <1>2, <1>3, FifoAssumption DEF Advance, Indices
<1>6. full' \in BOOLEAN
  BY <1>1
<1> QED BY <1>1, <1>2, <1>4, <1>5, <1>6 DEF m

LEMMA UsedTyped ==
  ASSUME TypeOK, SingleLoad
  PROVE  UsedNow \in 0 .. Size - 1 /\ UsedNow = Used(readIdx, seen, seen)
BY FifoAssumption DEF TypeOK, UsedNow, Used, Indices

LEMMA TypeKeeps ==
  ASSUME TypeOK, BootInv, SingleLoad, [Next]_vars
  PROVE  TypeOK' /\ BootInv'
<1> USE FifoAssumption, SerialAssumption DEF BootInv
<1>1. CASE IsrPush
  <2>1. Put(1) /\ writeSem' = 1 /\ readSem' = 1
        /\ UNCHANGED <<readIdx, bootPc, boots, pc, seen, size, line, dma, flag, popped, sent, late>>
    BY <1>1 DEF IsrPush, bootVars, threadVars, uartVars
  <2>2. mem' \in [Indices -> Nat] /\ pushed' \in Nat /\ full' \in BOOLEAN /\ writeIdx' \in Indices
    BY <2>1, PutTyped
  <2> QED BY <2>1, <2>2 DEF TypeOK
<1>2. CASE BootStep
  <2>1. CASE BootPut
    <3> DEFINE n == BootPushes[boots + 1]
    <3>1. Put(n) /\ bootPc = "put" /\ bootPc' = "giveWrite"
          /\ UNCHANGED <<readIdx, readSem, writeSem, boots, pc, seen, size, line, dma, flag, popped, sent, late>>
      BY <2>1 DEF BootPut, threadVars, uartVars
    <3>2. boots < Len(BootPushes) /\ boots \in Nat /\ n \in Nat
      BY <3>1 DEF TypeOK
    <3> HIDE DEF n
    <3>3. mem' \in [Indices -> Nat] /\ pushed' \in Nat /\ full' \in BOOLEAN /\ writeIdx' \in Indices
      BY <3>1, <3>2, PutTyped
    <3> QED BY <3>1, <3>2, <3>3 DEF TypeOK
  <2>2. CASE BootTake
    BY <2>2 DEF BootTake, TypeOK, threadVars, uartVars, history
  <2>3. CASE BootGiveWrite
    BY <2>3 DEF BootGiveWrite, TypeOK, threadVars, uartVars, history
  <2>4. CASE BootGiveRead
    <3>1. late' \in BOOLEAN
      BY <2>4 DEF BootGiveRead
    <3> QED BY <2>4, <3>1 DEF BootGiveRead, TypeOK, threadVars, uartVars
  <2>5. CASE BootOpen
    BY <2>5 DEF BootOpen, TypeOK, fifoVars, threadVars, uartVars, history
  <2> QED BY <1>2, <2>1, <2>2, <2>3, <2>4, <2>5 DEF BootStep
<1>3. CASE ThreadStep
  <2>1. UNCHANGED <<bootPc, boots>>
    BY <1>3 DEF ThreadStep, WaitTake, WaitGive, ReadLoad, Read, PopTake, PopLoad, Pop, CheckLoad, Check,
                Transmit, WaitFlag, Load, bootVars
  <2>2. CASE WaitTake \/ WaitGive \/ PopTake \/ Check
    BY <2>1, <2>2 DEF WaitTake, WaitGive, PopTake, Check, TypeOK, uartVars, history
  <2>3. CASE ReadLoad \/ PopLoad \/ CheckLoad
    BY <2>1, <2>3 DEF ReadLoad, PopLoad, CheckLoad, Load, TypeOK, fifoVars, uartVars, history
  <2>4. CASE Transmit
    <3>1. dma' \in BOOLEAN
      BY <2>4 DEF Transmit
    <3> QED BY <2>1, <2>4, <3>1 DEF Transmit, TypeOK, fifoVars, history
  <2>5. CASE WaitFlag
    BY <2>1, <2>5 DEF WaitFlag, TypeOK, fifoVars, history
  <2>6. CASE Read
    <3>1. UsedNow \in 0 .. Size - 1
      BY UsedTyped
    <3>2. size' \in 0 .. LineLen /\ line' \in Seq(Nat)
      <4> DEFINE n == Smaller(UsedNow, LineLen)
      <4>1. n \in 0 .. LineLen /\ size' = n /\ line' = Bytes(mem, readIdx, n)
        BY <2>6, <3>1 DEF Read, Smaller
      <4> HIDE DEF n
      <4> QED BY <4>1, BytesTyped DEF TypeOK
    <3>3. pc' \in {"transmit", "popTake"}
      BY <2>6 DEF Read
    <3> QED BY <2>1, <2>6, <3>2, <3>3 DEF Read, TypeOK, fifoVars, uartVars, history
  <2>7. CASE Pop
    <3>1. UsedNow \in 0 .. Size - 1
      BY UsedTyped
    <3>2. readIdx' \in Indices /\ popped' \in Nat
      <4> DEFINE n == Smaller(UsedNow, size)
      <4>1. n \in 0 .. Size - 1 /\ readIdx' = Advance(readIdx, n) /\ popped' = popped + n
        BY <2>7, <3>1 DEF Pop, Smaller, TypeOK
      <4> HIDE DEF n
      <4> QED BY <4>1 DEF TypeOK, Advance, Indices
    <3> QED BY <2>1, <2>7, <3>2 DEF Pop, TypeOK, uartVars
  <2> QED BY <1>3, <2>2, <2>3, <2>4, <2>5, <2>6, <2>7 DEF ThreadStep
<1>4. CASE DmaDone
  <2>1. sent' \in Seq(Nat)
    BY <1>4, Joined DEF DmaDone, TypeOK
  <2> QED BY <1>4, <2>1 DEF DmaDone, TypeOK, fifoVars, bootVars, threadVars
<1>5. CASE UNCHANGED vars
  BY <1>5 DEF vars, fifoVars, bootVars, threadVars, uartVars, history, TypeOK
<1> QED BY <1>1, <1>2, <1>3, <1>4, <1>5 DEF Next

LEMMA TypeInitially ==
  ASSUME Init
  PROVE  TypeOK /\ BootInv
<1> USE FifoAssumption, SerialAssumption DEF Init
<1>1. mem \in [Indices -> Nat] /\ readIdx \in Indices /\ writeIdx \in Indices /\ seen \in Indices
  BY DEF Indices
<1>2. boots \in 0 .. Len(BootPushes) /\ size \in 0 .. LineLen /\ line \in Seq(Nat) /\ sent \in Seq(Nat)
  OBVIOUS
<1> QED BY <1>1, <1>2 DEF TypeOK, BootInv

\* What a push adds and a pop takes moves the count of what is used, over the end.
LEMMA UsedMoves ==
  ASSUME NEW r \in Indices, NEW w \in Indices
  PROVE  /\ Used(r, w, w) \in 0 .. Size - 1
         /\ \A m \in 0 .. Size : Used(r, w, w) + m <= Size =>
              LET u == Used(r, Advance(w, m), Advance(w, m)) IN
              u \in 0 .. Size - 1 /\ (u = Used(r, w, w) + m \/ u = Used(r, w, w) + m - Size)
         /\ \A n \in 0 .. Size - 1 :
              LET u == Used(Advance(r, n), w, w) IN
              u \in 0 .. Size - 1 /\ (u = Used(r, w, w) + (-n) \/ u = Used(r, w, w) + (-n) + Size)
<1> USE FifoAssumption DEF Indices, Used, Advance
<1>1. Used(r, w, w) \in 0 .. Size - 1
  OBVIOUS
<1>2. ASSUME NEW m \in 0 .. Size, Used(r, w, w) + m <= Size
      PROVE  LET u == Used(r, Advance(w, m), Advance(w, m)) IN
             u \in 0 .. Size - 1 /\ (u = Used(r, w, w) + m \/ u = Used(r, w, w) + m - Size)
  BY <1>2
<1>3. ASSUME NEW n \in 0 .. Size - 1
      PROVE  LET u == Used(Advance(r, n), w, w) IN
             u \in 0 .. Size - 1 /\ (u = Used(r, w, w) + (-n) \/ u = Used(r, w, w) + (-n) + Size)
  OBVIOUS
<1> QED BY <1>1, <1>2, <1>3

\* What a push adds and a pop takes moves the indices, and the counts with them.
LEMMA CountKeeps ==
  ASSUME TypeOK, SingleLoad, BootInv, [Next]_vars,
         Used(readIdx, writeIdx, writeIdx) = Count % Size
  PROVE  Used(readIdx', writeIdx', writeIdx') = Count' % Size
<1> USE FifoAssumption, SerialAssumption
<1> DEFINE u == Used(readIdx, writeIdx, writeIdx)
<1>1. /\ readIdx \in Indices /\ writeIdx \in Indices /\ pushed \in Nat /\ popped \in Nat
      /\ Count \in Int /\ Count = pushed - popped /\ Size \in Int /\ Size > 0
      /\ u \in 0 .. Size - 1 /\ u = Count % Size
  <2>1. readIdx \in Indices /\ writeIdx \in Indices /\ pushed \in Nat /\ popped \in Nat
    BY DEF TypeOK
  <2> QED BY <2>1, UsedMoves DEF Count
<1>2. ASSUME NEW n \in Nat, Put(n), UNCHANGED <<readIdx, popped>>
      PROVE  Used(readIdx', writeIdx', writeIdx') = Count' % Size
  <2>1. PICK m \in 0 .. Size : /\ m = Smaller(Size - u, n) /\ writeIdx' = Advance(writeIdx, m)
                               /\ pushed' = pushed + m
    BY <1>2, PutTyped
  <2>2. u + m <= Size
    BY <1>1, <1>2, <2>1 DEF Smaller
  <2> DEFINE w == Used(readIdx, Advance(writeIdx, m), Advance(writeIdx, m))
  <2>3. w \in 0 .. Size - 1 /\ (w = u + m \/ w = u + m - Size)
    BY <1>1, <2>2, UsedMoves
  <2> HIDE DEF w, u
  <2>4. Count' = Count + m /\ Count' \in Int
    <3>1. popped' = popped /\ pushed' = pushed + m
      BY <1>2, <2>1
    <3>2. Count' = pushed' - popped'
      BY DEF Count
    <3> QED BY <1>1, <3>1, <3>2
  <2>5. Count' % Size = w
    <3>1. /\ Count \in Int /\ Size \in Int /\ Size > 0 /\ m \in Int /\ u = Count % Size
          /\ w = u + m \/ w = u + m - Size \/ w = u + m + Size
      BY <1>1, <2>3
    <3> QED BY <3>1, <2>3, <2>4, RemainderMoves
  <2> QED BY <1>2, <2>1, <2>5, Zenon DEF w
<1>3. CASE IsrPush
  BY <1>2, <1>3 DEF IsrPush
<1>4. CASE BootPut
  <2>1. BootPushes[boots + 1] \in Nat
    BY <1>4 DEF BootPut, BootInv, TypeOK
  <2> QED BY <1>2, <1>4, <2>1 DEF BootPut
<1>5. CASE Pop
  <2> DEFINE n == Smaller(UsedNow, size)
  <2>1. n \in 0 .. Size - 1 /\ readIdx' = Advance(readIdx, n) /\ popped' = popped + n
        /\ UNCHANGED <<writeIdx, pushed>>
    BY <1>5, UsedTyped DEF Pop, Smaller, TypeOK
  <2> HIDE DEF n
  <2> DEFINE w == Used(Advance(readIdx, n), writeIdx, writeIdx)
  <2>2. w \in 0 .. Size - 1 /\ (w = u + (-n) \/ w = u + (-n) + Size)
    BY <1>1, <2>1, UsedMoves
  <2> HIDE DEF w, u
  <2>3. Count' = Count + (-n) /\ -n \in Int /\ Count' \in Int
    BY <1>1, <2>1 DEF Count
  <2>4. Count' % Size = w
    <3>1. /\ Count \in Int /\ Size \in Int /\ Size > 0 /\ u = Count % Size
          /\ w = u + (-n) \/ w = u + (-n) - Size \/ w = u + (-n) + Size
      BY <1>1, <2>2
    <3> QED BY <3>1, <2>2, <2>3, RemainderMoves
  <2> QED BY <2>1, <2>4, Zenon DEF w
<1>6. CASE UNCHANGED <<readIdx, writeIdx, pushed, popped>>
  BY <1>6 DEF Count
<1>7. IsrPush \/ BootPut \/ Pop \/ UNCHANGED <<readIdx, writeIdx, pushed, popped>>
  <2>1. CASE BootStep
    BY <2>1 DEF BootStep, BootTake, BootGiveWrite, BootGiveRead, BootOpen, fifoVars, history
  <2>2. CASE ThreadStep
    BY <2>2 DEF ThreadStep, WaitTake, WaitGive, ReadLoad, Read, PopTake, PopLoad, CheckLoad, Check,
                Transmit, WaitFlag, Load, fifoVars, history
  <2>3. CASE DmaDone \/ UNCHANGED vars
    BY <2>3 DEF DmaDone, vars, fifoVars, history
  <2> QED BY <2>1, <2>2, <2>3 DEF Next
<1> QED BY <1>3, <1>4, <1>5, <1>6, <1>7

LEMMA CountInvHolds ==
  ASSUME SingleLoad
  PROVE  Spec => [](CountInv /\ BootInv)
<1>1. Init => CountInv /\ BootInv
  <2> SUFFICES ASSUME Init PROVE CountInv /\ BootInv
    OBVIOUS
  <2>1. Used(readIdx, writeIdx, writeIdx) = 0 /\ Count = 0
    BY DEF Init, Used, Count
  <2>2. 0 % Size = 0
    BY FifoAssumption
  <2> QED BY <2>1, <2>2, TypeInitially DEF CountInv
<1>2. CountInv /\ BootInv /\ [Next]_vars => (CountInv /\ BootInv)'
  BY TypeKeeps, CountKeeps DEF CountInv
<1> QED BY <1>1, <1>2, PTL DEF Spec

\* bfifo_get_used counts the bytes pushed and not popped (blocking_fifo.h:43-48), but
\* whole turns of the ring count for nothing: however the two tasks and the interrupt
\* interleave, however often the ring is filled.
THEOREM CountIsRight ==
  ASSUME SingleLoad
  PROVE  Spec => []UsedIsCount
<1>1. CountInv /\ BootInv => UsedIsCount
  BY DEF CountInv, UsedIsCount, Count
<1> QED BY <1>1, CountInvHolds, PTL

-----------------------------------------------------------------------------
(* Sleeping. *)

LEMMA SleepKeeps ==
  ASSUME TypeOK, SingleLoad, SleepInv, [Next]_vars
  PROVE  SleepInv'
<1> USE DEF SleepInv, Giving
<1>1. CASE IsrPush
  BY <1>1 DEF IsrPush, bootVars, threadVars
<1>2. CASE BootStep
  <2>1. CASE BootPut
    BY <2>1 DEF BootPut, threadVars
  <2>2. CASE BootTake \/ BootGiveWrite \/ BootOpen
    BY <2>2 DEF BootTake, BootGiveWrite, BootOpen, fifoVars, threadVars
  <2>3. CASE BootGiveRead
    BY <2>3 DEF BootGiveRead, threadVars
  <2> QED BY <1>2, <2>1, <2>2, <2>3 DEF BootStep
<1>3. CASE ThreadStep
  <2>1. bootPc' = bootPc /\ writeIdx' = writeIdx
    BY <1>3 DEF ThreadStep, WaitTake, WaitGive, ReadLoad, Read, PopTake, PopLoad, Pop, CheckLoad, Check,
                Transmit, WaitFlag, Load, bootVars, fifoVars
  <2>2. CASE WaitTake \/ WaitGive \/ PopTake
    BY <2>1, <2>2 DEF WaitTake, WaitGive, PopTake
  <2>3. CASE ReadLoad \/ PopLoad \/ CheckLoad
    BY <2>1, <2>3 DEF ReadLoad, PopLoad, CheckLoad, Load, fifoVars
  <2>4. CASE Read
    BY <2>1, <2>4 DEF Read, fifoVars, TypeOK
  <2>5. CASE Pop
    BY <2>1, <2>5 DEF Pop
  <2>6. CASE Check
    <3>1. UsedNow = 0 => readIdx = seen
      <4>1. readIdx \in Indices /\ seen \in Indices /\ UsedNow = Used(readIdx, seen, seen)
        BY UsedTyped DEF TypeOK
      <4> QED BY <4>1, FifoAssumption DEF Indices, Used
    <3>2. UsedNow \in 0 .. Size - 1
      BY UsedTyped
    <3>3. readSem \in 0 .. 1
      BY DEF TypeOK
    <3> QED BY <2>1, <2>6, <3>1, <3>2, <3>3, FifoAssumption DEF Check
  <2>7. CASE Transmit \/ WaitFlag
    BY <2>1, <2>7 DEF Transmit, WaitFlag, fifoVars
  <2> QED BY <1>3, <2>2, <2>3, <2>4, <2>5, <2>6, <2>7 DEF ThreadStep
<1>4. CASE DmaDone
  BY <1>4 DEF DmaDone, fifoVars, bootVars, threadVars
<1>5. CASE UNCHANGED vars
  BY <1>5 DEF vars, fifoVars, bootVars, threadVars
<1> QED BY <1>1, <1>2, <1>3, <1>4, <1>5 DEF Next

-----------------------------------------------------------------------------
(* The flow of the bytes, as long as the ring is never filled. *)

LEMMA LeftIs == Left = IF Popping THEN Count - size ELSE Count - 0
BY DEF Left, Popping, Count

LEMMA FlowInitially ==
  ASSUME Init
  PROVE  SleepInv /\ FlowInv
<1> USE FifoAssumption, SerialAssumption DEF Init
<1>1. RingHolds /\ SleepInv
  BY DEF RingHolds, Count, Holds, Advance, SleepInv
<1>2. SeenIsThere /\ WakeTells
  BY DEF SeenIsThere, WakeTells, Left
<1>3. LineIsNext /\ PoppedIsSent /\ SentRight
  BY DEF LineIsNext, PoppedIsSent, SentRight, Popping
<1> QED BY <1>1, <1>2, <1>3 DEF FlowInv

\* A push that does not fill the ring leaves what the thread knows true.
LEMMA PushKeeps ==
  ASSUME TypeOK, FlowInv, NEW n \in Nat, Put(n), ~full',
         UNCHANGED <<readIdx, pc, seen, size, line, dma, flag, popped, sent>>
  PROVE  /\ RingHolds' /\ SeenIsThere' /\ LineIsNext' /\ PoppedIsSent' /\ SentRight'
         /\ pushed' = pushed + n /\ Left' = Left + n /\ Left \in Nat
<1>1. /\ pushed \in Nat /\ popped \in Nat /\ size \in Nat /\ readIdx \in Indices /\ seen \in Indices
      /\ Count \in 0 .. Size - 1 /\ Count = pushed - popped /\ Size \in Nat
      /\ Used(readIdx, writeIdx, writeIdx) = Count
  BY FifoAssumption, SerialAssumption, Advances DEF FlowInv, RingHolds, TypeOK, Count
<1>2. Count + n < Size
  <2>1. PICK m \in 0 .. Size : /\ m = Smaller(Size - Used(readIdx, writeIdx, writeIdx), n)
                               /\ full' = (full \/ pushed + m - popped >= Size)
    BY PutTyped
  <2>2. ~(pushed + m - popped >= Size)
    BY <2>1, Zenon
  <2> QED BY <1>1, <2>1, <2>2 DEF Smaller
<1>3. RingHolds' /\ Count' = Count + n /\ pushed' = pushed + n
  BY <1>2, PutAdds DEF FlowInv
<1>4. Left' = Left + n /\ Left \in Int
  <2>1. UNCHANGED <<Popping, size>>
    BY DEF Popping
  <2>2. Left' = IF Popping' THEN Count' - size' ELSE Count' - 0
    BY DEF Left, Popping, Count
  <2> QED BY <1>1, <1>3, <2>1, <2>2, LeftIs
<1>5. SeenIsThere' /\ Left \in Nat
  <2>1. Left >= 0 /\ Used(readIdx, seen, seen) \in Int
    BY <1>1, UsedMoves DEF FlowInv, SeenIsThere
  <2> QED BY <1>1, <1>3, <1>4, <2>1 DEF FlowInv, SeenIsThere, Used
<1>6. LineIsNext' /\ PoppedIsSent' /\ SentRight'
  BY DEF FlowInv, LineIsNext, PoppedIsSent, SentRight, Popping, Follows
<1> QED BY <1>3, <1>4, <1>5, <1>6

LEMMA PushesKeep ==
  ASSUME TypeOK, BootInv, FlowInv, IsrPush \/ BootPut, ~full'
  PROVE  FlowInv'
<1>1. CASE IsrPush
  <2>1. Put(1) /\ late' = late
        /\ UNCHANGED <<readIdx, pc, seen, size, line, dma, flag, popped, sent>>
    BY <1>1 DEF IsrPush, bootVars, threadVars, uartVars
  <2>2. /\ RingHolds' /\ SeenIsThere' /\ LineIsNext' /\ PoppedIsSent' /\ SentRight'
        /\ Left' = Left + 1 /\ Left \in Nat
    BY <2>1, PushKeeps
  <2>3. ASSUME WakeTells PROVE WakeTells'
    BY <2>1, <2>2, <2>3 DEF WakeTells
  <2> QED BY <2>1, <2>2, <2>3 DEF FlowInv
<1>2. CASE BootPut
  <2> DEFINE n == BootPushes[boots + 1]
  <2>1. /\ Put(n) /\ late' = late /\ readSem' = readSem
        /\ UNCHANGED <<readIdx, pc, seen, size, line, dma, flag, popped, sent>>
    BY <1>2 DEF BootPut, threadVars, uartVars
  <2>2. n \in Nat
    BY <1>2, SerialAssumption DEF BootPut, BootInv, TypeOK
  <2> HIDE DEF n
  <2>3. /\ RingHolds' /\ SeenIsThere' /\ LineIsNext' /\ PoppedIsSent' /\ SentRight'
        /\ Left' = Left + n /\ Left \in Nat
    BY <2>1, <2>2, PushKeeps
  <2>4. ASSUME WakeTells PROVE WakeTells'
    BY <2>1, <2>2, <2>3, <2>4 DEF WakeTells
  <2> QED BY <2>1, <2>3, <2>4 DEF FlowInv
<1> QED BY <1>1, <1>2

LEMMA BootKeeps ==
  ASSUME TypeOK, FlowInv, BootTake \/ BootGiveWrite \/ BootGiveRead \/ BootOpen
  PROVE  FlowInv'
<1>1. UNCHANGED <<mem, readIdx, writeIdx, pc, seen, size, line, dma, flag, pushed, popped, sent, full>>
  BY DEF BootTake, BootGiveWrite, BootGiveRead, BootOpen, fifoVars, threadVars, uartVars, history
<1>2. RingHolds' /\ Left' = Left /\ SentRight'
  BY <1>1 DEF FlowInv, RingHolds, Count, Left, SentRight
<1>3. SeenIsThere' /\ LineIsNext' /\ PoppedIsSent'
  BY <1>1, <1>2 DEF FlowInv, SeenIsThere, LineIsNext, PoppedIsSent, Popping, Count
<1>4. late' \/ WakeTells'
  <2>1. CASE BootGiveRead
    <3>1. late' = (late \/ (Left <= 0 /\ pc # "popTake")) /\ readSem' = 1
      BY <2>1, Zenon DEF BootGiveRead
    <3>2. Left \in Int
      BY SerialAssumption DEF Left, TypeOK
    <3>3. CASE late \/ (Left <= 0 /\ pc # "popTake")
      BY <3>1, <3>3, Zenon
    <3>4. CASE ~(late \/ (Left <= 0 /\ pc # "popTake"))
      <4>1. WakeTells /\ (Left > 0 \/ pc = "popTake")
        BY <3>2, <3>4 DEF FlowInv
      <4>2. WakeTells'
        BY <1>1, <1>2, <3>1, <4>1 DEF WakeTells
      <4> QED BY <4>2
    <3> QED BY <3>3, <3>4
  <2>2. CASE BootTake \/ BootGiveWrite \/ BootOpen
    <3>1. late' = late /\ readSem' = readSem
      BY <2>2 DEF BootTake, BootGiveWrite, BootOpen, fifoVars, history
    <3> QED BY <1>1, <1>2, <3>1 DEF FlowInv, WakeTells
  <2> QED BY <2>1, <2>2
<1> QED BY <1>2, <1>3, <1>4 DEF FlowInv

\* Steps of the thread that leave the ring's contents, the line and the wire alone.
LEMMA WaitAndLoadKeep ==
  ASSUME TypeOK, SingleLoad, FlowInv,
         \/ WaitTake \/ WaitGive \/ ReadLoad \/ PopTake \/ PopLoad \/ CheckLoad \/ Check
         \/ Transmit \/ WaitFlag
  PROVE  FlowInv'
<1> USE DEF FlowInv
<1>1. UNCHANGED <<mem, readIdx, writeIdx, size, line, pushed, popped, sent, late>>
  BY DEF WaitTake, WaitGive, ReadLoad, PopTake, PopLoad, CheckLoad, Check, Transmit, WaitFlag, Load,
         fifoVars, uartVars, history
<1>2. RingHolds' /\ Count' = Count /\ SentRight'
  BY <1>1 DEF RingHolds, Count, SentRight
<1>3. /\ Count \in 0 .. Size - 1 /\ Used(readIdx, writeIdx, writeIdx) = Count /\ size \in Nat
      /\ Used(readIdx, seen, seen) \in Int /\ UsedNow = Used(readIdx, seen, seen)
      /\ Count = pushed - popped /\ Left \in Int /\ pushed \in Nat /\ popped \in Nat
  <2>1. Count \in 0 .. Size - 1 /\ Used(readIdx, writeIdx, writeIdx) = Count
    BY Advances DEF RingHolds, TypeOK
  <2>2. size \in Nat /\ Used(readIdx, seen, seen) \in Int /\ pushed \in Nat /\ popped \in Nat
    BY FifoAssumption, SerialAssumption DEF TypeOK, Used, Indices
  <2> QED BY <2>1, <2>2, UsedTyped DEF Left, Count
<1> USE DEF SeenIsThere, WakeTells, LineIsNext, PoppedIsSent, Left, Popping
<1>4. CASE WaitTake
  BY <1>4, <1>1, <1>2, <1>3 DEF WaitTake, uartVars
<1>5. CASE WaitGive
  BY <1>5, <1>1, <1>2, <1>3 DEF WaitGive, uartVars
<1>6. CASE ReadLoad
  BY <1>6, <1>1, <1>2, <1>3 DEF ReadLoad, Load, uartVars, fifoVars
<1>7. CASE PopTake
  BY <1>7, <1>1, <1>2, <1>3 DEF PopTake, uartVars
<1>8. CASE PopLoad
  BY <1>8, <1>1, <1>2, <1>3 DEF PopLoad, Load, uartVars, fifoVars
<1>9. CASE CheckLoad
  BY <1>9, <1>1, <1>2, <1>3 DEF CheckLoad, Load, uartVars, fifoVars
<1>10. CASE Check
  BY <1>10, <1>1, <1>2, <1>3 DEF Check, uartVars
<1>11. CASE Transmit
  <2>1. dma' = (size > 0) /\ ~dma /\ ~flag /\ pc = "transmit" /\ pc' = "waitFlag" /\ flag' = flag
        /\ UNCHANGED <<readSem, seen>>
    BY <1>11, <1>3 DEF Transmit, fifoVars
  <2>2. CASE size > 0
    <3>1. dma' = TRUE
      BY <2>1, <2>2
    <3> QED BY <2>1, <3>1, <1>1, <1>2, <1>3
  <2>3. CASE size = 0
    <3>1. dma' = FALSE
      <4>1. ~(size > 0)
        BY <2>3
      <4>2. dma' = (dma \/ size > 0)
        BY <1>11 DEF Transmit
      <4> QED BY <2>1, <4>1, <4>2, Zenon
    <3>2. WakeTells => WakeTells'
      BY <2>1, <2>3
    <3>3. SeenIsThere' /\ LineIsNext' /\ PoppedIsSent'
      BY <2>1, <2>3, <3>1, <1>1, <1>2, <1>3
    <3> QED BY <3>2, <3>3, <1>1, <1>2
  <2> QED BY <1>3, <2>2, <2>3
<1>12. CASE WaitFlag
  BY <1>12, <1>1, <1>2, <1>3 DEF WaitFlag, fifoVars
<1> QED BY <1>4, <1>5, <1>6, <1>7, <1>8, <1>9, <1>10, <1>11, <1>12

LEMMA ReadKeeps ==
  ASSUME TypeOK, SingleLoad, FlowInv, Read
  PROVE  FlowInv'
<1> USE DEF FlowInv
<1> DEFINE n == Smaller(UsedNow, LineLen)
<1>1. /\ pc = "read" /\ size' = n /\ line' = Bytes(mem, readIdx, n)
      /\ pc' = IF n = 0 THEN "transmit" ELSE "popTake"
      /\ UNCHANGED <<mem, readIdx, writeIdx, readSem, seen, dma, flag, pushed, popped, sent, late>>
  BY DEF Read, fifoVars, uartVars, history
<1>2. Count \in 0 .. Size - 1 /\ n \in 0 .. LineLen /\ n <= Count /\ Count = pushed - popped
      /\ LineLen \in Nat /\ (UsedNow > 0 => n > 0)
  <2>1. Count \in 0 .. Size - 1 /\ UsedNow <= Count /\ UsedNow \in 0 .. Size - 1
    BY <1>1, UsedTyped DEF RingHolds, SeenIsThere
  <2> QED BY <2>1, FifoAssumption, SerialAssumption DEF Smaller, Count
<1>3. UsedNow = Used(readIdx, seen, seen)
  BY UsedTyped
<1> HIDE DEF n
<1>4. Len(sent) = popped /\ popped \in Nat /\ pushed \in Nat /\ ~dma /\ ~flag
  BY <1>1 DEF PoppedIsSent, TypeOK
<1>5. Follows(line', n, popped)
  <2>1. /\ readIdx \in Indices /\ mem \in [Indices -> Nat] /\ Holds(mem, readIdx, Count, popped)
    BY DEF TypeOK, RingHolds
  <2>2. ASSUME NEW k \in 1 .. n
        PROVE  mem[(readIdx + k - 1) % Size] = popped + k
    <3>1. k - 1 \in 0 .. Count - 1 /\ k - 1 \in 0 .. Size - 1
      BY <1>2, FifoAssumption
    <3>2. readIdx + k - 1 = readIdx + (k - 1)
      BY <2>1, FifoAssumption DEF Indices
    <3>3. (readIdx + k - 1) % Size = Advance(readIdx, k - 1)
      BY <2>1, <3>1, <3>2, Advances
    <3>4. mem[Advance(readIdx, k - 1)] = popped + 1 + (k - 1)
      BY <2>1, <3>1 DEF Holds
    <3> QED BY <1>4, <3>3, <3>4
  <2>3. line' = [k \in 1 .. n |-> popped + k]
    BY <1>1, <2>2 DEF Bytes
  <2> QED BY <1>2, <1>4, <2>3 DEF Follows
<1>6. RingHolds' /\ SentRight'
  BY <1>1 DEF RingHolds, Count, SentRight
<1>7. Left' = Count - n /\ (pc' = "popTake" => n > 0)
  BY <1>1, <1>2, <1>4 DEF Left
<1>8. SeenIsThere' /\ LineIsNext' /\ PoppedIsSent'
  BY <1>1, <1>2, <1>4, <1>5, <1>7 DEF SeenIsThere, LineIsNext, PoppedIsSent, Popping
<1>9. ASSUME WakeTells PROVE WakeTells'
  <2>1. n > 0 /\ pc' = "popTake"
    BY <1>1, <1>2, <1>3, <1>9 DEF WakeTells
  <2> QED BY <1>1, <2>1 DEF WakeTells
<1> QED BY <1>1, <1>6, <1>8, <1>9

LEMMA PopKeeps ==
  ASSUME TypeOK, SingleLoad, FlowInv, Pop
  PROVE  FlowInv'
<1> USE DEF FlowInv
<1>1. /\ pc = "pop" /\ pc' = "checkLoad"
      /\ UNCHANGED <<mem, writeIdx, readSem, seen, size, line, dma, flag, pushed, sent, late>>
  BY DEF Pop, uartVars
<1>2. /\ Count \in 0 .. Size - 1 /\ size \in 1 .. Size - 1 /\ size <= Count /\ popped \in Nat
      /\ Len(sent) = popped /\ pushed \in Nat /\ Count = pushed - popped /\ Left = Count - size
      /\ Size \in Nat
  <2>1. Left = Count - size
    BY <1>1 DEF Left, Count
  <2>2. Count \in 0 .. Size - 1 /\ size \in Nat /\ size > 0 /\ Left >= 0
    BY <1>1, SerialAssumption DEF RingHolds, TypeOK, LineIsNext, Popping, SeenIsThere
  <2> QED BY <2>1, <2>2, <1>1, FifoAssumption DEF PoppedIsSent, TypeOK, Count
<1>3. readIdx' = Advance(readIdx, size) /\ popped' = popped + size
  <2>1. Smaller(UsedNow, size) = size
    <3>1. UsedNow >= size /\ UsedNow \in Int
      BY <1>1, UsedTyped DEF SeenIsThere
    <3> QED BY <3>1, <1>2 DEF Smaller
  <2> QED BY <2>1 DEF Pop
<1>4. readIdx \in Indices /\ readIdx' \in Indices
  BY <1>2, <1>3, Advances DEF TypeOK
<1>5. Count' = Count - size
  BY <1>1, <1>2, <1>3 DEF Count
<1>6. RingHolds'
  <2>1. ASSUME NEW k \in 0 .. Size - 1, k + size <= Count
        PROVE  Advance(readIdx', k) = Advance(readIdx, size + k)
    BY <2>1, <1>2, <1>3, <1>4, AdvancesTwice
  <2>2. writeIdx' = Advance(readIdx', Count')
    <3>1. Count - size \in 0 .. Size - 1 /\ Count - size + size <= Count /\ size + (Count - size) = Count
      BY <1>2
    <3> QED BY <3>1, <2>1, <1>1, <1>5 DEF RingHolds
  <2>3. Holds(mem', readIdx', Count', popped')
    <3> SUFFICES ASSUME NEW k \in 0 .. Count - size - 1
                 PROVE  mem[Advance(readIdx', k)] = popped + size + 1 + k
      BY <1>1, <1>3, <1>5 DEF Holds
    <3>1. k \in 0 .. Size - 1 /\ k + size <= Count /\ size + k \in 0 .. Count - 1
      BY <1>2
    <3>2. mem[Advance(readIdx, size + k)] = popped + 1 + (size + k)
      BY <3>1 DEF RingHolds, Holds
    <3> QED BY <3>1, <3>2, <2>1, <1>2
  <2> QED BY <2>2, <2>3, <1>2, <1>5 DEF RingHolds
<1>7. Left' = Left
  BY <1>1, <1>2, <1>3 DEF Left
<1>8. SentRight' /\ SeenIsThere' /\ (WakeTells => WakeTells')
  BY <1>1, <1>2, <1>7 DEF SeenIsThere, WakeTells, SentRight
<1>9. LineIsNext' /\ PoppedIsSent'
  BY <1>1, <1>2, <1>3 DEF LineIsNext, PoppedIsSent, Popping
<1> QED BY <1>1, <1>6, <1>8, <1>9

LEMMA DmaDoneKeeps ==
  ASSUME TypeOK, FlowInv, DmaDone
  PROVE  FlowInv'
<1> USE DEF FlowInv
<1>1. /\ dma /\ dma' = FALSE /\ flag' = TRUE /\ sent' = sent \o line
      /\ UNCHANGED <<mem, readIdx, writeIdx, readSem, pc, seen, size, line, pushed, popped, late>>
  BY DEF DmaDone, fifoVars, threadVars
<1>2. /\ pc = "waitFlag" /\ Follows(line, size, Len(sent)) /\ Len(sent) = popped - size
      /\ sent \in Seq(Nat) /\ size \in Nat /\ popped \in Nat
  BY <1>1, SerialAssumption DEF PoppedIsSent, LineIsNext, TypeOK
<1>3. sent' \in Seq(Nat) /\ Len(sent') = popped
  <2>1. line \in Seq(Nat) /\ Len(line) = size
    BY <1>2 DEF Follows
  <2>2. sent \o line \in Seq(Nat) /\ Len(sent \o line) = Len(sent) + Len(line)
    BY <1>2, <2>1, Joined
  <2> QED BY <1>1, <1>2, <2>1, <2>2
<1>4. SentRight'
  BY <1>1, <1>2, <1>3 DEF SentRight, Follows
<1>5. RingHolds' /\ Left' = Left /\ Count' = Count
  BY <1>1 DEF RingHolds, Count, Left
<1>6. SeenIsThere' /\ (WakeTells => WakeTells')
  BY <1>1, <1>2, <1>5 DEF SeenIsThere, WakeTells
<1>7. LineIsNext' /\ PoppedIsSent'
  BY <1>1, <1>2, <1>3 DEF LineIsNext, PoppedIsSent, Popping
<1> QED BY <1>1, <1>4, <1>5, <1>6, <1>7

LEMMA FlowKeeps ==
  ASSUME TypeOK, BootInv, SingleLoad, full \/ FlowInv, [Next]_vars
  PROVE  full' \/ FlowInv'
<1>1. CASE full
  <2>1. IsrPush \/ BootPut \/ full' = full
    BY DEF Next, BootStep, ThreadStep, BootTake, BootGiveWrite, BootGiveRead, BootOpen, WaitTake, WaitGive,
           ReadLoad, Read, PopTake, PopLoad, Pop, CheckLoad, Check, Transmit, WaitFlag, Load, DmaDone,
           history, vars
  <2>2. ASSUME NEW n, Put(n) PROVE full'
    BY <1>1, <2>2, Zenon DEF Put
  <2> QED BY <1>1, <2>1, <2>2, Zenon DEF IsrPush, BootPut
<1>2. CASE FlowInv /\ ~full'
  <2>1. CASE UNCHANGED vars
    <3>1. UNCHANGED <<mem, readIdx, writeIdx, readSem, pc, seen, size, line, dma, flag, pushed, popped, sent, late>>
      BY <2>1 DEF vars, fifoVars, bootVars, threadVars, uartVars, history
    <3>2. RingHolds' /\ Left' = Left /\ Count' = Count /\ SentRight'
      BY <1>2, <3>1 DEF FlowInv, RingHolds, Count, Left, SentRight
    <3> QED BY <1>2, <3>1, <3>2 DEF FlowInv, SeenIsThere, LineIsNext, PoppedIsSent, WakeTells, Popping
  <2> QED BY <1>2, <2>1, PushesKeep, BootKeeps, WaitAndLoadKeep, ReadKeeps, PopKeeps, DmaDoneKeeps
           DEF Next, BootStep, ThreadStep
<1> QED BY <1>1, <1>2

LEMMA SerialInvHolds ==
  ASSUME SingleLoad
  PROVE  Spec => []SerialInv
<1>1. Init => SerialInv /\ BootInv
  BY TypeInitially, FlowInitially DEF SerialInv
<1>2. SerialInv /\ BootInv /\ [Next]_vars => (SerialInv /\ BootInv)'
  BY TypeKeeps, SleepKeeps, FlowKeeps DEF SerialInv
<1> QED BY <1>1, <1>2, PTL DEF Spec

-----------------------------------------------------------------------------
(* The properties. *)

\* The bytes on the wire are those pushed, in order, whatever the interrupt and the
\* start-up task push between the thread's loads (serial_io.c:120-128).
THEOREM WireInOrder ==
  ASSUME SingleLoad
  PROVE  Spec => []StreamIntact
<1>1. SerialInv => StreamIntact
  BY DEF SerialInv, FlowInv, SentRight, StreamIntact
<1> QED BY <1>1, SerialInvHolds, PTL

\* Who comes out of bfifo_wait_avail finds data (blocking_fifo.h:86-90), and who waits
\* for a transfer has started one, unless the start-up task released readSem late
\* (blocking_fifo.c:80) or the ring was filled (blocking_fifo.c:53).
THEOREM WaitFindsData ==
  ASSUME SingleLoad
  PROVE  Spec => []WaitReturnsData
<1>1. SerialInv => WaitReturnsData
  <2> SUFFICES ASSUME SerialInv, ~late, ~full
               PROVE  /\ pc = "readLoad" => Used(readIdx, writeIdx, writeIdx) > 0
                      /\ ~Stuck
    BY DEF WaitReturnsData
  <2>1. FlowInv /\ WakeTells /\ TypeOK
    BY DEF SerialInv, FlowInv
  <2>2. ~Stuck
    BY <2>1 DEF WakeTells, Stuck
  <2>3. ASSUME pc = "readLoad" PROVE Used(readIdx, writeIdx, writeIdx) > 0
    <3>1. Used(readIdx, writeIdx, writeIdx) = Count /\ Count \in Int
      BY <2>1, Advances DEF FlowInv, RingHolds, TypeOK
    <3>2. Left > 0
      BY <2>1, <2>3 DEF WakeTells
    <3>3. Left = Count - 0
      BY <2>3, LeftIs DEF Popping
    <3> QED BY <3>1, <3>2, <3>3
  <2> QED BY <2>2, <2>3
<1> QED BY <1>1, SerialInvHolds, PTL

\* The thread does not sleep on a ring with data in it (bfifo_pop, blocking_fifo.c:144-147).
THEOREM NoLostWakeUp ==
  ASSUME SingleLoad
  PROVE  Spec => []AsleepMeansEmpty
<1>1. SerialInv => AsleepMeansEmpty
  <2> SUFFICES ASSUME SerialInv, pc = "waitTake", readSem = 0, ~Giving
               PROVE  Used(readIdx, writeIdx, writeIdx) = 0
    BY DEF AsleepMeansEmpty, Giving
  <2>1. readIdx = writeIdx /\ readIdx \in Indices
    BY DEF SerialInv, SleepInv, TypeOK
  <2> QED BY <2>1, FifoAssumption DEF Used, Indices
<1> QED BY <1>1, SerialInvHolds, PTL

-----------------------------------------------------------------------------
(* The display task, for measurements of any value, arriving at any step.      *)

\* The task works on an existing channel.
AtChannel == displayPc \in {"load", "redraw", "remember"} => channel \in Channels

\* What the redraw is called with, and what it leaves on the screen, is up to
\* date for the channels that no measurement touched since the call.
DrawsLatest ==
  \A c \in Channels : c \notin raced =>
    /\ displayPc = "redraw" => args[c] = channels[c]
    /\ displayPc = "remember" => shown[c] = channels[c]

\* The screen has what was measured, or the loop will see a difference.
ScreenKnown ==
  \A c \in Channels : c \notin raced \cup repeats /\ displayPc \in {"check", "sleep"} =>
    shown[c] = channels[c] \/ channels[c] # prevChannels[c]

DisplayInv == DisplayTypeOK /\ AtChannel /\ DrawsLatest /\ ScreenKnown

LEMMA DisplayInitKeeps ==
  ASSUME DisplayInit
  PROVE  DisplayInv
BY DisplayAssumption DEF DisplayInit, Zero, DisplayInv, DisplayTypeOK, AtChannel, DrawsLatest, ScreenKnown

LEMMA DisplayNextKeeps ==
  ASSUME DisplayInv, [DisplayNext]_displayVars
  PROVE  DisplayInv'
<1> USE DisplayAssumption DEF DisplayInv, DisplayTypeOK, AtChannel, DrawsLatest, ScreenKnown
<1>1. ASSUME NEW c \in Measured, NEW freq \in 0 .. MaxValue, Measure(c, freq) PROVE DisplayInv'
  <2>1. c \in Channels
    OBVIOUS
  <2>2. channels' \in [Channels -> 0 .. MaxValue]
    BY <1>1, <2>1 DEF Measure
  <2>3. channels'[c] = freq /\ \A d \in Channels : d # c => channels'[d] = channels[d]
    BY <1>1, <2>1 DEF Measure
  <2>4. raced' \subseteq Channels /\ raced \subseteq raced'
        /\ (displayPc \in {"redraw", "remember"} => c \in raced')
    BY <1>1, <2>1 DEF Measure
  <2>5. repeats' \subseteq Channels /\ (\A d \in Channels : d # c => (d \in repeats' <=> d \in repeats))
        /\ (freq = prevChannels[c] /\ shown[c] # freq => c \in repeats')
    BY <1>1, <2>1 DEF Measure
  <2>6. UNCHANGED <<prevChannels, args, shown, displayPc, channel>>
    BY <1>1 DEF Measure
  <2>7. DisplayTypeOK' /\ AtChannel'
    BY <2>2, <2>4, <2>5, <2>6
  <2>8. DrawsLatest'
    BY <2>3, <2>4, <2>6
  <2>9. ScreenKnown'
    <3> SUFFICES ASSUME NEW d \in Channels, d \notin raced' \cup repeats', displayPc \in {"check", "sleep"}
                 PROVE  shown[d] = channels'[d] \/ channels'[d] # prevChannels[d]
      BY <2>6
    <3>1. CASE d = c
      BY <2>3, <2>5, <3>1
    <3>2. CASE d # c
      BY <2>3, <2>4, <2>5, <3>2
    <3> QED BY <3>1, <3>2
  <2> QED BY <2>7, <2>8, <2>9
<1>2. CASE First
  BY <1>2 DEF First
<1>3. CASE CheckChannel
  BY <1>3 DEF CheckChannel
<1>4. CASE LoadArgs
  BY <1>4 DEF LoadArgs
<1>5. CASE Redraw
  BY <1>5 DEF Redraw
<1>6. CASE Remember
  <2>1. channel \in Channels
    BY <1>6 DEF Remember
  <2>2. prevChannels' \in [Channels -> 0 .. MaxValue]
    BY <1>6, <2>1 DEF Remember
  <2>3. prevChannels'[channel] = channels[channel]
        /\ \A d \in Channels : d # channel => prevChannels'[d] = prevChannels[d]
    BY <1>6, <2>1 DEF Remember
  <2> QED BY <1>6, <2>1, <2>2, <2>3 DEF Remember
<1>7. CASE Sleep
  BY <1>7 DEF Sleep
<1>8. CASE Wake
  BY <1>8 DEF Wake
<1>9. CASE UNCHANGED displayVars
  BY <1>9 DEF displayVars
<1> QED
  BY <1>1, <1>2, <1>3, <1>4, <1>5, <1>6, <1>7, <1>8, <1>9 DEF DisplayNext, TaskStep

\* For measurements of any value, arriving between any two steps of the display
\* task: the loop takes a value for shown that is not only after a measurement during
\* the redraw (main.c:198-201), or one that went back to the remembered value.
THEOREM OnlyRedrawLoses == DisplaySpec => []OnlyTheRaceLoses
<1>1. DisplayInit => DisplayInv
  BY DisplayInitKeeps
<1>2. DisplayInv /\ [DisplayNext]_displayVars => DisplayInv'
  BY DisplayNextKeeps
<1>3. DisplayInv => OnlyTheRaceLoses
  BY DEF DisplayInv, ScreenKnown, OnlyTheRaceLoses
<1> QED BY <1>1, <1>2, <1>3, PTL DEF DisplaySpec
=============================================================================
