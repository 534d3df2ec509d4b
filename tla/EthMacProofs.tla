----------------------------- MODULE EthMacProofs -----------------------------
(***************************************************************************)
(* Proofs about EthMac for rings of any length, any number of packets and  *)
(* frames, buffers that fail and a DMA that may fill the last descriptor:  *)
(* the types (Shape), the transmit ring (Unseen, OrderInv) and the receive *)
(* ring (RxInv).                                                           *)
(***************************************************************************)
EXTENDS EthMac, SequenceTheorems, FiniteSetTheorems, WellFoundedInduction, TLAPS

-----------------------------------------------------------------------------
(* The indices. *)

LEMMA Indices ==
  /\ TxIdx \subseteq Nat /\ 0 \in TxIdx /\ TxLen \notin TxIdx /\ TxLen \in Nat
  /\ IsFiniteSet(TxIdx)
  /\ RxIdx \subseteq Nat /\ 0 \in RxIdx
  /\ \A i \in TxIdx : NextTx(i) \in TxIdx
  /\ \A i \in RxIdx : NextRx(i) \in RxIdx /\ PrevRx(i) \in RxIdx
<1>1. IsFiniteSet(TxIdx)
  <2>1. 0 \in Int /\ TxLen - 1 \in Int
    BY EthAssumption
  <2> QED BY <2>1, FS_Interval, Zenon DEF TxIdx
<1> QED BY <1>1, EthAssumption DEF TxIdx, RxIdx, NextTx, NextRx, PrevRx

LEMMA SetInduction ==
  ASSUME NEW S, 0 \in S, \A n \in Nat : n \in S => n + 1 \in S
  PROVE  Nat \subseteq S
<1> SUFFICES ASSUME NEW b \in Nat, b \notin S PROVE FALSE
  OBVIOUS
<1> DEFINE T == {n \in Nat : n \notin S}
           R == OpToRel(<, Nat)
<1>1. IsWellFoundedOn(R, Nat)
  BY NatLessThanWellFounded
<1>2. T \subseteq Nat /\ T # {}
  OBVIOUS
<1> HIDE DEF R, T
<1>3. PICK m \in T : \A y \in T : ~(<<y, m>> \in R)
  BY <1>1, <1>2, WFMin
<1>4. \A y \in T : ~(y < m)
  BY <1>2, <1>3 DEF R, OpToRel
<1>5. m \in Nat /\ m # 0 /\ m - 1 \in Nat /\ m - 1 \notin T
  BY <1>2, <1>4 DEF T
<1> QED BY <1>5 DEF T

-----------------------------------------------------------------------------
(* The search for the oldest time. *)

\* One step of the search, from what it has.
Better(m, j) ==
  IF j \notin Timed THEN m
  ELSE IF m = TxLen \/ Delta(j) = 1 \/ Delta(j) < Delta(m) THEN j
  ELSE m

LEMMA SearchSteps ==
  /\ Searched[0] = TxLen
  /\ \A i \in 1 .. TxLen : Searched[i] = Better(Searched[i - 1], i - 1)
<1> DEFINE Def(f, i) == IF i = 0 THEN TxLen ELSE Better(f[i - 1], i - 1)
           S == {n \in Nat : \E g : g = [i \in 0 .. n |-> Def(g, i)]}
<1>1. 0 \in S
  <2> DEFINE g == [i \in 0 .. 0 |-> TxLen]
  <2>1. g = [i \in 0 .. 0 |-> Def(g, i)]
    OBVIOUS
  <2> QED BY <2>1
<1>2. ASSUME NEW n \in Nat, n \in S PROVE n + 1 \in S
  <2>1. PICK g : g = [i \in 0 .. n |-> Def(g, i)]
    BY <1>2
  <2> DEFINE h == [i \in 0 .. n + 1 |-> IF i = n + 1 THEN Def(g, n + 1) ELSE g[i]]
  <2>2. ASSUME NEW i \in 0 .. n + 1 PROVE h[i] = Def(h, i)
    <3>1. CASE i = 0
      BY <2>1, <3>1
    <3>2. CASE i # 0
      <4>1. i - 1 \in 0 .. n /\ i - 1 # n + 1 /\ h[i - 1] = g[i - 1]
        BY <3>2
      <4>2. h[i] = Better(g[i - 1], i - 1)
        BY <2>1, <3>2
      <4> QED BY <3>2, <4>1, <4>2
    <3> QED BY <3>1, <3>2
  <2>3. h = [i \in 0 .. n + 1 |-> Def(h, i)]
    BY <2>2
  <2> HIDE DEF h
  <2> QED BY <2>3
<1>3. TxLen \in S
  <2> HIDE DEF S
  <2>1. Nat \subseteq S
    BY <1>1, <1>2, SetInduction
  <2> QED BY <2>1, EthAssumption
<1>4. \E g : g = [i \in 0 .. TxLen |-> Def(g, i)]
  BY <1>3
<1>5. Searched = [i \in 0 .. TxLen |-> Def(Searched, i)]
  BY <1>4 DEF Searched, Better
<1>6. Searched[0] = Def(Searched, 0) /\ \A i \in 1 .. TxLen : Searched[i] = Def(Searched, i)
  BY <1>5, EthAssumption
<1> HIDE DEF Better
<1> QED BY <1>6

\* What the search has after i descriptors is one of these with a time, if there is one.
Found(i) ==
  \/ Searched[i] = TxLen /\ \A j \in Timed : j >= i
  \/ Searched[i] \in Timed /\ Searched[i] < i

LEMMA SearchFinds == \A i \in 0 .. TxLen : Found(i)
<1> DEFINE S == {n \in Nat : n \in 0 .. TxLen => Found(n)}
<1>0. Timed \subseteq Nat /\ TxLen \in Nat /\ TxLen \notin Timed
  BY Indices DEF Timed
<1>1. 0 \in S
  BY <1>0, SearchSteps DEF Found
<1>2. ASSUME NEW n \in Nat, n \in S PROVE n + 1 \in S
  <2> SUFFICES ASSUME n + 1 \in 0 .. TxLen PROVE Found(n + 1)
    OBVIOUS
  <2>1. Found(n) /\ n + 1 \in 1 .. TxLen /\ (n + 1) - 1 = n
    BY <1>0, <1>2
  <2>2. Searched[n + 1] = Better(Searched[n], n)
    BY <2>1, SearchSteps
  <2>3. CASE n \notin Timed
    <3>1. Searched[n + 1] = Searched[n]
      BY <2>2, <2>3 DEF Better
    <3>2. \A j \in Timed : j >= n => j >= n + 1
      BY <1>0, <2>3
    <3>3. \A j \in Nat : j < n => j < n + 1
      OBVIOUS
    <3> QED BY <1>0, <2>1, <3>1, <3>2, <3>3 DEF Found
  <2>4. CASE n \in Timed
    <3>1. Searched[n + 1] \in {n, Searched[n]} /\ (Searched[n] = TxLen => Searched[n + 1] = n)
      BY <2>2, <2>4 DEF Better
    <3>2. Searched[n + 1] \in Timed /\ Searched[n + 1] < n + 1
      <4>1. n < n + 1 /\ \A m \in Nat : m < n => m < n + 1
        BY <1>2
      <4>2. Searched[n] = TxLen \/ (Searched[n] \in Timed /\ Searched[n] < n)
        BY <2>1 DEF Found
      <4>3. CASE Searched[n + 1] = n
        BY <2>4, <4>1, <4>3
      <4>4. CASE Searched[n + 1] # n
        <5>1. Searched[n + 1] = Searched[n] /\ Searched[n] \in Timed /\ Searched[n] < n
          BY <3>1, <4>2, <4>4
        <5> QED BY <1>0, <4>1, <5>1
      <4> QED BY <4>3, <4>4
    <3> QED BY <3>2 DEF Found
  <2> QED BY <2>3, <2>4
<1> HIDE DEF S
<1>3. Nat \subseteq S
  BY <1>1, <1>2, SetInduction
<1> QED BY <1>3 DEF S

LEMMA OldestTimed ==
  ASSUME Timed # {}
  PROVE  Oldest \in Timed
<1>1. Found(TxLen) /\ Timed \subseteq TxIdx
  BY SearchFinds, EthAssumption DEF Timed
<1>2. \A j \in TxIdx : ~(j >= TxLen)
  BY EthAssumption DEF TxIdx
<1> QED BY <1>1, <1>2 DEF Found, Oldest

\* As long as the packet numbers do not wrap, a distance of 1 is the least, and what
\* the search has is the least of those it saw.
LeastOf(i) == Searched[i] # TxLen => \A j \in Timed : j < i => Delta(Searched[i]) <= Delta(j)

LEMMA OldestIsLeast ==
  ASSUME \A j \in Timed : Delta(j) \in Nat \ {0},
         \A j, k \in Timed : Delta(j) = Delta(k) => j = k
  PROVE  \A j \in Timed : Delta(Oldest) <= Delta(j)
<1> DEFINE S == {n \in Nat : n \in 0 .. TxLen => LeastOf(n)}
<1>0. Timed \subseteq Nat /\ TxLen \in Nat /\ TxLen \notin Timed
  BY Indices DEF Timed
<1>1. 0 \in S
  BY <1>0, SearchSteps DEF LeastOf
<1>2. ASSUME NEW n \in Nat, n \in S PROVE n + 1 \in S
  <2> SUFFICES ASSUME n + 1 \in 0 .. TxLen PROVE LeastOf(n + 1)
    OBVIOUS
  <2>1. LeastOf(n) /\ n \in 0 .. TxLen /\ n + 1 \in 1 .. TxLen /\ (n + 1) - 1 = n
    BY <1>0, <1>2
  <2>2. Searched[n + 1] = Better(Searched[n], n) /\ Found(n)
    BY <2>1, SearchSteps, SearchFinds
  <2>3. \A j \in Timed : j < n + 1 => j < n \/ j = n
    BY <1>0
  <2>4. CASE n \notin Timed
    <3>1. Searched[n + 1] = Searched[n]
      BY <2>2, <2>4 DEF Better
    <3> QED BY <2>1, <2>3, <2>4, <3>1 DEF LeastOf
  <2>5. CASE n \in Timed /\ Searched[n] = TxLen
    <3>1. Searched[n + 1] = n /\ \A j \in Timed : ~(j < n)
      BY <1>0, <2>2, <2>5 DEF Better, Found
    <3> QED BY <2>3, <2>5, <3>1 DEF LeastOf
  <2>6. CASE n \in Timed /\ Searched[n] # TxLen
    <3> DEFINE m == Searched[n]
    <3>1. m \in Timed /\ Delta(m) \in Nat \ {0} /\ Delta(n) \in Nat \ {0}
      BY <2>2, <2>6 DEF Found
    <3>2. \A j \in Timed : j < n => Delta(m) <= Delta(j)
      BY <2>1, <2>6 DEF LeastOf
    <3>3. CASE Delta(n) = 1 \/ Delta(n) < Delta(m)
      <4>1. Searched[n + 1] = n
        BY <2>2, <2>6, <3>3 DEF Better
      <4>2. \A j \in Timed : j < n => Delta(n) <= Delta(j)
        <5> SUFFICES ASSUME NEW j \in Timed, j < n PROVE Delta(n) <= Delta(j)
          OBVIOUS
        <5>1. Delta(j) \in Nat \ {0} /\ Delta(m) <= Delta(j)
          BY <3>2
        <5> HIDE DEF m
        <5> QED BY <3>1, <3>3, <5>1
      <4> QED BY <2>3, <3>1, <4>1, <4>2 DEF LeastOf
    <3>4. CASE ~(Delta(n) = 1 \/ Delta(n) < Delta(m))
      <4>1. Searched[n + 1] = m
        BY <2>2, <2>6, <3>4 DEF Better
      <4>2. Delta(m) <= Delta(n)
        <5> HIDE DEF m
        <5> QED BY <3>1, <3>4
      <4> QED BY <2>3, <3>2, <4>1, <4>2 DEF LeastOf
    <3> QED BY <3>3, <3>4
  <2> QED BY <2>4, <2>5, <2>6
<1> HIDE DEF S
<1>3. Nat \subseteq S
  BY <1>1, <1>2, SetInduction
<1>4. LeastOf(TxLen)
  BY <1>0, <1>3 DEF S
<1>5. \A j \in Timed : j < TxLen
  BY EthAssumption DEF Timed, TxIdx
<1>6. Timed # {} => Oldest # TxLen
  BY <1>0, OldestTimed
<1> QED BY <1>4, <1>5, <1>6 DEF LeastOf, Oldest

-----------------------------------------------------------------------------
(* The types. *)

Descs == [own : BOOLEAN, ttse : BOOLEAN, ioc : BOOLEAN, packet : 0 .. MaxPackets,
          time : 0 .. MaxPackets, tag : 0 .. MaxPackets, txCntr : 0 .. CntMod - 1]
RxDescs == [kind : {"free", "plain", "stamped", "time"}, frame : 0 .. MaxFrames]

Shape ==
  /\ TypeOK
  /\ thread \in {"wait", "fill"} => sent < MaxPackets
  /\ \A i \in RxIdx : Used(i) => rxRing[i].frame # 0

LEMMA TimedType ==
  ASSUME Shape
  PROVE  /\ Timed \subseteq TxIdx /\ IsFiniteSet(Timed) /\ Cardinality(Timed) \in Nat
         /\ {txRing[i].time : i \in Timed} \subseteq 1 .. MaxPackets
<1>1. Timed \subseteq TxIdx
  BY DEF Timed
<1>2. IsFiniteSet(Timed)
  BY <1>1, Indices, FS_Subset
<1>3. Cardinality(Timed) \in Nat
  BY <1>2, FS_CardinalityType
<1>4. ASSUME NEW i \in Timed PROVE txRing[i].time \in 1 .. MaxPackets
  <2>1. txRing[i] \in Descs /\ txRing[i].time # 0
    BY DEF Timed, Shape, TypeOK, Descs
  <2> QED BY <2>1, EthAssumption DEF Descs
<1> QED BY <1>1, <1>2, <1>3, <1>4

\* What the thread and the handler make of a descriptor is one.
LEMMA DescChanges ==
  ASSUME NEW d \in Descs
  PROVE  /\ [d EXCEPT !.ttse = FALSE, !.ioc = FALSE, !.packet = 0, !.time = 0] \in Descs
         /\ [d EXCEPT !.own = FALSE, !.ttse = FALSE, !.ioc = FALSE,
                      !.packet = 0, !.time = 0, !.tag = 0] \in Descs
         /\ \A t \in 0 .. MaxPackets, n \in 0 .. CntMod - 1 :
              [d EXCEPT !.tag = t, !.txCntr = n] \in Descs
<1>1. 0 \in 0 .. MaxPackets
  BY EthAssumption
<1> QED BY <1>1 DEF Descs

LEMMA ShapeInitially == Init => Shape
BY EthAssumption, Indices DEF Init, Shape, TypeOK, EmptyTx, FreeRx, Used

LEMMA ShapeTransmit ==
  ASSUME Shape, TransmitStart \/ ThreadStep
  PROVE  Shape'
<1> USE EthAssumption, Indices DEF Shape
<1>0. /\ txRing \in [TxIdx -> Descs] /\ nextTxDescIdx \in TxIdx /\ txRing[nextTxDescIdx] \in Descs
      /\ sent \in 0 .. MaxPackets /\ txCntSent \in 0 .. CntMod - 1
  BY DEF TypeOK, Descs
<1>1. CASE TransmitStart
  BY <1>1 DEF TransmitStart, TypeOK, state, dma, status, handler, counts, seen, Used
<1>2. CASE TransmitErase
  <2>1. txRing' \in [TxIdx -> Descs]
    <3> DEFINE d == txRing[nextTxDescIdx]
               e == [d EXCEPT !.ttse = FALSE, !.ioc = FALSE, !.packet = 0, !.time = 0]
    <3>1. e \in Descs
      BY <1>0, DescChanges
    <3>2. txRing' = [txRing EXCEPT ![nextTxDescIdx] = e]
      BY <1>2 DEF TransmitErase
    <3> HIDE DEF e
    <3> QED BY <1>0, <3>1, <3>2
  <2>2. {txRing[nextTxDescIdx].time} \ {0} \subseteq 1 .. MaxPackets
    BY <1>0 DEF Descs
  <2>3. erased' \subseteq 1 .. MaxPackets
    BY <1>2, <2>2 DEF TransmitErase, TypeOK
  <2> QED BY <1>2, <2>1, <2>3 DEF TransmitErase, TypeOK, state, dma, status, handler, counts, Used, Descs
<1>3. CASE TransmitFill
  <2>1. txCntSent' \in 0 .. CntMod - 1
    BY <1>0, <1>3 DEF TransmitFill
  <2>2. sent' \in 0 .. MaxPackets
    BY <1>0, <1>3 DEF TransmitFill
  <2>3. txRing' \in [TxIdx -> Descs]
    <3> DEFINE d == txRing[nextTxDescIdx]
               t == IF withTime THEN sent' ELSE d.tag
               e == [d EXCEPT !.tag = t, !.txCntr = txCntSent']
    <3>1. t \in 0 .. MaxPackets
      BY <1>0, <2>2 DEF Descs
    <3>2. txRing' = [txRing EXCEPT ![nextTxDescIdx] = e]
      BY <1>3 DEF TransmitFill
    <3> HIDE DEF t
    <3>3. e \in Descs
      BY <1>0, <2>1, <3>1, DescChanges
    <3> HIDE DEF e
    <3> QED BY <1>0, <3>2, <3>3
  <2> QED BY <1>3, <2>1, <2>2, <2>3 DEF TransmitFill, TypeOK, dma, status, handler, seen, Used, Descs
<1>4. CASE TransmitPass
  <2>1. withTime \in BOOLEAN
    BY DEF TypeOK
  <2>2. txRing' \in [TxIdx -> Descs]
    BY <1>0, <1>4, <2>1 DEF TransmitPass, Descs
  <2>3. nextTxDescIdx' \in TxIdx
    BY <1>0, <1>4 DEF TransmitPass
  <2> QED BY <1>4, <2>2, <2>3 DEF TransmitPass, TypeOK, dma, status, handler, counts, seen, Used, Descs
<1> QED BY <1>1, <1>2, <1>3, <1>4 DEF ThreadStep

LEMMA ShapeDma ==
  ASSUME Shape, DmaSend \/ \E stamped \in BOOLEAN : DmaReceive(stamped)
  PROVE  Shape'
<1> USE EthAssumption, Indices DEF Shape
<1>1. CASE DmaSend
  <2>1. txRing \in [TxIdx -> Descs] /\ dmaTx \in TxIdx /\ txRing[dmaTx] \in Descs
    BY DEF TypeOK, Descs
  <2>2. (IF txRing[dmaTx].ttse THEN txRing[dmaTx].packet ELSE 0) \in 0 .. MaxPackets
    BY <2>1 DEF Descs
  <2>3. txRing' \in [TxIdx -> Descs]
    BY <1>1, <2>1, <2>2 DEF DmaSend, Descs
  <2>4. ti' \in BOOLEAN /\ dmaTx' \in TxIdx
    BY <1>1, <2>1 DEF DmaSend, TypeOK, Descs
  <2> QED BY <1>1, <2>3, <2>4 DEF DmaSend, TypeOK, state, caller, handler, counts, seen, Used, Descs
<1>2. ASSUME NEW stamped \in BOOLEAN, DmaReceive(stamped) PROVE Shape'
  <2>1. frames' \in 1 .. MaxFrames /\ frames' \in 0 .. MaxFrames /\ frames' # 0
    BY <1>2 DEF DmaReceive, TypeOK
  <2>2. dmaRx' \in RxIdx
    BY <1>2 DEF DmaReceive, TypeOK
  <2>3. ASSUME NEW i \in RxIdx
        PROVE  rxRing'[i] \in RxDescs /\ (rxRing'[i].kind # "free" => rxRing'[i].frame # 0)
    <3>1. rxRing'[i] = IF i = dmaRx THEN [kind |-> IF stamped THEN "stamped" ELSE "plain", frame |-> frames']
                       ELSE IF i \in Taken(stamped) THEN [kind |-> "time", frame |-> frames']
                       ELSE rxRing[i]
      BY <1>2 DEF DmaReceive
    <3>2. rxRing[i] \in RxDescs /\ (rxRing[i].kind # "free" => rxRing[i].frame # 0)
      BY DEF TypeOK, RxDescs, Used
    <3> QED BY <2>1, <3>1, <3>2 DEF RxDescs
  <2>4. rxRing' \in [RxIdx -> RxDescs]
    BY <1>2, <2>3 DEF DmaReceive
  <2>5. behind' \subseteq behind \cup {frames'}
    BY <1>2 DEF DmaReceive
  <2> QED BY <1>2, <2>1, <2>2, <2>3, <2>4 DEF DmaReceive, TypeOK, state, caller, handler, RxDescs, Used
<1> QED BY <1>1, <1>2

LEMMA ScanType ==
  ASSUME Shape, TxScan
  PROVE  /\ minIdx' \in TxIdx /\ left' \in Nat /\ txRing' \in [TxIdx -> Descs]
         /\ txCntAcked' \in 0 .. CntMod - 1 /\ isr' \in {"end", "scan"}
<1> USE EthAssumption, Indices DEF Shape
<1>1. minIdx' \in TxIdx /\ minIdx' = (IF Timed = {} THEN minIdx ELSE Oldest)
  BY TimedType, OldestTimed DEF TxScan, TypeOK
<1>2. left \in Nat /\ left + Cardinality(Timed) \in Nat
  BY TimedType DEF TypeOK
<1>3. left' \in Nat
  BY <1>2 DEF TxScan, TurnsLeft
<1>4. txRing \in [TxIdx -> Descs] /\ txRing[minIdx'] \in Descs
  BY <1>1 DEF TypeOK, Descs
<1>5. txRing' \in [TxIdx -> Descs]
  <2> DEFINE d == txRing[minIdx']
             e == [d EXCEPT !.own = FALSE, !.ttse = FALSE, !.ioc = FALSE,
                            !.packet = 0, !.time = 0, !.tag = 0]
  <2>1. e \in Descs
    BY <1>4, DescChanges
  <2>2. txRing' = txRing \/ txRing' = [txRing EXCEPT ![minIdx'] = e]
    BY <1>1 DEF TxScan
  <2> HIDE DEF e
  <2> QED BY <1>1, <1>4, <2>1, <2>2
<1>6. txCntAcked' \in 0 .. CntMod - 1
  BY <1>1, <1>4 DEF TxScan, Descs, TypeOK
<1> QED BY <1>1, <1>3, <1>5, <1>6 DEF TxScan

LEMMA ShapeIsr ==
  ASSUME Shape, IsrStep
  PROVE  Shape'
<1> USE EthAssumption, Indices DEF Shape
<1>1. CASE IsrEnter
  BY <1>1 DEF IsrEnter, TypeOK, state, caller, dma, status, counts, seen, Used
<1>2. CASE IsrAck
  <2>1. missed' \subseteq 1 .. MaxPackets
    BY <1>2, TimedType DEF IsrAck, TypeOK
  <2> QED BY <1>2, <2>1 DEF IsrAck, TypeOK, state, caller, dma, counts, Used
<1>3. CASE IsrEnd
  <2>1. missed' \subseteq 1 .. MaxPackets
    BY <1>3, TimedType DEF IsrEnd, TypeOK
  <2> QED BY <1>3, <2>1 DEF IsrEnd, TypeOK, state, caller, dma, counts, Used
<1>4. CASE RxFind
  <2>1. PICK n \in 0 .. RxLen - 1 : bd' = (dmaRx - n) % RxLen
    BY <1>4 DEF RxFind
  <2>2. bd' \in RxIdx
    <3>1. dmaRx - n \in Int
      BY DEF TypeOK, RxIdx
    <3> HIDE DEF Shape
    <3>2. \A z \in Int : z % RxLen \in 0 .. RxLen - 1
      BY EthAssumption
    <3> QED BY <2>1, <3>1, <3>2 DEF RxIdx
  <2> QED BY <1>4, <2>2 DEF RxFind, TypeOK, state, caller, dma, status, counts, seen, Used
<1>5. ASSUME StepBd PROVE bd' \in RxIdx
  BY <1>5 DEF StepBd, TypeOK
<1>6. CASE RxRead
  <2>1. bd' \in RxIdx
    BY <1>5, <1>6 DEF RxRead
  <2>2. rxRing' = [i \in RxIdx |-> IF i \in FrameAtBd THEN FreeRx ELSE rxRing[i]]
    BY <1>6 DEF RxRead
  <2>3. ASSUME NEW i \in RxIdx
        PROVE  rxRing'[i] \in RxDescs /\ (rxRing'[i].kind # "free" => rxRing'[i].frame # 0)
    <3>1. rxRing[i] \in RxDescs /\ (rxRing[i].kind # "free" => rxRing[i].frame # 0)
      BY DEF TypeOK, RxDescs, Used
    <3>2. rxRing'[i] \in {FreeRx, rxRing[i]} /\ FreeRx \in RxDescs
      BY <2>2 DEF FreeRx, RxDescs
    <3> QED BY <3>1, <3>2 DEF FreeRx
  <2>4. rxRing' \in [RxIdx -> RxDescs]
    BY <2>2, <2>3
  <2> QED BY <1>6, <2>1, <2>3, <2>4 DEF RxRead, TypeOK, state, caller, dma, status, counts, RxDescs, Used
<1>7. CASE RxKeep
  <2>1. bd' \in RxIdx
    BY <1>5, <1>7 DEF RxKeep
  <2>2. rxRing[bd].frame \in 1 .. MaxFrames
    <3>1. bd \in RxIdx /\ Used(bd)
      BY <1>7 DEF RxKeep, TypeOK
    <3>2. rxRing[bd].frame # 0 /\ rxRing[bd].frame \in 0 .. MaxFrames
      BY <3>1 DEF TypeOK
    <3> QED BY <3>2
  <2>3. kept' \subseteq 1 .. MaxFrames
    BY <1>7, <2>2 DEF RxKeep, TypeOK
  <2> QED BY <1>7, <2>1, <2>3 DEF RxKeep, TypeOK, state, caller, dma, status, counts, Used
<1>8. CASE RxDone
  BY <1>8 DEF RxDone, TypeOK, state, caller, dma, status, counts, Used
<1>9. CASE TxScan
  BY <1>9, ScanType DEF TxScan, TypeOK, caller, dma, status, counts, Used, Descs
<1> QED BY <1>1, <1>2, <1>3, <1>4, <1>6, <1>7, <1>8, <1>9 DEF IsrStep

LEMMA ShapeStep == Shape /\ [Next]_vars => Shape'
<1> SUFFICES ASSUME Shape, [Next]_vars PROVE Shape'
  OBVIOUS
<1>1. CASE UNCHANGED vars
  BY <1>1 DEF vars, state, caller, dma, status, handler, counts, seen, Shape, TypeOK, Used
<1> QED BY <1>1, ShapeTransmit, ShapeDma, ShapeIsr DEF Next

-----------------------------------------------------------------------------
(* What the steps make of the transmit ring. *)

Owned == {i \in TxIdx : txRing[i].own}

\* Only descriptor n changes.
OnlyChanged(n) == \A i \in TxIdx \ {n} : txRing'[i] = txRing[i]

LEMMA EraseRing ==
  ASSUME Shape, TransmitErase
  PROVE  LET n == nextTxDescIdx IN
         /\ OnlyChanged(n) /\ n \notin Owned
         /\ ~txRing'[n].own /\ ~txRing'[n].ttse /\ txRing'[n].time = 0
         /\ Owned' = Owned /\ Timed' = Timed \ {n}
<1>1. /\ nextTxDescIdx \in TxIdx /\ txRing \in [TxIdx -> Descs] /\ txRing[nextTxDescIdx] \in Descs
  BY DEF Shape, TypeOK, Descs
<1>2. txRing' = [txRing EXCEPT ![nextTxDescIdx] =
                   [txRing[nextTxDescIdx] EXCEPT !.ttse = FALSE, !.ioc = FALSE, !.packet = 0, !.time = 0]]
  BY DEF TransmitErase
<1>3. OnlyChanged(nextTxDescIdx)
  BY <1>1, <1>2 DEF OnlyChanged
<1>4. LET e == txRing'[nextTxDescIdx] IN ~e.own /\ ~e.ttse /\ e.time = 0
  BY <1>1, <1>2 DEF TransmitErase, Descs
<1>5. Owned' = Owned /\ nextTxDescIdx \notin Owned
  BY <1>1, <1>3, <1>4 DEF Owned, OnlyChanged, TransmitErase
<1>6. Timed' = Timed \ {nextTxDescIdx}
  BY <1>1, <1>3, <1>4 DEF Timed, OnlyChanged
<1> QED BY <1>3, <1>4, <1>5, <1>6

LEMMA FillRing ==
  ASSUME Shape, TransmitFill
  PROVE  LET n == nextTxDescIdx IN
         /\ OnlyChanged(n)
         /\ txRing'[n].own = txRing[n].own /\ txRing'[n].time = txRing[n].time
         /\ txRing'[n].txCntr = txCntSent' /\ (withTime => txRing'[n].tag = sent')
         /\ txRing'[n].ttse = txRing[n].ttse /\ txRing'[n].ioc = txRing[n].ioc
         /\ Owned' = Owned /\ Timed' = Timed
<1>1. /\ nextTxDescIdx \in TxIdx /\ txRing \in [TxIdx -> Descs] /\ txRing[nextTxDescIdx] \in Descs
  BY DEF Shape, TypeOK, Descs
<1> DEFINE t == IF withTime THEN sent' ELSE txRing[nextTxDescIdx].tag
<1>2. txRing' = [txRing EXCEPT ![nextTxDescIdx] =
                   [txRing[nextTxDescIdx] EXCEPT !.tag = t, !.txCntr = txCntSent']]
  BY DEF TransmitFill
<1>3. OnlyChanged(nextTxDescIdx)
  BY <1>1, <1>2 DEF OnlyChanged
<1>4. LET e == txRing'[nextTxDescIdx]
          d == txRing[nextTxDescIdx] IN
      /\ e.own = d.own /\ e.time = d.time /\ e.ttse = d.ttse /\ e.ioc = d.ioc
      /\ e.tag = t /\ e.txCntr = txCntSent'
  <2> HIDE DEF t
  <2> QED BY <1>1, <1>2 DEF Descs
<1>5. Owned' = Owned
  BY <1>1, <1>3, <1>4 DEF Owned, OnlyChanged
<1>6. Timed' = Timed
  BY <1>1, <1>3, <1>4 DEF Timed, OnlyChanged
<1> QED BY <1>3, <1>4, <1>5, <1>6

LEMMA PassRing ==
  ASSUME Shape, TransmitPass
  PROVE  LET n == nextTxDescIdx IN
         /\ OnlyChanged(n)
         /\ txRing'[n].own /\ txRing'[n].packet = sent
         /\ txRing'[n].ttse = withTime /\ txRing'[n].ioc = withTime
         /\ txRing'[n].tag = txRing[n].tag /\ txRing'[n].txCntr = txRing[n].txCntr
         /\ Owned' = Owned \cup {n} /\ Timed' = Timed \ {n}
<1>1. /\ nextTxDescIdx \in TxIdx /\ txRing \in [TxIdx -> Descs] /\ txRing[nextTxDescIdx] \in Descs
  BY DEF Shape, TypeOK, Descs
<1>2. txRing' = [txRing EXCEPT ![nextTxDescIdx] =
                   [txRing[nextTxDescIdx] EXCEPT !.own = TRUE, !.ttse = withTime, !.ioc = withTime,
                                                 !.packet = sent]]
  BY DEF TransmitPass
<1>3. OnlyChanged(nextTxDescIdx)
  BY <1>1, <1>2 DEF OnlyChanged
<1>4. LET e == txRing'[nextTxDescIdx]
          d == txRing[nextTxDescIdx] IN
      /\ e.own /\ e.packet = sent /\ e.ttse = withTime /\ e.ioc = withTime
      /\ e.tag = d.tag /\ e.txCntr = d.txCntr
  BY <1>1, <1>2 DEF Descs
<1>5. Owned' = Owned \cup {nextTxDescIdx}
  BY <1>1, <1>3, <1>4 DEF Owned, OnlyChanged
<1>6. Timed' = Timed \ {nextTxDescIdx}
  BY <1>1, <1>3, <1>4 DEF Timed, OnlyChanged
<1> QED BY <1>3, <1>4, <1>5, <1>6

LEMMA SendRing ==
  ASSUME Shape, DmaSend
  PROVE  LET d == txRing[dmaTx]
             e == txRing'[dmaTx]
         IN
         /\ OnlyChanged(dmaTx) /\ dmaTx \in Owned
         /\ ~e.own /\ e.time = IF d.ttse THEN d.packet ELSE 0
         /\ e.tag = d.tag /\ e.txCntr = d.txCntr /\ e.ttse = d.ttse /\ e.ioc = d.ioc
         /\ Owned' = Owned \ {dmaTx}
         /\ Timed' = IF e.time = 0 THEN Timed ELSE Timed \cup {dmaTx}
<1>1. /\ dmaTx \in TxIdx /\ txRing \in [TxIdx -> Descs] /\ txRing[dmaTx] \in Descs
  BY DEF Shape, TypeOK, Descs
<1> DEFINE t == IF txRing[dmaTx].ttse THEN txRing[dmaTx].packet ELSE 0
<1>2. txRing' = [txRing EXCEPT ![dmaTx] = [txRing[dmaTx] EXCEPT !.own = FALSE, !.time = t]]
  BY DEF DmaSend
<1>3. OnlyChanged(dmaTx)
  BY <1>1, <1>2 DEF OnlyChanged
<1>4. LET d == txRing[dmaTx]
          e == txRing'[dmaTx]
      IN
      /\ ~e.own /\ e.time = t
      /\ e.tag = d.tag /\ e.txCntr = d.txCntr /\ e.ttse = d.ttse /\ e.ioc = d.ioc
  <2> HIDE DEF t
  <2> QED BY <1>1, <1>2 DEF Descs
<1>5. Owned' = Owned \ {dmaTx} /\ dmaTx \in Owned /\ dmaTx \notin Timed
  BY <1>1, <1>3, <1>4 DEF Owned, OnlyChanged, DmaSend, Timed
<1>6. Timed' = IF txRing'[dmaTx].time = 0 THEN Timed ELSE Timed \cup {dmaTx}
  BY <1>1, <1>3, <1>4, <1>5 DEF Timed, OnlyChanged
<1> QED BY <1>3, <1>4, <1>5, <1>6

\* A turn that finds a time, or that follows one that did, clears a descriptor.
LEMMA ScanRing ==
  ASSUME Shape, TxScan, left + Cardinality(Timed) # 0
  PROVE  LET e == txRing'[minIdx'] IN
         /\ minIdx' \in TxIdx /\ minIdx' = IF Timed = {} THEN minIdx ELSE Oldest
         /\ OnlyChanged(minIdx')
         /\ ~e.own /\ e.time = 0 /\ e.tag = 0 /\ ~e.ttse /\ e.txCntr = txRing[minIdx'].txCntr
         /\ txCntAcked' = txRing[minIdx'].txCntr
         /\ Owned' = Owned \ {minIdx'} /\ Timed' = Timed \ {minIdx'}
<1>1. /\ minIdx' \in TxIdx /\ minIdx' = (IF Timed = {} THEN minIdx ELSE Oldest)
  BY TimedType, OldestTimed DEF TxScan, Shape, TypeOK
<1>2. txRing \in [TxIdx -> Descs] /\ txRing[minIdx'] \in Descs
  BY <1>1 DEF Shape, TypeOK, Descs
<1>3. txRing' = [txRing EXCEPT ![minIdx'] =
                   [txRing[minIdx'] EXCEPT !.own = FALSE, !.ttse = FALSE, !.ioc = FALSE,
                                           !.packet = 0, !.time = 0, !.tag = 0]]
  BY <1>1 DEF TxScan
<1>4. OnlyChanged(minIdx')
  BY <1>1, <1>2, <1>3 DEF OnlyChanged
<1>5. LET e == txRing'[minIdx'] IN
      /\ ~e.own /\ e.time = 0 /\ e.tag = 0 /\ ~e.ttse /\ e.txCntr = txRing[minIdx'].txCntr
  BY <1>1, <1>2, <1>3 DEF Descs
<1>6. Owned' = Owned \ {minIdx'}
  BY <1>1, <1>4, <1>5 DEF Owned, OnlyChanged
<1>7. Timed' = Timed \ {minIdx'}
  BY <1>1, <1>4, <1>5 DEF Timed, OnlyChanged
<1>8. txCntAcked' = txRing[minIdx'].txCntr
  BY <1>1 DEF TxScan
<1> QED BY <1>1, <1>4, <1>5, <1>6, <1>7, <1>8

-----------------------------------------------------------------------------
(* No time is erased unseen. *)

\* A time in the ring was missed, or its interrupt is pending or being served.
Unseen ==
  /\ \A i \in TxIdx : txRing[i].ttse => txRing[i].ioc
  /\ \A i \in Timed : txRing[i].time \in missed \/ ti \/ isr \in {"ack", "scan"}
  /\ erased \subseteq missed

LEMMA UnseenInitially == Init => Unseen
BY DEF Init, Unseen, EmptyTx, Timed

\* The last turn of the loop leaves no time in the ring, though the turns count
\* some descriptors more than once.
LEMMA ScanLeavesNone ==
  ASSUME Shape, TxScan, left' = 0
  PROVE  Timed' = {}
<1>1. left \in Nat /\ Cardinality(Timed) \in Nat /\ IsFiniteSet(Timed)
  BY TimedType DEF Shape, TypeOK
<1>2. left' = TurnsLeft(left + Cardinality(Timed))
  BY DEF TxScan
<1>3. left + Cardinality(Timed) \in {0, 1}
  BY <1>1, <1>2 DEF TurnsLeft
<1>4. CASE Timed = {}
  <2>1. CASE left + Cardinality(Timed) = 0
    BY <1>4, <2>1 DEF TxScan, Timed
  <2>2. CASE left + Cardinality(Timed) # 0
    BY <1>4, <2>2, ScanRing
  <2> QED BY <2>1, <2>2
<1>5. CASE Timed # {}
  <2>1. Oldest \in Timed
    BY <1>5, OldestTimed
  <2>2. Cardinality(Timed) # 0
    BY <1>1, <1>5, FS_EmptySet
  <2>3. Cardinality(Timed) = 1
    BY <1>1, <1>3, <2>2
  <2>4. PICK j : Timed = {j}
    BY <1>1, <2>3, FS_Singleton
  <2>5. Timed' = Timed \ {Oldest}
    BY <1>1, <1>5, <2>2, ScanRing
  <2> QED BY <2>1, <2>4, <2>5
<1> QED BY <1>4, <1>5

LEMMA UnseenStep ==
  ASSUME Shape, Unseen, [Next]_vars
  PROVE  Unseen'
<1> USE DEF Unseen
<1>0. Timed \subseteq TxIdx
  BY DEF Timed
<1>1. CASE TransmitStart
  BY <1>1 DEF TransmitStart, Timed, status, handler, seen
<1>2. CASE TransmitErase
  <2> DEFINE n == nextTxDescIdx
  <2>1. /\ OnlyChanged(n) /\ n \notin Owned /\ ~txRing'[n].ttse /\ Timed' = Timed \ {n} /\ n \in TxIdx
    BY <1>2, EraseRing DEF Shape, TypeOK
  <2>2. /\ erased' = erased \cup ({txRing[n].time} \ {0}) /\ UNCHANGED <<missed, isr, ti>>
        /\ ~ti /\ isr = "idle"
    BY <1>2 DEF TransmitErase, status, handler, Preempted
  <2>3. txRing[n].time # 0 => txRing[n].time \in missed
    BY <2>1, <2>2 DEF Timed, Owned
  <2> QED BY <1>0, <2>1, <2>2, <2>3 DEF OnlyChanged
<1>3. CASE TransmitFill
  <2>1. UNCHANGED <<missed, isr, ti, erased>>
    BY <1>3 DEF TransmitFill, status, handler, seen
  <2> QED BY <1>0, <1>3, <2>1, FillRing DEF OnlyChanged
<1>4. CASE TransmitPass
  <2>1. UNCHANGED <<missed, isr, ti, erased>>
    BY <1>4 DEF TransmitPass, status, handler, seen
  <2> QED BY <1>0, <1>4, <2>1, PassRing DEF OnlyChanged
<1>5. CASE DmaSend
  <2>1. UNCHANGED <<missed, isr, erased>> /\ ti' = (ti \/ txRing[dmaTx].ioc) /\ dmaTx \in TxIdx
    BY <1>5 DEF DmaSend, handler, seen, Shape, TypeOK
  <2>2. txRing'[dmaTx].time # 0 => ti'
    BY <1>5, <2>1, SendRing
  <2>3. \A i \in TxIdx : txRing'[i].ttse => txRing'[i].ioc
    BY <1>5, <2>1, SendRing DEF OnlyChanged
  <2>4. ASSUME NEW i \in Timed' PROVE txRing'[i].time \in missed' \/ ti' \/ isr' \in {"ack", "scan"}
    <3>1. CASE i = dmaTx
      BY <1>5, <2>2, <2>4, <3>1 DEF Timed
    <3>2. CASE i # dmaTx
      <4>1. i \in Timed /\ txRing'[i] = txRing[i]
        BY <1>0, <1>5, <2>4, <3>2, SendRing DEF OnlyChanged
      <4> QED BY <2>1, <4>1
    <3> QED BY <3>1, <3>2
  <2> QED BY <2>1, <2>3, <2>4
<1>6. ASSUME NEW stamped \in BOOLEAN, DmaReceive(stamped) PROVE Unseen'
  BY <1>6 DEF DmaReceive, Timed, handler
<1>7. CASE IsrEnter
  BY <1>7 DEF IsrEnter, Timed, status, seen, Shape, TypeOK
<1>8. CASE IsrAck
  BY <1>8 DEF IsrAck, Timed
<1>9. CASE IsrEnd
  BY <1>9 DEF IsrEnd, Timed
<1>10. CASE RxFind \/ RxRead \/ RxKeep \/ RxDone
  BY <1>10 DEF RxFind, RxRead, RxKeep, RxDone, Timed, status, seen
<1>11. CASE TxScan
  <2>1. UNCHANGED <<missed, erased, ti>> /\ isr' = IF left' = 0 THEN "end" ELSE "scan"
    BY <1>11 DEF TxScan, status
  <2>2. isr' = "scan" \/ Timed' = {}
    BY <1>11, <2>1, ScanLeavesNone
  <2>3. \A i \in TxIdx : txRing'[i].ttse => txRing'[i].ioc
    <3>1. CASE left + Cardinality(Timed) = 0
      BY <1>11, <3>1 DEF TxScan
    <3>2. CASE left + Cardinality(Timed) # 0
      BY <1>11, <3>2, ScanRing DEF OnlyChanged
    <3> QED BY <3>1, <3>2
  <2> QED BY <2>1, <2>2, <2>3
<1>12. CASE UNCHANGED vars
  BY <1>12 DEF vars, Timed, status, handler, seen
<1> QED
  BY <1>1, <1>2, <1>3, <1>4, <1>5, <1>6, <1>7, <1>8, <1>9, <1>10, <1>11, <1>12 DEF Next, ThreadStep, IsrStep

\* For rings of any length and packets without end, the thread, the transmitter and the
\* handler at any of their steps: when the thread takes a descriptor again, a time
\* that is still in it is one whose interrupt was cleared unseen (mac_drv.c:499-503).
\* When no interrupt is pending, every time in the ring is such a one.
THEOREM ErasesOnlyMissed == Spec => []OnlyMissedIsErased
<1>1. Init => Shape /\ Unseen
  BY ShapeInitially, UnseenInitially
<1>2. Shape /\ Unseen /\ [Next]_vars => (Shape /\ Unseen)'
  BY ShapeStep, UnseenStep
<1>3. Unseen => OnlyMissedIsErased
  BY DEF Unseen, OnlyMissedIsErased
<1> QED BY <1>1, <1>2, <1>3, PTL DEF Spec

-----------------------------------------------------------------------------
(* The times are reported in order, as long as the packet numbers do not wrap. *)

NoWrap == MaxPackets < CntMod

\* The packets that the DMA has been given; the thread is at its descriptor.
Given   == IF thread = "pass" THEN sent - 1 ELSE sent
Writing == thread \in {"fill", "pass"}

Counted == txCntSent = sent /\ txCntAcked <= Given

Filled ==
  LET d == txRing[nextTxDescIdx] IN
  /\ Writing => ~d.own /\ d.time = 0
  /\ thread = "pass" => sent >= 1 /\ d.txCntr = sent /\ (withTime => d.tag = sent)

\* A packet's descriptor has its own number and tag, and nothing later was acknowledged.
Labelled ==
  \A i \in Owned :
    LET d == txRing[i] IN
    /\ d.packet \in 1 .. Given /\ d.packet > txCntAcked
    /\ d.txCntr = d.packet /\ (d.ttse => d.tag = d.packet)

\* The DMA's packets lie one behind the other, up to the thread's descriptor,
\* and the DMA is at the first.
Consecutive ==
  \A i \in Owned :
    /\ \A j \in Owned : txRing[i].packet = txRing[j].packet => i = j
    /\ txRing[i].packet = Given => NextTx(i) = nextTxDescIdx
    /\ txRing[i].packet < Given =>
         NextTx(i) \in Owned /\ txRing[NextTx(i)].packet = txRing[i].packet + 1

DmaFirst ==
  /\ Owned = {} => dmaTx = nextTxDescIdx
  /\ \A i \in Owned : dmaTx \in Owned /\ txRing[dmaTx].packet <= txRing[i].packet

\* A time is in its packet's descriptor, is not acknowledged, and is older than all
\* that is still to be sent.
TimesTrue ==
  \A i \in Timed :
    LET d == txRing[i] IN
    /\ d.tag = d.time /\ d.txCntr = d.time
    /\ txCntAcked < d.time /\ d.time <= Given
    /\ \A j \in Owned : d.time < txRing[j].packet
    /\ \A j \in Timed : txRing[j].time = d.time => i = j

\* A turn that finds nothing clears what the turn before has cleared.
Cleared ==
  isr = "scan" /\ left > 0 =>
    LET d == txRing[minIdx] IN
    /\ ~d.own /\ d.time = 0 /\ d.tag = 0 /\ d.txCntr = txCntAcked
    /\ Writing => minIdx # nextTxDescIdx

Reported ==
  /\ reported \in Seq(Nat \X Nat)
  /\ \A k \in 1 .. Len(reported) :
       /\ reported[k][1] = reported[k][2] /\ reported[k][1] <= txCntAcked
       /\ k > 1 => reported[k][1] > reported[k - 1][1]

OrderInv ==
  /\ Shape /\ Counted /\ Filled /\ Labelled /\ Consecutive /\ DmaFirst /\ TimesTrue
  /\ Cleared /\ Reported

LEMMA OrderInitially == Init => OrderInv
<1> SUFFICES ASSUME Init PROVE OrderInv
  OBVIOUS
<1>1. Shape
  BY ShapeInitially
<1>2. Owned = {} /\ Timed = {}
  BY DEF Init, Owned, Timed, EmptyTx
<1> QED BY <1>1, <1>2 DEF Init, OrderInv, Counted, Filled, Labelled, Consecutive, DmaFirst, TimesTrue,
                          Cleared, Reported, Given, Writing

LEMMA Sizes ==
  ASSUME OrderInv
  PROVE  /\ sent \in Nat /\ Given \in Int /\ txCntAcked \in Nat /\ nextTxDescIdx \in TxIdx /\ dmaTx \in TxIdx
         /\ Owned \subseteq TxIdx /\ Timed \subseteq TxIdx
         /\ \A i \in TxIdx : /\ txRing[i].packet \in Nat /\ txRing[i].time \in Nat
                             /\ txRing[i].tag \in Nat /\ txRing[i].txCntr \in Nat
         /\ \A i \in Timed : txRing[i].time \in Nat \ {0}
<1>1. ASSUME NEW i \in TxIdx
      PROVE  /\ txRing[i].packet \in Nat /\ txRing[i].time \in Nat
             /\ txRing[i].tag \in Nat /\ txRing[i].txCntr \in Nat
  <2>1. txRing[i] \in Descs
    BY DEF OrderInv, Shape, TypeOK, Descs
  <2> QED BY <2>1, EthAssumption DEF Descs
<1>2. Owned \subseteq TxIdx /\ Timed \subseteq TxIdx
  BY DEF Owned, Timed
<1>3. sent \in Nat /\ txCntAcked \in Nat /\ nextTxDescIdx \in TxIdx /\ dmaTx \in TxIdx
  BY EthAssumption DEF OrderInv, Shape, TypeOK
<1>4. Given \in Int
  BY <1>3 DEF Given
<1> QED BY <1>1, <1>2, <1>3, <1>4 DEF Timed

\* The handler's steps that look at received frames, and steps that only change who is where.
LEMMA OrderKept ==
  ASSUME OrderInv, Shape',
         UNCHANGED <<txRing, state, sent, withTime, dmaTx, reported, minIdx>>,
         Given' = Given, Writing' => Writing, thread' = "pass" => thread = "pass",
         isr' = "scan" /\ left' > 0 => isr = "scan" /\ left' = left
  PROVE  OrderInv'
<1>1. Owned' = Owned /\ Timed' = Timed
  BY DEF Owned, Timed
<1>2. UNCHANGED <<nextTxDescIdx, txCntSent, txCntAcked>>
  BY DEF state
<1>3. Counted' /\ Filled'
  BY <1>2 DEF OrderInv, Counted, Filled
<1>4. Labelled' /\ Consecutive' /\ DmaFirst' /\ TimesTrue'
  BY <1>1, <1>2 DEF OrderInv, Labelled, Consecutive, DmaFirst, TimesTrue
<1>5. Cleared' /\ Reported'
  BY <1>2 DEF OrderInv, Cleared, Reported
<1> QED BY <1>3, <1>4, <1>5 DEF OrderInv

LEMMA OrderErase ==
  ASSUME OrderInv, Shape', TransmitErase
  PROVE  OrderInv'
<1> DEFINE n == nextTxDescIdx
<1>1. /\ OnlyChanged(n) /\ n \notin Owned /\ Owned' = Owned /\ Timed' = Timed \ {n}
      /\ ~txRing'[n].own /\ txRing'[n].time = 0
  BY EraseRing DEF OrderInv
<1>2. /\ UNCHANGED <<nextTxDescIdx, txCntSent, txCntAcked, sent, withTime, dmaTx, reported, isr, left, minIdx>>
      /\ isr = "idle" /\ thread = "wait" /\ thread' = "fill"
  BY DEF TransmitErase, state, dma, handler, counts, Preempted
<1>3. Given' = Given
  BY <1>2 DEF Given
<1>4. \A i \in Owned \cup Timed' : txRing'[i] = txRing[i]
  BY <1>1, Sizes DEF OnlyChanged
<1>5. Counted' /\ Filled'
  BY <1>1, <1>2, <1>3 DEF OrderInv, Counted, Filled
<1>6. Labelled' /\ Consecutive' /\ DmaFirst'
  BY <1>1, <1>2, <1>3, <1>4 DEF OrderInv, Labelled, Consecutive, DmaFirst
<1>7. TimesTrue'
  BY <1>1, <1>2, <1>3, <1>4 DEF OrderInv, TimesTrue
<1>8. Cleared' /\ Reported'
  BY <1>2 DEF OrderInv, Cleared, Reported
<1> QED BY <1>5, <1>6, <1>7, <1>8 DEF OrderInv

LEMMA OrderFill ==
  ASSUME NoWrap, OrderInv, Shape', TransmitFill
  PROVE  OrderInv'
<1> DEFINE n == nextTxDescIdx
<1>1. /\ OnlyChanged(n) /\ Owned' = Owned /\ Timed' = Timed
      /\ txRing'[n].own = txRing[n].own /\ txRing'[n].time = txRing[n].time
      /\ txRing'[n].txCntr = txCntSent' /\ (withTime => txRing'[n].tag = sent')
  BY FillRing DEF OrderInv
<1>2. /\ UNCHANGED <<nextTxDescIdx, txCntAcked, withTime, dmaTx, reported, isr, left, minIdx>>
      /\ thread = "fill" /\ thread' = "pass" /\ isr = "idle"
      /\ sent' = sent + 1 /\ txCntSent' = (txCntSent + 1) % CntMod
  BY DEF TransmitFill, dma, handler, seen, Preempted
<1>3. sent \in Nat /\ Given' = Given /\ txCntSent' = sent'
  <2>1. sent \in Nat /\ sent + 1 \in 0 .. CntMod - 1 /\ txCntSent = sent
    BY <1>2, Sizes, EthAssumption DEF OrderInv, Counted, NoWrap, Shape, TypeOK
  <2> QED BY <1>2, <2>1, EthAssumption DEF Given
<1>4. n \notin Owned /\ n \notin Timed
  BY <1>2 DEF OrderInv, Filled, Writing, Owned, Timed
<1>5. \A i \in Owned \cup Timed : txRing'[i] = txRing[i]
  BY <1>1, <1>4, Sizes DEF OnlyChanged
<1>6. Counted' /\ Filled'
  BY <1>1, <1>2, <1>3 DEF OrderInv, Counted, Filled, Writing
<1>7. Labelled' /\ Consecutive' /\ DmaFirst'
  BY <1>1, <1>2, <1>3, <1>5 DEF OrderInv, Labelled, Consecutive, DmaFirst
<1>8. TimesTrue'
  BY <1>1, <1>2, <1>3, <1>5 DEF OrderInv, TimesTrue
<1>9. Cleared' /\ Reported'
  BY <1>2 DEF OrderInv, Cleared, Reported
<1> QED BY <1>6, <1>7, <1>8, <1>9 DEF OrderInv

LEMMA OrderPass ==
  ASSUME OrderInv, Shape', TransmitPass
  PROVE  OrderInv'
<1> DEFINE n == nextTxDescIdx
<1>1. /\ OnlyChanged(n) /\ Owned' = Owned \cup {n} /\ Timed' = Timed \ {n}
      /\ txRing'[n].own /\ txRing'[n].packet = sent /\ txRing'[n].ttse = withTime
      /\ txRing'[n].tag = txRing[n].tag /\ txRing'[n].txCntr = txRing[n].txCntr
  BY PassRing DEF OrderInv
<1>2. /\ UNCHANGED <<txCntSent, txCntAcked, sent, withTime, dmaTx, reported, isr, left, minIdx>>
      /\ nextTxDescIdx' = NextTx(n) /\ thread = "pass" /\ thread' = "idle" /\ isr = "idle"
  BY DEF TransmitPass, dma, handler, counts, seen, Preempted
<1>3. sent \in Nat /\ sent >= 1 /\ Given = sent - 1 /\ Given' = sent /\ txCntAcked \in Nat /\ txCntAcked <= sent - 1
  BY <1>2, Sizes DEF Given, OrderInv, Filled, Counted
<1>4. /\ n \in TxIdx /\ n \notin Owned /\ txRing[n].txCntr = sent /\ (withTime => txRing[n].tag = sent)
  BY <1>2, Sizes DEF OrderInv, Filled, Writing, Owned
<1>5. \A i \in Owned : i # n /\ txRing'[i] = txRing[i] /\ txRing[i].packet \in Nat /\ txRing[i].packet <= sent - 1
  BY <1>1, <1>3, <1>4, Sizes DEF OnlyChanged, OrderInv, Labelled
<1>6. Counted' /\ Filled'
  <2>1. Counted'
    BY <1>2, <1>3 DEF OrderInv, Counted
  <2> QED BY <1>2, <2>1 DEF Filled, Writing
<1>7. Labelled'
  <2> SUFFICES ASSUME NEW i \in Owned'
               PROVE  /\ txRing'[i].packet \in 1 .. Given' /\ txRing'[i].packet > txCntAcked'
                      /\ txRing'[i].txCntr = txRing'[i].packet
                      /\ (txRing'[i].ttse => txRing'[i].tag = txRing'[i].packet)
    BY DEF Labelled
  <2>1. CASE i = n
    BY <1>1, <1>2, <1>3, <1>4, <2>1
  <2>2. CASE i # n
    <3>1. i \in Owned /\ txRing'[i] = txRing[i]
      BY <1>1, <1>5, <2>2
    <3> QED BY <1>2, <1>3, <3>1 DEF OrderInv, Labelled
  <2> QED BY <2>1, <2>2
<1>8. Consecutive'
  <2>1. ASSUME NEW i \in Owned', NEW j \in Owned', txRing'[i].packet = txRing'[j].packet PROVE i = j
    <3>1. \A k \in Owned : txRing'[k].packet # sent
      BY <1>3, <1>5
    <3>2. CASE i = n \/ j = n
      BY <1>1, <2>1, <3>1, <3>2
    <3>3. CASE i # n /\ j # n
      BY <1>1, <1>5, <2>1, <3>3 DEF OrderInv, Consecutive
    <3> QED BY <3>2, <3>3
  <2>2. ASSUME NEW i \in Owned'
        PROVE  /\ txRing'[i].packet = Given' => NextTx(i) = nextTxDescIdx'
               /\ txRing'[i].packet < Given' =>
                    NextTx(i) \in Owned' /\ txRing'[NextTx(i)].packet = txRing'[i].packet + 1
    <3>1. CASE i = n
      BY <1>1, <1>2, <1>3, <3>1
    <3>2. CASE i # n
      <4>1. i \in Owned /\ txRing'[i] = txRing[i] /\ txRing[i].packet \in Nat /\ txRing[i].packet <= sent - 1
        BY <1>1, <1>5, <3>2
      <4>2. CASE txRing[i].packet = sent - 1
        <5>1. NextTx(i) = n
          BY <1>3, <4>1, <4>2 DEF OrderInv, Consecutive
        <5> QED BY <1>1, <1>3, <4>1, <4>2, <5>1
      <4>3. CASE txRing[i].packet # sent - 1
        <5>1. txRing[i].packet < Given
          BY <1>3, <4>1, <4>3
        <5>2. NextTx(i) \in Owned /\ txRing[NextTx(i)].packet = txRing[i].packet + 1
          BY <4>1, <5>1 DEF OrderInv, Consecutive
        <5>3. txRing'[NextTx(i)] = txRing[NextTx(i)] /\ NextTx(i) \in Owned'
          BY <1>1, <1>5, <5>2
        <5> QED BY <1>3, <4>1, <5>2, <5>3
      <4> QED BY <4>2, <4>3
    <3> QED BY <3>1, <3>2
  <2> QED BY <2>1, <2>2 DEF Consecutive
<1>9. DmaFirst'
  <2>1. CASE Owned = {}
    BY <1>1, <1>2, <1>3, <2>1 DEF OrderInv, DmaFirst
  <2>2. CASE Owned # {}
    <3>1. dmaTx \in Owned /\ \A i \in Owned : txRing[dmaTx].packet <= txRing[i].packet
      BY <2>2 DEF OrderInv, DmaFirst
    <3>2. txRing'[dmaTx].packet <= txRing'[n].packet
      BY <1>1, <1>3, <1>5, <3>1
    <3> QED BY <1>1, <1>2, <1>5, <3>1, <3>2 DEF DmaFirst
  <2> QED BY <2>1, <2>2
<1>10. TimesTrue'
  <2>1. \A i \in Timed : i # n
    BY <1>2 DEF OrderInv, Filled, Writing, Timed
  <2>2. Timed' = Timed /\ \A i \in Timed : txRing'[i] = txRing[i]
    BY <1>1, <2>1, Sizes DEF OnlyChanged
  <2> SUFFICES ASSUME NEW i \in Timed
               PROVE  /\ txRing[i].tag = txRing[i].time /\ txRing[i].txCntr = txRing[i].time
                      /\ txCntAcked < txRing[i].time /\ txRing[i].time <= sent
                      /\ \A j \in Owned' : txRing[i].time < txRing'[j].packet
                      /\ \A j \in Timed : txRing[j].time = txRing[i].time => i = j
    BY <1>2, <1>3, <2>2 DEF TimesTrue
  <2>3. /\ txRing[i].tag = txRing[i].time /\ txRing[i].txCntr = txRing[i].time
        /\ txCntAcked < txRing[i].time /\ txRing[i].time <= sent - 1
        /\ \A j \in Owned : txRing[i].time < txRing[j].packet
        /\ \A j \in Timed : txRing[j].time = txRing[i].time => i = j
    BY <1>3 DEF OrderInv, TimesTrue
  <2>4. txRing[i].time \in Nat
    BY Sizes
  <2>5. txRing[i].time <= sent /\ txRing[i].time < sent
    BY <1>3, <2>3, <2>4
  <2>6. \A j \in Owned' : txRing[i].time < txRing'[j].packet
    BY <1>1, <1>5, <2>3, <2>5
  <2> QED BY <2>3, <2>5, <2>6
<1>11. Cleared' /\ Reported'
  BY <1>2 DEF OrderInv, Cleared, Reported
<1> QED BY <1>6, <1>7, <1>8, <1>9, <1>10, <1>11 DEF OrderInv

LEMMA OrderSend ==
  ASSUME OrderInv, Shape', DmaSend
  PROVE  OrderInv'
<1> DEFINE n == dmaTx
           p == txRing[n].packet
<1>1. /\ OnlyChanged(n) /\ n \in Owned /\ Owned' = Owned \ {n}
      /\ txRing'[n].time = (IF txRing[n].ttse THEN p ELSE 0)
      /\ txRing'[n].tag = txRing[n].tag /\ txRing'[n].txCntr = txRing[n].txCntr
      /\ Timed' = IF txRing'[n].time = 0 THEN Timed ELSE Timed \cup {n}
  BY SendRing DEF OrderInv
<1>2. /\ UNCHANGED <<nextTxDescIdx, txCntSent, txCntAcked, thread, withTime, sent, reported, isr, left, minIdx>>
      /\ dmaTx' = NextTx(n)
  BY DEF DmaSend, state, caller, handler, counts, seen
<1>3. Given' = Given /\ (Writing' <=> Writing)
  BY <1>2 DEF Given, Writing
<1>4. \A i \in (Owned \cup Timed) \ {n} : txRing'[i] = txRing[i]
  BY <1>1, Sizes DEF OnlyChanged
<1>5. /\ p \in Nat /\ p <= Given /\ p > txCntAcked /\ p # 0 /\ Given \in Int /\ n \in TxIdx
      /\ txRing[n].txCntr = p /\ (txRing[n].ttse => txRing[n].tag = p)
  BY <1>1, Sizes DEF OrderInv, Labelled
<1>6. \A i \in Owned : i # n => txRing[i].packet \in Nat /\ p < txRing[i].packet
  <2> SUFFICES ASSUME NEW i \in Owned, i # n PROVE txRing[i].packet \in Nat /\ p < txRing[i].packet
    OBVIOUS
  <2>1. txRing[i].packet \in Nat /\ p <= txRing[i].packet /\ p # txRing[i].packet
    BY <1>1, Sizes DEF OrderInv, DmaFirst, Consecutive
  <2> QED BY <1>5, <2>1
<1>7. Counted' /\ Filled'
  <2>1. Counted'
    BY <1>2, <1>3 DEF OrderInv, Counted
  <2>2. CASE nextTxDescIdx # n
    <3>1. txRing'[nextTxDescIdx] = txRing[nextTxDescIdx]
      BY <1>1, <2>2, Sizes DEF OnlyChanged
    <3> QED BY <1>2, <2>1, <3>1 DEF OrderInv, Filled, Writing
  <2>3. CASE nextTxDescIdx = n
    <3>1. ~Writing /\ thread # "pass"
      BY <1>1, <2>3 DEF OrderInv, Filled, Writing, Owned
    <3> QED BY <1>2, <2>1, <3>1 DEF Filled, Writing
  <2> QED BY <2>1, <2>2, <2>3
<1>8. Labelled'
  BY <1>1, <1>2, <1>3, <1>4 DEF OrderInv, Labelled
<1>9. Consecutive'
  <2>1. ASSUME NEW i \in Owned', NEW j \in Owned', txRing'[i].packet = txRing'[j].packet PROVE i = j
    BY <1>1, <1>4, <2>1 DEF OrderInv, Consecutive
  <2>2. ASSUME NEW i \in Owned'
        PROVE  /\ txRing'[i].packet = Given' => NextTx(i) = nextTxDescIdx'
               /\ txRing'[i].packet < Given' =>
                    NextTx(i) \in Owned' /\ txRing'[NextTx(i)].packet = txRing'[i].packet + 1
    <3>1. i \in Owned /\ i # n /\ txRing'[i] = txRing[i] /\ txRing[i].packet \in Nat /\ p < txRing[i].packet
      BY <1>1, <1>4, <1>6
    <3>2. txRing[i].packet = Given => NextTx(i) = nextTxDescIdx
      BY <3>1 DEF OrderInv, Consecutive
    <3>3. ASSUME txRing[i].packet < Given
          PROVE  NextTx(i) \in Owned' /\ txRing'[NextTx(i)].packet = txRing[i].packet + 1
      <4>1. NextTx(i) \in Owned /\ txRing[NextTx(i)].packet = txRing[i].packet + 1
        BY <3>1, <3>3 DEF OrderInv, Consecutive
      <4>2. NextTx(i) # n
        BY <1>5, <3>1, <4>1
      <4> QED BY <1>1, <1>4, <4>1, <4>2
    <3> QED BY <1>2, <1>3, <3>1, <3>2, <3>3
  <2> QED BY <2>1, <2>2 DEF Consecutive
<1>10. DmaFirst'
  <2>1. CASE p = Given
    <3>1. \A i \in Owned : i = n
      <4> SUFFICES ASSUME NEW i \in Owned, i # n PROVE FALSE
        OBVIOUS
      <4>1. txRing[i].packet \in Nat /\ p < txRing[i].packet /\ txRing[i].packet <= Given
        BY <1>6 DEF OrderInv, Labelled
      <4> QED BY <1>5, <2>1, <4>1
    <3>2. NextTx(n) = nextTxDescIdx
      BY <1>1, <2>1 DEF OrderInv, Consecutive
    <3> QED BY <1>1, <1>2, <3>1, <3>2 DEF DmaFirst
  <2>2. CASE p # Given
    <3>1. p < Given
      BY <1>5, <2>2
    <3>2. NextTx(n) \in Owned /\ txRing[NextTx(n)].packet = p + 1
      BY <1>1, <3>1 DEF OrderInv, Consecutive
    <3>3. NextTx(n) # n
      BY <1>5, <3>2
    <3>4. NextTx(n) \in Owned' /\ txRing'[NextTx(n)].packet = p + 1
      BY <1>1, <1>4, <3>2, <3>3
    <3>5. \A i \in Owned' : p + 1 <= txRing'[i].packet
      BY <1>1, <1>4, <1>5, <1>6
    <3> QED BY <1>2, <3>4, <3>5 DEF DmaFirst
  <2> QED BY <2>1, <2>2
<1>11. TimesTrue'
  <2>1. \A i \in Timed : /\ i # n /\ txRing'[i] = txRing[i] /\ txRing[i].time \in Nat /\ txRing[i].time < p
    BY <1>1, <1>4, Sizes DEF OrderInv, TimesTrue, Owned, Timed
  <2> SUFFICES ASSUME NEW i \in Timed'
               PROVE  /\ txRing'[i].tag = txRing'[i].time /\ txRing'[i].txCntr = txRing'[i].time
                      /\ txCntAcked < txRing'[i].time /\ txRing'[i].time <= Given
                      /\ \A j \in Owned' : txRing'[i].time < txRing'[j].packet
                      /\ \A j \in Timed' : txRing'[j].time = txRing'[i].time => i = j
    BY <1>2, <1>3 DEF TimesTrue
  <2>2. \A j \in Timed' : j = n \/ j \in Timed
    BY <1>1
  <2>3. \A j \in Owned' : j \in Owned /\ j # n /\ txRing'[j] = txRing[j]
    BY <1>1, <1>4
  <2>4. CASE i = n
    <3>1. i \notin Timed
      BY <2>1, <2>4
    <3>2. txRing[n].ttse /\ txRing'[i].time = p
      BY <1>1, <2>4, <3>1
    <3>3. txRing'[i].tag = p /\ txRing'[i].txCntr = p
      BY <1>1, <1>5, <2>4, <3>2
    <3>4. \A j \in Owned' : p < txRing'[j].packet
      BY <1>6, <2>3
    <3>5. \A j \in Timed' : txRing'[j].time = p => i = j
      BY <1>5, <2>1, <2>2, <2>4
    <3> QED BY <1>5, <3>2, <3>3, <3>4, <3>5
  <2>5. CASE i # n
    <3>1. i \in Timed /\ txRing'[i] = txRing[i] /\ txRing[i].time \in Nat /\ txRing[i].time < p
      BY <2>1, <2>2, <2>5
    <3>2. /\ txRing[i].tag = txRing[i].time /\ txRing[i].txCntr = txRing[i].time
          /\ txCntAcked < txRing[i].time /\ txRing[i].time <= Given
          /\ \A j \in Owned : txRing[i].time < txRing[j].packet
          /\ \A j \in Timed : txRing[j].time = txRing[i].time => i = j
      BY <3>1 DEF OrderInv, TimesTrue
    <3>3. \A j \in Timed' : txRing'[j].time = txRing[i].time => i = j
      <4> SUFFICES ASSUME NEW j \in Timed', txRing'[j].time = txRing[i].time PROVE i = j
        OBVIOUS
      <4>1. CASE j = n
        <5>1. j \notin Timed
          BY <2>1, <4>1
        <5>2. txRing'[j].time = p
          BY <1>1, <4>1, <5>1
        <5> QED BY <1>5, <3>1, <5>2
      <4>2. CASE j # n
        BY <2>1, <2>2, <3>2, <4>2
      <4> QED BY <4>1, <4>2
    <3> QED BY <2>3, <3>1, <3>2, <3>3
  <2> QED BY <2>4, <2>5
<1>12. Cleared' /\ Reported'
  <2>1. Reported'
    BY <1>2 DEF OrderInv, Reported
  <2>2. ASSUME isr = "scan" /\ left > 0 PROVE minIdx # n /\ minIdx \in TxIdx
    BY <1>1, <2>2 DEF OrderInv, Cleared, Owned, Shape, TypeOK
  <2>3. Cleared'
    BY <1>1, <1>2, <1>3, <2>2 DEF OrderInv, Cleared, OnlyChanged
  <2> QED BY <2>1, <2>3
<1> QED BY <1>7, <1>8, <1>9, <1>10, <1>11, <1>12 DEF OrderInv

LEMMA OrderScan ==
  ASSUME OrderInv, Shape', TxScan
  PROVE  OrderInv'
<1> DEFINE m == minIdx'
           t == txRing[m].txCntr
<1>1. /\ UNCHANGED <<nextTxDescIdx, txCntSent, thread, withTime, sent, dmaTx>>
      /\ isr = "scan" /\ left' = TurnsLeft(left + Cardinality(Timed))
  BY DEF TxScan, caller, dma, counts
<1>2. Given' = Given /\ (Writing' <=> Writing)
  BY <1>1 DEF Given, Writing
<1>3. left \in Nat /\ Cardinality(Timed) \in Nat /\ IsFiniteSet(Timed)
  BY TimedType DEF OrderInv, Shape, TypeOK
<1>4. CASE left + Cardinality(Timed) = 0
  <2>1. UNCHANGED <<txRing, txCntAcked, reported>> /\ left' = 0
    BY <1>1, <1>4 DEF TxScan, TurnsLeft
  <2>2. Owned' = Owned /\ Timed' = Timed
    BY <2>1 DEF Owned, Timed
  <2>3. Counted' /\ Filled'
    BY <1>1, <1>2, <2>1 DEF OrderInv, Counted, Filled, Writing
  <2>4. Labelled' /\ Consecutive' /\ DmaFirst' /\ TimesTrue'
    BY <1>1, <1>2, <2>1, <2>2 DEF OrderInv, Labelled, Consecutive, DmaFirst, TimesTrue
  <2>5. Cleared' /\ Reported'
    BY <2>1 DEF OrderInv, Cleared, Reported
  <2> QED BY <2>3, <2>4, <2>5 DEF OrderInv
<1>5. CASE left + Cardinality(Timed) # 0
  <2>1. /\ m \in TxIdx /\ OnlyChanged(m) /\ Owned' = Owned \ {m} /\ Timed' = Timed \ {m}
        /\ ~txRing'[m].own /\ txRing'[m].time = 0 /\ txRing'[m].tag = 0 /\ txRing'[m].txCntr = t
        /\ txCntAcked' = t /\ m = IF Timed = {} THEN minIdx ELSE Oldest
    BY <1>5, ScanRing DEF OrderInv
  <2>2. reported' = IF txRing[m].tag = 0 THEN reported
                    ELSE Append(reported, <<txRing[m].tag, txRing[m].time>>)
    BY <1>5, <2>1 DEF TxScan
  \* What the turn acknowledges is the oldest of the times, or what is acknowledged.
  <2>3. /\ m \notin Owned /\ t \in Nat /\ txCntAcked <= t /\ t <= Given
        /\ \A i \in Timed \ {m} : t < txRing[i].time
        /\ \A i \in Owned : t < txRing[i].packet
        /\ Writing => m # nextTxDescIdx
        /\ txRing[m].tag = 0 \/ (txRing[m].tag = t /\ txRing[m].time = t /\ txCntAcked < t)
    <3>0. txCntAcked \in Nat /\ Given \in Int /\ txCntAcked <= Given
      BY Sizes DEF OrderInv, Counted
    <3>1. CASE Timed = {}
      <4>1. m = minIdx /\ left > 0
        BY <1>3, <1>5, <2>1, <3>1, FS_EmptySet
      <4>2. txRing[m].tag = 0 /\ t = txCntAcked /\ ~txRing[m].own /\ (Writing => m # nextTxDescIdx)
        BY <1>1, <4>1 DEF OrderInv, Cleared
      <4> QED BY <3>0, <3>1, <4>2 DEF OrderInv, Labelled, Owned
    <3>2. CASE Timed # {}
      <4>1. m = Oldest /\ m \in Timed
        BY <2>1, <3>2, OldestTimed
      <4>2. \A i \in Timed : /\ Delta(i) \in Nat \ {0} /\ Delta(i) = txRing[i].time - txCntAcked
                             /\ txRing[i].time \in Nat
        BY <3>0, Sizes DEF OrderInv, TimesTrue, Delta
      <4>3. \A i, j \in Timed : Delta(i) = Delta(j) => i = j
        <5> SUFFICES ASSUME NEW i \in Timed, NEW j \in Timed, Delta(i) = Delta(j) PROVE i = j
          OBVIOUS
        <5>1. txRing[i].time = txRing[j].time
          BY <3>0, <4>2
        <5> QED BY <5>1 DEF OrderInv, TimesTrue
      <4>4. \A i \in Timed : Delta(m) <= Delta(i)
        BY <4>1, <4>2, <4>3, OldestIsLeast
      <4>5. \A i \in Timed \ {m} : txRing[m].time < txRing[i].time
        <5> SUFFICES ASSUME NEW i \in Timed, i # m PROVE txRing[m].time < txRing[i].time
          OBVIOUS
        <5>1. txRing[m].time # txRing[i].time
          BY <4>1 DEF OrderInv, TimesTrue
        <5>2. txRing[m].time - txCntAcked <= txRing[i].time - txCntAcked
          BY <4>1, <4>2, <4>4
        <5> QED BY <3>0, <4>1, <4>2, <5>1, <5>2
      <4>6. /\ txRing[m].tag = txRing[m].time /\ t = txRing[m].time
            /\ txCntAcked < t /\ t <= Given /\ \A i \in Owned : t < txRing[i].packet
        BY <4>1 DEF OrderInv, TimesTrue
      <4>7. m \notin Owned /\ (Writing => m # nextTxDescIdx)
        BY <4>1 DEF OrderInv, Filled, Owned, Timed
      <4>8. t \in Nat /\ txCntAcked <= t
        BY <3>0, <4>1, <4>2, <4>6
      <4> QED BY <4>5, <4>6, <4>7, <4>8
    <3> QED BY <3>1, <3>2
  <2>4. Owned' = Owned /\ \A i \in (Owned \cup Timed) \ {m} : txRing'[i] = txRing[i]
    BY <2>1, <2>3, Sizes DEF OnlyChanged
  <2>5. Counted'
    BY <1>1, <1>2, <2>1, <2>3 DEF OrderInv, Counted
  <2>6. Filled'
    <3>1. ASSUME Writing PROVE txRing'[nextTxDescIdx] = txRing[nextTxDescIdx]
      BY <2>1, <2>3, <3>1, Sizes DEF OnlyChanged
    <3> QED BY <1>1, <3>1 DEF OrderInv, Filled, Writing
  <2>7. Labelled' /\ Consecutive' /\ DmaFirst'
    BY <1>1, <1>2, <2>1, <2>3, <2>4 DEF OrderInv, Labelled, Consecutive, DmaFirst
  <2>8. TimesTrue'
    BY <1>2, <2>1, <2>3, <2>4 DEF OrderInv, TimesTrue
  <2>9. Cleared'
    BY <1>1, <1>2, <2>1, <2>3 DEF Cleared
  <2>10. Reported'
    <3>0. /\ reported \in Seq(Nat \X Nat) /\ Len(reported) \in Nat /\ txCntAcked \in Nat
          /\ \A k \in 1 .. Len(reported) : /\ reported[k] \in Nat \X Nat
                                           /\ reported[k][1] = reported[k][2] /\ reported[k][1] <= txCntAcked
                                           /\ k > 1 => reported[k][1] > reported[k - 1][1]
      BY Sizes DEF OrderInv, Reported
    <3>1. \A k \in 1 .. Len(reported) : reported[k][1] <= t /\ reported[k][1] \in Nat
      BY <2>3, <3>0
    <3>2. CASE txRing[m].tag = 0
      BY <2>1, <2>2, <3>0, <3>1, <3>2 DEF Reported
    <3>3. CASE txRing[m].tag # 0
      <4>1. reported' = Append(reported, <<t, t>>) /\ txCntAcked < t
        BY <2>2, <2>3, <3>3
      <4> DEFINE n == Len(reported)
      <4>2. /\ reported' \in Seq(Nat \X Nat) /\ Len(reported') = n + 1 /\ reported'[n + 1] = <<t, t>>
            /\ \A k \in 1 .. n : reported'[k] = reported[k]
        <5>1. <<t, t>> \in Nat \X Nat
          BY <2>3
        <5> QED BY <3>0, <4>1, <5>1, AppendProperties
      <4> HIDE DEF t, m
      <4>3. ASSUME NEW k \in 1 .. Len(reported')
            PROVE  /\ reported'[k][1] = reported'[k][2] /\ reported'[k][1] <= t
                   /\ k > 1 => reported'[k][1] > reported'[k - 1][1]
        <5>1. CASE k \in 1 .. n
          <6>1. k > 1 => k - 1 \in 1 .. n
            BY <3>0, <5>1
          <6> QED BY <3>0, <3>1, <4>2, <5>1, <6>1
        <5>2. CASE k = n + 1
          <6>1. k > 1 => k - 1 \in 1 .. n /\ reported'[k - 1] = reported[k - 1]
            BY <3>0, <4>2, <5>2
          <6>2. k > 1 => reported[k - 1][1] \in Nat /\ reported[k - 1][1] < t
            BY <2>3, <3>0, <3>1, <4>1, <6>1
          <6>3. reported'[k][1] = t /\ reported'[k][2] = t
            BY <4>2, <5>2
          <6> QED BY <2>3, <6>1, <6>2, <6>3
        <5> QED BY <3>0, <4>2, <5>1, <5>2
      <4> QED BY <2>1, <4>2, <4>3 DEF Reported
    <3> QED BY <3>2, <3>3
  <2> QED BY <2>5, <2>6, <2>7, <2>8, <2>9, <2>10 DEF OrderInv
<1> QED BY <1>4, <1>5

LEMMA OrderStep ==
  ASSUME NoWrap, OrderInv, [Next]_vars
  PROVE  OrderInv'
<1>0. Shape' /\ Shape
  BY ShapeStep DEF OrderInv
<1>1. CASE TransmitStart
  <2>1. UNCHANGED <<sent, isr, left, minIdx, reported, dmaTx, txRing, state>> /\ isr = "idle"
        /\ thread = "idle" /\ thread' = "wait"
    BY <1>1 DEF TransmitStart, handler, counts, seen, dma, Preempted
  <2>2. Given' = Given /\ ~Writing'
    BY <2>1 DEF Given, Writing
  <2>3. Owned' = Owned /\ Timed' = Timed /\ UNCHANGED <<nextTxDescIdx, txCntSent, txCntAcked>>
    BY <2>1 DEF Owned, Timed, state
  <2>4. Labelled' /\ Consecutive' /\ DmaFirst' /\ TimesTrue'
    BY <2>1, <2>2, <2>3 DEF OrderInv, Labelled, Consecutive, DmaFirst, TimesTrue
  <2> QED BY <1>0, <2>1, <2>2, <2>3, <2>4 DEF OrderInv, Counted, Filled, Cleared, Reported
<1>2. CASE TransmitErase \/ TransmitFill \/ TransmitPass
  BY <1>0, <1>2, OrderErase, OrderFill, OrderPass
<1>3. CASE DmaSend \/ TxScan
  BY <1>0, <1>3, OrderSend, OrderScan
<1>4. ASSUME NEW stamped \in BOOLEAN, DmaReceive(stamped) PROVE OrderInv'
  <2>1. UNCHANGED <<txRing, state, sent, thread, withTime, dmaTx, reported, minIdx, isr, left>>
    BY <1>4 DEF DmaReceive, state, caller, handler
  <2> QED BY <1>0, <2>1, OrderKept DEF Given, Writing
<1>5. CASE IsrEnter \/ IsrAck \/ IsrEnd \/ RxFind \/ RxRead \/ RxKeep \/ RxDone
  <2>1. UNCHANGED <<txRing, state, sent, thread, withTime, dmaTx, reported>>
    BY <1>5 DEF IsrEnter, IsrAck, IsrEnd, RxFind, RxRead, RxKeep, RxDone, state, caller, dma, counts, seen
  <2>2. isr' # "scan" \/ left' = 0
    BY <1>5 DEF IsrEnter, IsrAck, IsrEnd, RxFind, RxRead, RxKeep, RxDone
  <2>3. Owned' = Owned /\ Timed' = Timed /\ UNCHANGED <<nextTxDescIdx, txCntSent, txCntAcked>>
    BY <2>1 DEF Owned, Timed, state
  <2>4. Given' = Given
    BY <2>1 DEF Given
  <2>5. Labelled' /\ Consecutive' /\ DmaFirst' /\ TimesTrue'
    BY <2>1, <2>3, <2>4 DEF OrderInv, Labelled, Consecutive, DmaFirst, TimesTrue
  <2>6. Counted' /\ Filled' /\ Reported'
    BY <2>1, <2>3, <2>4 DEF OrderInv, Counted, Filled, Reported, Writing
  <2>7. Cleared'
    BY <2>2 DEF Cleared
  <2> QED BY <1>0, <2>5, <2>6, <2>7 DEF OrderInv
<1>6. CASE UNCHANGED vars
  <2>1. UNCHANGED <<txRing, state, sent, thread, withTime, dmaTx, reported, minIdx, isr, left>>
    BY <1>6 DEF vars, caller, dma, handler, counts, seen
  <2> QED BY <1>0, <2>1, OrderKept DEF Given, Writing
<1> QED BY <1>1, <1>2, <1>3, <1>4, <1>5, <1>6 DEF Next, ThreadStep, IsrStep

\* As long as fewer packets are sent than the 16-bit number counts, in a ring of any
\* length: each callback gets the time of its own packet, once, and the times are
\* reported in the order the packets were sent, though the handler searches the ring
\* from its start, counts descriptors twice and clears some once more, and the
\* transmitter adds times between its turns (mac_drv.c:404-454).
THEOREM ReportsInOrder ==
  ASSUME NoWrap
  PROVE  Spec => []TimesInOrder
<1>1. OrderInv /\ [Next]_vars => OrderInv'
  BY OrderStep
<1>2. OrderInv => TimesInOrder
  BY DEF OrderInv, Shape, Reported, TimesInOrder
<1> QED BY OrderInitially, <1>1, <1>2, PTL DEF Spec

-----------------------------------------------------------------------------
(* The receive ring: descriptors by age, from the DMA's on. *)

Place(d, i) == IF i >= d THEN i - d ELSE i - d + RxLen

\* With the DMA at d, it would come to i before it came to j: what is in i is older.
Before(d, i, j) == Place(d, i) < Place(d, j)
Older(i, j)     == Before(dmaRx, i, j)

LEMMA Modulo ==
  ASSUME NEW z \in -(RxLen - 1) .. RxLen
  PROVE  z % RxLen = IF z < 0 THEN z + RxLen ELSE IF z = RxLen THEN 0 ELSE z
BY EthAssumption

LEMMA RingSteps ==
  /\ \A i \in RxIdx : /\ NextRx(i) = IF i = RxLen - 1 THEN 0 ELSE i + 1
                      /\ PrevRx(i) = IF i = 0 THEN RxLen - 1 ELSE i - 1
  /\ \A i, k \in RxIdx : (i - k) % RxLen = IF k <= i THEN i - k ELSE i - k + RxLen
<1>1. ASSUME NEW i \in RxIdx PROVE NextRx(i) = IF i = RxLen - 1 THEN 0 ELSE i + 1
  <2>1. i + 1 \in -(RxLen - 1) .. RxLen /\ i \in Nat
    BY EthAssumption DEF RxIdx
  <2>2. (i + 1) % RxLen = IF i + 1 < 0 THEN i + 1 + RxLen ELSE IF i + 1 = RxLen THEN 0 ELSE i + 1
    BY <2>1, Modulo
  <2> QED BY <2>1, <2>2, EthAssumption DEF NextRx
<1>2. ASSUME NEW i \in RxIdx PROVE PrevRx(i) = IF i = 0 THEN RxLen - 1 ELSE i - 1
  <2>1. i - 1 \in -(RxLen - 1) .. RxLen \/ RxLen = 1
    BY EthAssumption DEF RxIdx
  <2>2. CASE RxLen = 1
    BY <2>2 DEF PrevRx, RxIdx
  <2>3. CASE RxLen # 1
    <3>1. (i - 1) % RxLen = IF i - 1 < 0 THEN i - 1 + RxLen ELSE IF i - 1 = RxLen THEN 0 ELSE i - 1
      BY <2>1, <2>3, Modulo
    <3> QED BY <3>1, EthAssumption DEF PrevRx, RxIdx
  <2> QED BY <2>2, <2>3
<1>3. ASSUME NEW i \in RxIdx, NEW k \in RxIdx
      PROVE  (i - k) % RxLen = IF k <= i THEN i - k ELSE i - k + RxLen
  <2>1. i - k \in -(RxLen - 1) .. RxLen
    BY EthAssumption DEF RxIdx
  <2>2. (i - k) % RxLen = IF i - k < 0 THEN i - k + RxLen ELSE IF i - k = RxLen THEN 0 ELSE i - k
    BY <2>1, Modulo
  <2> QED BY <2>2, EthAssumption DEF RxIdx
<1> QED BY <1>1, <1>2, <1>3

LEMMA Neighbours ==
  /\ \A i, j \in RxIdx : NextRx(i) = NextRx(j) => i = j
  /\ \A i \in RxIdx : NextRx(PrevRx(i)) = i
BY RingSteps, Indices, EthAssumption DEF RxIdx

LEMMA Ages ==
  ASSUME NEW d \in RxIdx
  PROVE  /\ \A i \in RxIdx : ~Before(d, i, i) /\ ~Before(d, i, d)
         /\ \A i, j \in RxIdx : i = j \/ Before(d, i, j) \/ Before(d, j, i)
         /\ \A i, j \in RxIdx : Before(d, i, j) => ~Before(d, j, i)
         /\ \A i, j, k \in RxIdx : Before(d, i, j) /\ Before(d, j, k) => Before(d, i, k)
         /\ \A i, j \in RxIdx : NextRx(i) = d => ~Before(d, i, j)
         /\ \A i \in RxIdx : NextRx(i) # d => Before(d, i, NextRx(i))
         /\ \A i, j \in RxIdx :
              NextRx(i) # d /\ Before(d, i, j) => j = NextRx(i) \/ Before(d, NextRx(i), j)
<1>1. \A i \in RxIdx : Place(d, i) \in 0 .. RxLen - 1
  BY EthAssumption DEF RxIdx, Place
<1>2. \A i, j \in RxIdx : Place(d, i) = Place(d, j) => i = j
  BY EthAssumption DEF RxIdx, Place
<1>3. Place(d, d) = 0
  BY EthAssumption DEF RxIdx, Place
<1>4. ASSUME NEW i \in RxIdx, NextRx(i) # d PROVE Place(d, NextRx(i)) = Place(d, i) + 1
  BY <1>4, RingSteps, EthAssumption DEF RxIdx, Place
<1>5. ASSUME NEW i \in RxIdx, NextRx(i) = d PROVE Place(d, i) = RxLen - 1
  BY <1>5, RingSteps, EthAssumption DEF RxIdx, Place
<1>6. \A i \in RxIdx : NextRx(i) \in RxIdx
  BY Indices
<1>7. RxLen \in Nat
  BY EthAssumption
<1>8. \A i \in RxIdx : ~Before(d, i, i) /\ ~Before(d, i, d)
  BY <1>1, <1>3 DEF Before
<1>9. \A i, j \in RxIdx : i = j \/ Before(d, i, j) \/ Before(d, j, i)
  BY <1>1, <1>2 DEF Before
<1>10. \A i, j \in RxIdx : Before(d, i, j) => ~Before(d, j, i)
  BY <1>1 DEF Before
<1>11. \A i, j, k \in RxIdx : Before(d, i, j) /\ Before(d, j, k) => Before(d, i, k)
  BY <1>1 DEF Before
<1>12. \A i, j \in RxIdx : NextRx(i) = d => ~Before(d, i, j)
  BY <1>1, <1>5, <1>7 DEF Before
<1>13. \A i \in RxIdx : NextRx(i) # d => Before(d, i, NextRx(i))
  BY <1>1, <1>4 DEF Before
<1>14. ASSUME NEW i \in RxIdx, NEW j \in RxIdx, NextRx(i) # d, Before(d, i, j)
       PROVE  j = NextRx(i) \/ Before(d, NextRx(i), j)
  <2>1. Place(d, NextRx(i)) = Place(d, i) + 1 /\ Place(d, i) < Place(d, j)
    BY <1>4, <1>14 DEF Before
  <2>2. Place(d, j) = Place(d, NextRx(i)) \/ Place(d, NextRx(i)) < Place(d, j)
    BY <1>1, <2>1
  <2> QED BY <1>2, <1>6, <2>2 DEF Before
<1> QED BY <1>8, <1>9, <1>10, <1>11, <1>12, <1>13, <1>14

\* When the DMA goes on by one descriptor, that becomes the newest.
LEMMA Turn ==
  ASSUME NEW d \in RxIdx, NEW i \in RxIdx
  PROVE  Place(NextRx(d), i) = IF i = d THEN RxLen - 1 ELSE Place(d, i) - 1
BY RingSteps, EthAssumption DEF RxIdx, Place

LEMMA AgesTurn ==
  ASSUME NEW stamped \in BOOLEAN, dmaRx \in RxIdx, DmaReceive(stamped)
  PROVE  /\ \A i, j \in RxIdx \ Taken(stamped) : Before(dmaRx', i, j) <=> Before(dmaRx, i, j)
         /\ \A i \in RxIdx \ Taken(stamped), t \in Taken(stamped) : Before(dmaRx', i, t)
         /\ stamped => NextRx(dmaRx) # dmaRx
<1> DEFINE d == dmaRx
           n == NextRx(d)
<1>1. n \in RxIdx /\ RxLen \in Nat \ {0}
  BY Indices, EthAssumption
<1>2. \A i \in RxIdx : Place(d, i) \in 0 .. RxLen - 1 /\ Place(n, i) \in 0 .. RxLen - 1
  BY <1>1 DEF RxIdx, Place
<1>3. \A i \in RxIdx : Place(n, i) = IF i = d THEN RxLen - 1 ELSE Place(d, i) - 1
  BY Turn
<1>4. CASE ~stamped
  <2>1. dmaRx' = n /\ Taken(stamped) = {d}
    BY <1>4 DEF DmaReceive, Taken
  <2>2. ASSUME NEW i \in RxIdx, i # d
        PROVE  Place(n, i) < Place(n, d) /\ Place(n, i) = Place(d, i) - 1
    <3>1. Place(n, i) = Place(d, i) - 1 /\ Place(n, d) = RxLen - 1
      BY <1>3, <2>2
    <3> QED BY <1>1, <1>2, <3>1
  <2> HIDE DEF n
  <2>3. \A i, j \in RxIdx \ {d} : Place(n, i) < Place(n, j) <=> Place(d, i) < Place(d, j)
    BY <1>2, <2>2
  <2> QED BY <1>4, <2>1, <2>2, <2>3 DEF Before
<1>5. CASE stamped
  <2>1. dmaRx' = NextRx(n) /\ Taken(stamped) = {d, n}
    BY <1>5 DEF DmaReceive, Taken
  <2>2. n # d
    <3>1. Cardinality(Taken(stamped)) = 2
      BY <1>5 DEF DmaReceive
    <3>2. Cardinality({d}) = 1
      BY FS_Singleton
    <3> QED BY <2>1, <3>1, <3>2
  <2> DEFINE m == NextRx(n)
  <2>3. \A i \in RxIdx : Place(m, i) = IF i = n THEN RxLen - 1 ELSE Place(n, i) - 1
    BY <1>1, Turn
  <2>4. ASSUME NEW i \in RxIdx, i # d, i # n
        PROVE  Place(m, i) < Place(m, d) /\ Place(m, i) < Place(m, n) /\ Place(m, i) = Place(d, i) - 2
    <3>1. Place(m, i) = Place(n, i) - 1 /\ Place(n, i) = Place(d, i) - 1
      BY <1>3, <2>3, <2>4
    <3>2. Place(m, n) = RxLen - 1 /\ Place(m, d) = Place(n, d) - 1 /\ Place(n, d) = RxLen - 1
      BY <1>1, <1>3, <2>2, <2>3
    <3> QED BY <1>1, <1>2, <3>1, <3>2
  <2> HIDE DEF m, n
  <2>5. \A i, j \in RxIdx \ {d, n} : Place(m, i) < Place(m, j) <=> Place(d, i) < Place(d, j)
    BY <1>2, <2>4
  <2> QED BY <1>5, <2>1, <2>2, <2>4, <2>5 DEF Before, m, n
<1> QED BY <1>4, <1>5

-----------------------------------------------------------------------------
(* Frames are handed on in order. *)

\* A frame's first descriptor; those that may be late or missing; those handed on.
Starts(i) == rxRing[i].kind \in {"plain", "stamped"}
Waived(i) == rxRing[i].frame \in kept \cup behind
HandedOn  == {delivered[k][1] : k \in DOMAIN delivered}

\* A time follows its frame, and the DMA never is between them. Only a frame that came
\* behind the handler's back can lose it.
Paired ==
  \A i \in RxIdx :
    /\ rxRing[NextRx(i)].kind = "time" =>
         rxRing[i].kind = "stamped" /\ rxRing[i].frame = rxRing[NextRx(i)].frame
    /\ rxRing[i].kind = "stamped" =>
         /\ NextRx(i) # dmaRx /\ NextRx(i) # i
         /\ \/ rxRing[NextRx(i)].kind = "time"
            \/ ~Used(NextRx(i)) /\ rxRing[i].frame \in behind

Sorted ==
  \A i, j \in RxIdx : Starts(i) /\ Starts(j) /\ Older(i, j) => rxRing[i].frame < rxRing[j].frame

Accounted ==
  /\ delivered \in Seq(Nat \X Nat) /\ HandedOn \subseteq 1 .. frames
  /\ \A i \in RxIdx : Used(i) =>
       /\ rxRing[i].frame \in 1 .. frames
       /\ rxRing[i].frame \in behind \/ rxRing[i].frame \notin HandedOn
  /\ \A f \in 1 .. frames : f \in HandedOn \/ \E i \in RxIdx : Starts(i) /\ rxRing[i].frame = f

\* Between interrupts, what has to come next is in the block that ends at the DMA's
\* descriptor, where the search will find it.
Newest ==
  isr # "read" =>
    /\ ~ahead
    /\ \A j \in RxIdx : Starts(j) /\ ~Waived(j) => \A k \in RxIdx : Older(k, j) \/ Used(k)

\* The handler is in that block, and what is older may stay; or all may stay.
InBlock ==
  /\ \A k \in RxIdx : Older(k, bd) \/ Used(k)
  /\ \A j \in RxIdx : Starts(j) /\ Older(j, bd) => Waived(j)
Past ==
  /\ \A j \in RxIdx : Starts(j) => Waived(j)
  /\ ahead \/ bd = dmaRx
Reading ==
  isr = "read" =>
    /\ rxRing[bd].kind = "time" => rxRing[bd].frame \in behind
    /\ InBlock \/ Past

RxInv == Shape /\ Paired /\ Sorted /\ Accounted /\ Newest /\ Reading /\ FramesInOrder

LEMMA RxInitially == Init => RxInv
<1> SUFFICES ASSUME Init PROVE RxInv
  OBVIOUS
<1>1. Shape
  BY ShapeInitially
<1>2. \A i \in RxIdx : NextRx(i) \in RxIdx /\ rxRing[i].kind = "free" /\ rxRing[i].frame = 0
  BY Indices DEF Init, FreeRx
<1>3. delivered = <<>> /\ frames = 0 /\ isr = "idle" /\ ~ahead
  BY DEF Init
<1>4. HandedOn = {} /\ FramesInOrder
  BY <1>3 DEF HandedOn, FramesInOrder
<1> QED BY <1>1, <1>2, <1>3, <1>4 DEF RxInv, Paired, Sorted, Accounted, Newest, Reading, Starts, Used

LEMMA RxKinds ==
  ASSUME Shape
  PROVE  /\ dmaRx \in RxIdx /\ bd \in RxIdx
         /\ \A i \in RxIdx : /\ Used(i) <=> Starts(i) \/ rxRing[i].kind = "time"
                             /\ ~(Starts(i) /\ rxRing[i].kind = "time")
                             /\ rxRing[i].frame \in Nat /\ NextRx(i) \in RxIdx /\ PrevRx(i) \in RxIdx
                             /\ ~Used(i) <=> rxRing[i].kind = "free"
<1>1. ASSUME NEW i \in RxIdx PROVE rxRing[i].kind \in {"free", "plain", "stamped", "time"} /\ rxRing[i].frame \in Nat
  <2>1. rxRing[i] \in RxDescs
    BY DEF Shape, TypeOK, RxDescs
  <2> QED BY <2>1, EthAssumption DEF RxDescs
<1> QED BY <1>1, Indices DEF Used, Starts, Shape, TypeOK

\* Steps that leave the received frames and who reads them alone.
LEMMA RxKept ==
  ASSUME RxInv, Shape', UNCHANGED <<rxRing, dmaRx, bd, frames, delivered, kept, ahead, behind>>,
         isr' = isr \/ (isr # "read" /\ isr' # "read")
  PROVE  RxInv'
<1>1. \A i : Used(i)' = Used(i) /\ Starts(i)' = Starts(i) /\ Waived(i)' = Waived(i)
  BY DEF Used, Starts, Waived
<1>2. \A i, j : Older(i, j)' = Older(i, j)
  BY DEF Older, Before
<1>3. HandedOn' = HandedOn /\ FramesInOrder' = FramesInOrder
  BY DEF HandedOn, FramesInOrder
<1>4. Paired' /\ Sorted' /\ Accounted'
  BY <1>1, <1>2, <1>3 DEF RxInv, Paired, Sorted, Accounted
<1>5. Newest' /\ Reading'
  BY <1>1, <1>2 DEF RxInv, Newest, Reading, InBlock, Past
<1> QED BY <1>3, <1>4, <1>5 DEF RxInv

LEMMA RxReceive ==
  ASSUME RxInv, Shape', NEW stamped \in BOOLEAN, DmaReceive(stamped)
  PROVE  RxInv'
<1> DEFINE d == dmaRx
           f == frames + 1
           T == Taken(stamped)
           New(i, j) == Before(dmaRx', i, j)
           Old(i) == i \in RxIdx /\ i \notin T
<1>0. Shape
  BY DEF RxInv
<1>1. /\ frames \in Nat /\ frames' = f /\ f \in Nat /\ f # 0 /\ d \in RxIdx /\ T \subseteq RxIdx /\ d \in T
      /\ T = IF stamped THEN {d, NextRx(d)} ELSE {d}
  BY <1>0, RxKinds, EthAssumption DEF DmaReceive, Taken, Shape, TypeOK
<1>2. /\ \A i \in T : ~Used(i)
      /\ behind' = IF ahead THEN behind \cup {f} ELSE behind
      /\ dmaRx' = IF stamped THEN NextRx(NextRx(d)) ELSE NextRx(d)
      /\ UNCHANGED <<isr, bd, delivered, kept, ahead>>
  BY <1>1 DEF DmaReceive, handler, Used
<1>3. /\ stamped => NextRx(d) # d
      /\ \A i, j : Old(i) /\ Old(j) => (New(i, j) <=> Older(i, j))
      /\ \A i, t : Old(i) /\ t \in T => New(i, t)
  BY <1>1, AgesTurn DEF Older
<1>4. /\ \A i \in RxIdx \ T : rxRing'[i] = rxRing[i]
      /\ rxRing'[d] = [kind |-> IF stamped THEN "stamped" ELSE "plain", frame |-> f]
      /\ stamped => rxRing'[NextRx(d)] = [kind |-> "time", frame |-> f]
  <2>1. rxRing' = [i \in RxIdx |->
           IF i = d THEN [kind |-> IF stamped THEN "stamped" ELSE "plain", frame |-> f]
           ELSE IF i \in T THEN [kind |-> "time", frame |-> f]
           ELSE rxRing[i]]
    BY <1>1 DEF DmaReceive
  <2> HIDE DEF T
  <2> QED BY <1>1, <1>3, <2>1
<1>5. /\ \A i : Old(i) => (Used(i)' <=> Used(i)) /\ (Starts(i)' <=> Starts(i))
      /\ \A i \in T : Used(i)' /\ rxRing'[i].frame = f /\ (Starts(i)' <=> i = d)
      /\ \A i : Old(i) /\ Waived(i) => Waived(i)'
      /\ ahead => \A i \in T : Waived(i)'
  <2>1. \A i : Old(i) => (Used(i)' <=> Used(i)) /\ (Starts(i)' <=> Starts(i))
    BY <1>4 DEF Used, Starts
  <2>2. \A i \in T : Used(i)' /\ rxRing'[i].frame = f /\ (Starts(i)' <=> i = d)
    BY <1>1, <1>3, <1>4 DEF Used, Starts
  <2>3. \A i : Old(i) /\ Waived(i) => Waived(i)'
    BY <1>2, <1>4 DEF Waived
  <2>4. ahead => \A i \in T : Waived(i)'
    BY <1>2, <2>2 DEF Waived
  <2> QED BY <2>1, <2>2, <2>3, <2>4
<1>6. \A i \in RxIdx : NextRx(i) \in RxIdx
  BY Indices
<1>7. \A i \in RxIdx : (Starts(i) \/ rxRing[i].kind = "time" <=> Used(i)) /\ (rxRing[i].kind = "stamped" => Starts(i))
  BY <1>0, RxKinds DEF Starts
<1>a. dmaRx' \in RxIdx
  BY <1>1, <1>2, <1>6
<1>8. Paired'
  <2> SUFFICES ASSUME NEW i \in RxIdx
               PROVE  /\ rxRing'[NextRx(i)].kind = "time" =>
                           rxRing'[i].kind = "stamped" /\ rxRing'[i].frame = rxRing'[NextRx(i)].frame
                      /\ rxRing'[i].kind = "stamped" =>
                           /\ NextRx(i) # dmaRx' /\ NextRx(i) # i
                           /\ \/ rxRing'[NextRx(i)].kind = "time"
                              \/ ~Used(NextRx(i))' /\ rxRing'[i].frame \in behind'
    BY DEF Paired, Used
  <2>0. /\ rxRing[NextRx(i)].kind = "time" =>
             rxRing[i].kind = "stamped" /\ rxRing[i].frame = rxRing[NextRx(i)].frame
        /\ rxRing[i].kind = "stamped" =>
             /\ NextRx(i) # d /\ NextRx(i) # i
             /\ \/ rxRing[NextRx(i)].kind = "time"
                \/ ~Used(NextRx(i)) /\ rxRing[i].frame \in behind
    BY DEF RxInv, Paired
  <2>1. ASSUME rxRing'[NextRx(i)].kind = "time"
        PROVE  rxRing'[i].kind = "stamped" /\ rxRing'[i].frame = rxRing'[NextRx(i)].frame
    <3>1. CASE NextRx(i) \in T
      <4>1. stamped /\ NextRx(i) = NextRx(d)
        BY <1>1, <1>4, <2>1, <3>1
      <4>2. i = d
        BY <1>1, <4>1, Neighbours
      <4> QED BY <1>4, <4>1, <4>2
    <3>2. CASE NextRx(i) \notin T
      <4>1. rxRing'[NextRx(i)] = rxRing[NextRx(i)]
        BY <1>4, <1>6, <3>2
      <4>2. i \notin T
        BY <1>2, <1>7, <2>0, <2>1, <4>1
      <4> QED BY <1>4, <2>0, <2>1, <4>1, <4>2
    <3> QED BY <3>1, <3>2
  <2>2. ASSUME rxRing'[i].kind = "stamped"
        PROVE  /\ NextRx(i) # dmaRx' /\ NextRx(i) # i
               /\ \/ rxRing'[NextRx(i)].kind = "time"
                  \/ ~Used(NextRx(i))' /\ rxRing'[i].frame \in behind'
    <3>1. CASE i \in T
      <4>1. i = d /\ stamped
        BY <1>1, <1>4, <2>2, <3>1
      <4>2. NextRx(d) # d /\ NextRx(NextRx(d)) # NextRx(d)
        BY <1>1, <1>3, <1>6, <4>1, Neighbours
      <4> QED BY <1>2, <1>4, <4>1, <4>2
    <3>2. CASE i \notin T
      <4>1. rxRing'[i] = rxRing[i] /\ rxRing[i].kind = "stamped" /\ NextRx(i) # d /\ NextRx(i) # i
        BY <1>4, <2>0, <2>2, <3>2
      <4>2. NextRx(i) \notin T /\ NextRx(i) # dmaRx'
        <5>1. \A j \in T : NextRx(i) # NextRx(j)
          BY <1>1, <3>2, Neighbours
        <5> QED BY <1>1, <1>2, <4>1, <5>1
      <4>3. rxRing'[NextRx(i)] = rxRing[NextRx(i)] /\ behind \subseteq behind'
        BY <1>2, <1>4, <1>6, <4>2
      <4> QED BY <2>0, <4>1, <4>2, <4>3 DEF Used
    <3> QED BY <3>1, <3>2
  <2> QED BY <2>1, <2>2
<1> HIDE DEF T
<1>9. Sorted'
  <2> SUFFICES ASSUME NEW i \in RxIdx, NEW j \in RxIdx, Starts(i)', Starts(j)', New(i, j)
               PROVE  rxRing'[i].frame < rxRing'[j].frame
    BY DEF Sorted, Older
  <2>0. ~New(j, i) /\ i # j
    BY <1>a, Ages
  <2>1. CASE i \in T
    <3>1. i = d /\ j \notin T
      BY <1>1, <1>5, <2>0, <2>1
    <3> QED BY <1>3, <2>0, <2>1, <3>1
  <2>2. CASE i \notin T /\ j \in T
    <3>1. rxRing'[i].frame \in 1 .. frames /\ rxRing'[j].frame = f
      BY <1>4, <1>5, <1>7, <2>2 DEF RxInv, Accounted
    <3> QED BY <1>1, <3>1
  <2>3. CASE i \notin T /\ j \notin T
    BY <1>3, <1>4, <1>5, <2>3 DEF RxInv, Sorted
  <2> QED BY <2>1, <2>2, <2>3
<1>10. Accounted'
  <2>1. HandedOn' = HandedOn /\ HandedOn \subseteq 1 .. frames /\ 1 .. frames \subseteq 1 .. f /\ f \notin HandedOn
    <3>1. HandedOn' = HandedOn /\ HandedOn \subseteq 1 .. frames
      BY <1>2 DEF HandedOn, RxInv, Accounted
    <3> QED BY <1>1, <3>1
  <2>2. ASSUME NEW i \in RxIdx, Used(i)'
        PROVE  /\ rxRing'[i].frame \in 1 .. f
               /\ rxRing'[i].frame \in behind' \/ rxRing'[i].frame \notin HandedOn
    <3>1. CASE i \in T
      BY <1>1, <1>5, <2>1, <3>1
    <3>2. CASE i \notin T
      <4>1. rxRing'[i] = rxRing[i] /\ Used(i) /\ behind \subseteq behind'
        BY <1>2, <1>4, <1>5, <2>2, <3>2
      <4> QED BY <2>1, <4>1 DEF RxInv, Accounted
    <3> QED BY <3>1, <3>2
  <2>3. ASSUME NEW g \in 1 .. f, g \notin HandedOn
        PROVE  \E i \in RxIdx : Starts(i)' /\ rxRing'[i].frame = g
    <3>1. CASE g = f
      BY <1>1, <1>5, <3>1
    <3>2. CASE g # f
      <4>1. g \in 1 .. frames
        BY <1>1, <3>2
      <4>2. PICK i \in RxIdx : Starts(i) /\ rxRing[i].frame = g
        BY <2>3, <4>1 DEF RxInv, Accounted
      <4>3. i \notin T
        BY <1>2, <1>7, <4>2
      <4> QED BY <1>4, <1>5, <4>2, <4>3
    <3> QED BY <3>1, <3>2
  <2>4. delivered' \in Seq(Nat \X Nat)
    BY <1>2 DEF RxInv, Accounted
  <2> QED BY <1>1, <2>1, <2>2, <2>3, <2>4 DEF Accounted
\* What came before the frame and had not to stay has not to now.
<1>11. ASSUME NEW j \in RxIdx \ T, \A k \in RxIdx : Older(k, j) \/ Used(k)
       PROVE  \A k \in RxIdx : New(k, j) \/ Used(k)'
  <2> SUFFICES ASSUME NEW k \in RxIdx PROVE New(k, j) \/ Used(k)'
    OBVIOUS
  <2>1. CASE k \in T
    BY <1>5, <2>1
  <2>2. CASE k \notin T
    BY <1>3, <1>5, <1>11, <2>2
  <2> QED BY <2>1, <2>2
<1>12. \A k \in RxIdx : New(k, d) \/ Used(k)'
  BY <1>1, <1>3, <1>5
<1>13. Newest'
  <2> SUFFICES ASSUME isr' # "read"
               PROVE  /\ ~ahead'
                      /\ \A j \in RxIdx : Starts(j)' /\ ~(Waived(j)') => \A k \in RxIdx : New(k, j) \/ Used(k)'
    BY DEF Newest, Older
  <2>1. ~ahead /\ \A j \in RxIdx : Starts(j) /\ ~Waived(j) => \A k \in RxIdx : Older(k, j) \/ Used(k)
    BY <1>2 DEF RxInv, Newest
  <2>2. ASSUME NEW j \in RxIdx, Starts(j)', ~(Waived(j)') PROVE \A k \in RxIdx : New(k, j) \/ Used(k)'
    <3>1. CASE j \in T
      BY <1>5, <1>12, <2>2, <3>1
    <3>2. CASE j \notin T
      <4>1. Starts(j) /\ ~Waived(j)
        BY <1>5, <2>2, <3>2
      <4> QED BY <1>11, <2>1, <3>2, <4>1
    <3> QED BY <3>1, <3>2
  <2> QED BY <1>2, <2>1, <2>2
<1>14. Reading'
  <2> SUFFICES ASSUME isr' = "read"
               PROVE  /\ rxRing'[bd].kind = "time" => rxRing'[bd].frame \in behind'
                      /\ InBlock' \/ Past'
    BY <1>2 DEF Reading
  <2>0. /\ rxRing[bd].kind = "time" => rxRing[bd].frame \in behind
        /\ InBlock \/ Past
        /\ bd \in RxIdx /\ behind \subseteq behind'
    BY <1>0, <1>2, RxKinds DEF RxInv, Reading
  <2>1. CASE InBlock
    <3>1. Used(bd) /\ bd \notin T
      BY <1>1, <1>2, <2>0, <2>1, Ages DEF InBlock, Older
    <3>2. \A k \in RxIdx : New(k, bd) \/ Used(k)'
      BY <1>11, <2>0, <2>1, <3>1 DEF InBlock
    <3>3. ASSUME NEW j \in RxIdx, Starts(j)', New(j, bd) PROVE Waived(j)'
      <4>1. j \notin T
        BY <1>3, <1>a, <2>0, <3>1, <3>3, Ages
      <4>2. Starts(j) /\ Older(j, bd)
        BY <1>3, <1>5, <2>0, <3>1, <3>3, <4>1
      <4> QED BY <1>5, <2>1, <4>1, <4>2 DEF InBlock
    <3>4. InBlock'
      BY <1>2, <3>2, <3>3 DEF InBlock, Older
    <3> QED BY <1>4, <2>0, <3>1, <3>4
  <2>2. CASE Past /\ ahead
    <3>1. \A j \in RxIdx : Starts(j)' => Waived(j)'
      BY <1>5, <2>2 DEF Past
    <3>2. rxRing'[bd].kind = "time" => rxRing'[bd].frame \in behind'
      BY <1>1, <1>2, <1>4, <1>5, <2>0, <2>2
    <3> QED BY <1>2, <2>2, <3>1, <3>2 DEF Past
  <2>3. CASE Past /\ ~ahead
    <3>1. bd = d
      BY <2>3 DEF Past
    <3>2. ASSUME NEW j \in RxIdx, Starts(j)', New(j, d) PROVE Waived(j)'
      <4>1. j # d
        BY <1>1, <1>a, <3>2, Ages
      <4>2. j \notin T
        BY <1>5, <3>2, <4>1
      <4> QED BY <1>5, <2>3, <3>2, <4>2 DEF Past
    <3>3. InBlock'
      BY <1>2, <1>12, <3>1, <3>2 DEF InBlock, Older
    <3>4. rxRing'[bd].kind # "time"
      BY <1>4, <3>1
    <3> QED BY <3>3, <3>4
  <2> QED BY <2>0, <2>1, <2>2, <2>3
<1>15. FramesInOrder'
  <2>1. UNCHANGED <<delivered, kept>> /\ behind \subseteq behind'
    BY <1>2
  <2> QED BY <2>1 DEF RxInv, FramesInOrder
<1> QED BY <1>8, <1>9, <1>10, <1>13, <1>14, <1>15 DEF RxInv

LEMMA RxFindKeeps ==
  ASSUME RxInv, Shape', RxFind
  PROVE  RxInv'
<1>0. Shape /\ isr = "find" /\ isr' = "read"
  BY DEF RxInv, RxFind
<1>1. PICK n \in 0 .. RxLen - 1 : /\ bd' = (dmaRx - n) % RxLen
                                  /\ ~Used(PrevRx(bd'))
                                  /\ \A k \in 1 .. n : Used((dmaRx - k) % RxLen)
  BY DEF RxFind
<1>2. /\ UNCHANGED <<rxRing, dmaRx, frames, delivered, kept, ahead, behind>>
      /\ dmaRx \in RxIdx /\ bd' \in RxIdx
  BY <1>0, RxKinds DEF RxFind, dma, counts, seen, Shape, TypeOK
<1> DEFINE b == bd'
           p == PrevRx(b)
<1>3. p \in RxIdx /\ NextRx(p) = b /\ ~Used(p)
  BY <1>1, <1>2, Indices, Neighbours
<1>4. rxRing[b].kind # "time"
  <2>1. rxRing[p].kind # "stamped"
    BY <1>3 DEF Used
  <2> QED BY <1>3, <2>1 DEF RxInv, Paired
<1>5. \A j \in RxIdx : Starts(j) /\ ~Waived(j) => Older(p, j)
  BY <1>0, <1>3 DEF RxInv, Newest
<1>6. InBlock' \/ Past'
  <2>1. CASE n = 0
    <3>1. b = dmaRx
      BY <1>1, <1>2, <2>1, RingSteps, EthAssumption DEF RxIdx
    <3>2. \A j \in RxIdx : ~Older(p, j)
      BY <1>2, <1>3, <3>1, Ages DEF Older
    <3> QED BY <1>2, <1>5, <3>1, <3>2 DEF Past, Starts, Waived
  <2>2. CASE n # 0
    <3>1. n \in RxIdx /\ b = (IF n <= dmaRx THEN dmaRx - n ELSE dmaRx - n + RxLen)
      BY <1>1, <1>2, RingSteps DEF RxIdx
    <3>2. b # dmaRx
      BY <1>2, <2>2, <3>1, EthAssumption DEF RxIdx
    <3>3. ASSUME NEW k \in RxIdx, ~Older(k, b) PROVE Used(k)
      <4> DEFINE m == IF k < dmaRx THEN dmaRx - k ELSE dmaRx - k + RxLen
      <4>1. m \in 1 .. n
        BY <1>2, <2>2, <3>1, <3>3, EthAssumption DEF RxIdx, Older, Before, Place
      <4>2. m \in RxIdx
        BY <3>1, <4>1, EthAssumption DEF RxIdx
      <4>3. (dmaRx - m) % RxLen = IF m <= dmaRx THEN dmaRx - m ELSE dmaRx - m + RxLen
        BY <1>2, <4>2, RingSteps
      <4>4. (dmaRx - m) % RxLen = k
        BY <1>2, <4>3, EthAssumption DEF RxIdx
      <4> HIDE DEF m
      <4> QED BY <1>1, <4>1, <4>4
    <3>4. ASSUME NEW j \in RxIdx, Starts(j), Older(j, b) PROVE Waived(j)
      <4>1. Older(p, j) => j = b \/ Older(b, j)
        BY <1>2, <1>3, <3>2, Ages DEF Older
      <4>2. j # b /\ ~Older(b, j)
        BY <1>2, <3>4, Ages DEF Older
      <4> QED BY <1>5, <3>4, <4>1, <4>2
    <3> QED BY <1>2, <3>3, <3>4 DEF InBlock, Used, Starts, Waived, Older, Before, Place
  <2> QED BY <2>1, <2>2
<1>7. Reading' /\ Newest'
  BY <1>0, <1>2, <1>4, <1>6 DEF Reading, Newest
<1>8. Paired' /\ Sorted' /\ Accounted' /\ FramesInOrder'
  <2>1. \A i, j : Older(i, j)' = Older(i, j)
    BY <1>2 DEF Older, Before
  <2>2. \A i : Used(i)' = Used(i) /\ Starts(i)' = Starts(i)
    BY <1>2 DEF Used, Starts
  <2>3. HandedOn' = HandedOn /\ FramesInOrder' = FramesInOrder
    BY <1>2 DEF HandedOn, FramesInOrder
  <2> QED BY <1>2, <2>1, <2>2, <2>3 DEF RxInv, Paired, Sorted, Accounted
<1> QED BY <1>7, <1>8 DEF RxInv

\* Where the handler is when it has passed a frame.
LEMMA Passed ==
  ASSUME RxInv, isr = "read", Used(bd), StepBd
  PROVE  /\ FrameAtBd \subseteq RxIdx /\ bd \in FrameAtBd /\ bd' \in RxIdx
         /\ \A i \in FrameAtBd : i = bd \/ (rxRing[bd].kind = "stamped" /\ i = NextRx(bd) /\ ~Starts(i))
         /\ rxRing[bd'].kind # "time"
         /\ InBlock => \/ bd' = dmaRx /\ \A j \in RxIdx : Starts(j) => j = bd \/ Older(j, bd)
                       \/ /\ bd' # dmaRx
                          /\ \A k \in RxIdx : ~Older(k, bd') => ~Older(k, bd) /\ k \notin FrameAtBd
                          /\ \A j \in RxIdx : Older(j, bd') /\ Starts(j) => j = bd \/ Older(j, bd)
<1>0. Shape /\ dmaRx \in RxIdx /\ bd \in RxIdx /\ NextRx(bd) \in RxIdx /\ NextRx(NextRx(bd)) \in RxIdx
  BY RxKinds DEF RxInv
<1> DEFINE b == bd
           e == NextRx(bd)
<1>1. CASE rxRing[b].kind = "stamped"
  <2>1. FrameAtBd = {b, e} /\ bd' = NextRx(e)
    BY <1>1 DEF FrameAtBd, StepBd
  <2>2. e # dmaRx /\ e # b /\ rxRing[e].kind \in {"time", "free"}
    BY <1>0, <1>1 DEF RxInv, Paired, Used
  <2>3. ~Starts(e) /\ rxRing[e].kind # "stamped"
    BY <2>2 DEF Starts
  <2>4. rxRing[bd'].kind # "time"
    BY <1>0, <2>1, <2>3 DEF RxInv, Paired
  <2>5. CASE bd' = dmaRx
    <3>1. ASSUME NEW j \in RxIdx, Starts(j), j # b PROVE Older(j, b)
      <4>1. ~Older(e, j)
        <5>1. e \in RxIdx /\ NextRx(e) = dmaRx
          BY <1>0, <2>1, <2>5
        <5> HIDE DEF e
        <5> QED BY <1>0, <5>1, Ages DEF Older
      <4>2. Older(b, j) => j = e \/ Older(e, j)
        BY <1>0, <2>2, Ages DEF Older
      <4>3. ~Older(b, j)
        BY <2>3, <3>1, <4>1, <4>2
      <4> QED BY <1>0, <3>1, <4>3, Ages DEF Older
    <3> QED BY <1>0, <1>1, <2>1, <2>3, <2>4, <2>5, <3>1
  <2>6. CASE bd' # dmaRx
    <3>1. Older(b, e) /\ Older(e, bd')
      BY <1>0, <2>1, <2>2, <2>6, Ages DEF Older
    <3>2. ASSUME NEW k \in RxIdx, ~Older(k, bd') PROVE ~Older(k, b) /\ k \notin FrameAtBd
      <4>1. Older(b, bd')
        BY <1>0, <2>1, <3>1, Ages DEF Older
      <4>2. ~Older(k, b)
        BY <1>0, <2>1, <3>2, <4>1, Ages DEF Older
      <4> QED BY <2>1, <3>1, <3>2, <4>1, <4>2
    <3>3. ASSUME NEW j \in RxIdx, Older(j, bd'), Starts(j) PROVE j = b \/ Older(j, b)
      <4>1. Older(e, j) => j = bd' \/ Older(bd', j)
        BY <1>0, <2>1, <2>6, Ages DEF Older
      <4>2. j # bd' /\ ~Older(bd', j)
        BY <1>0, <2>1, <3>3, Ages DEF Older
      <4>3. Older(b, j) => j = e \/ Older(e, j)
        BY <1>0, <2>2, Ages DEF Older
      <4>4. ~Older(b, j)
        BY <2>3, <3>3, <4>1, <4>2, <4>3
      <4> QED BY <1>0, <4>4, Ages DEF Older
    <3> QED BY <1>0, <1>1, <2>1, <2>3, <2>4, <2>6, <3>2, <3>3
  <2> QED BY <2>5, <2>6
<1>2. CASE rxRing[b].kind # "stamped"
  <2>1. FrameAtBd = {b} /\ bd' = e
    BY <1>2 DEF FrameAtBd, StepBd
  <2>2. rxRing[bd'].kind # "time"
    BY <1>0, <1>2, <2>1 DEF RxInv, Paired
  <2>3. CASE bd' = dmaRx
    <3>1. \A j \in RxIdx : ~Older(b, j)
      BY <1>0, <2>1, <2>3, Ages DEF Older
    <3>2. \A j \in RxIdx : j = b \/ Older(j, b)
      BY <1>0, <3>1, Ages DEF Older
    <3> QED BY <1>0, <2>1, <2>2, <2>3, <3>2
  <2>4. CASE bd' # dmaRx
    <3>1. Older(b, bd')
      BY <1>0, <2>1, <2>4, Ages DEF Older
    <3>2. ASSUME NEW k \in RxIdx, ~Older(k, bd') PROVE ~Older(k, b) /\ k \notin FrameAtBd
      <4>1. ~Older(k, b)
        BY <1>0, <2>1, <3>1, <3>2, Ages DEF Older
      <4> QED BY <2>1, <3>1, <3>2, <4>1
    <3>3. ASSUME NEW j \in RxIdx, Older(j, bd') PROVE j = b \/ Older(j, b)
      <4>1. Older(b, j) => j = bd' \/ Older(bd', j)
        BY <1>0, <2>1, <2>4, Ages DEF Older
      <4>2. j # bd' /\ ~Older(bd', j)
        BY <1>0, <2>1, <3>3, Ages DEF Older
      <4>3. ~Older(b, j)
        BY <4>1, <4>2
      <4> QED BY <1>0, <4>3, Ages DEF Older
    <3> QED BY <1>0, <2>1, <2>2, <2>4, <3>2, <3>3
  <2> QED BY <2>3, <2>4
<1> QED BY <1>1, <1>2

LEMMA RxKeepKeeps ==
  ASSUME RxInv, Shape', RxKeep
  PROVE  RxInv'
<1>1. /\ Shape /\ isr = "read" /\ isr' = "read" /\ Used(bd) /\ StepBd
      /\ kept' = kept \cup {rxRing[bd].frame}
      /\ UNCHANGED <<rxRing, dmaRx, frames, delivered, behind>>
      /\ ahead' = (ahead \/ dmaRx \in FrameAtBd)
  BY DEF RxInv, RxKeep, StepBd, dma, counts
<1>2. dmaRx \in RxIdx /\ bd \in RxIdx
  BY <1>1, RxKinds
<1>3. /\ \A i, j : Older(i, j)' = Older(i, j)
      /\ \A i : Used(i)' = Used(i) /\ Starts(i)' = Starts(i) /\ (Waived(i) => Waived(i)')
      /\ Waived(bd) \/ rxRing[bd].frame \in kept'
      /\ HandedOn' = HandedOn
  BY <1>1 DEF Older, Before, Used, Starts, Waived, HandedOn
<1>4. Paired' /\ Sorted' /\ Accounted' /\ Newest'
  BY <1>1, <1>3 DEF RxInv, Paired, Sorted, Accounted, Newest
<1>5. FramesInOrder'
  BY <1>1 DEF RxInv, FramesInOrder
<1>6. Reading'
  <2>1. bd' \in RxIdx /\ bd \in FrameAtBd /\ rxRing[bd'].kind # "time"
    BY <1>1, Passed
  <2>2. \A j \in RxIdx : j = bd \/ Waived(j) => rxRing[j].frame \in kept' \cup behind'
    BY <1>1 DEF Waived
  <2>3. CASE InBlock
    <3>1. CASE bd' = dmaRx /\ \A j \in RxIdx : Starts(j) => j = bd \/ Older(j, bd)
      <4>1. \A j \in RxIdx : Starts(j) => rxRing[j].frame \in kept' \cup behind'
        BY <2>2, <2>3, <3>1 DEF InBlock
      <4>2. Past'
        BY <1>1, <3>1, <4>1 DEF Past, Starts, Waived
      <4> QED BY <1>1, <2>1, <4>2 DEF Reading
    <3>2. CASE /\ \A k \in RxIdx : ~Older(k, bd') => ~Older(k, bd) /\ k \notin FrameAtBd
               /\ \A j \in RxIdx : Older(j, bd') /\ Starts(j) => j = bd \/ Older(j, bd)
      <4>1. \A k \in RxIdx : Older(k, bd') \/ Used(k)
        BY <2>3, <3>2 DEF InBlock
      <4>2. \A j \in RxIdx : Starts(j) /\ Older(j, bd') => rxRing[j].frame \in kept' \cup behind'
        BY <2>2, <2>3, <3>2 DEF InBlock
      <4>3. InBlock'
        BY <1>1, <4>1, <4>2 DEF InBlock, Starts, Waived, Used, Older, Before, Place
      <4> QED BY <1>1, <2>1, <4>3 DEF Reading
    <3> QED BY <1>1, <2>3, <3>1, <3>2, Passed
  <2>4. CASE Past
    <3>1. \A j \in RxIdx : Starts(j) => rxRing[j].frame \in kept' \cup behind'
      BY <2>2, <2>4 DEF Past
    <3>2. ahead'
      BY <1>1, <2>1, <2>4 DEF Past
    <3>3. Past'
      BY <1>1, <3>1, <3>2 DEF Past, Starts, Waived
    <3> QED BY <1>1, <2>1, <3>3 DEF Reading
  <2> QED BY <1>1, <2>3, <2>4 DEF RxInv, Reading
<1> QED BY <1>4, <1>5, <1>6 DEF RxInv

LEMMA RxDoneKeeps ==
  ASSUME RxInv, Shape', RxDone
  PROVE  RxInv'
<1>1. /\ Shape /\ isr = "read" /\ isr' = "end" /\ ~Used(bd) /\ ~ahead'
      /\ UNCHANGED <<rxRing, dmaRx, bd, frames, delivered, kept, behind>>
  BY DEF RxInv, RxDone, dma, counts
<1>2. dmaRx \in RxIdx /\ bd \in RxIdx
  BY <1>1, RxKinds
<1>3. /\ \A i, j : Older(i, j)' = Older(i, j)
      /\ \A i : Used(i)' = Used(i) /\ Starts(i)' = Starts(i) /\ Waived(i)' = Waived(i)
      /\ HandedOn' = HandedOn /\ FramesInOrder' = FramesInOrder
  BY <1>1 DEF Older, Before, Used, Starts, Waived, HandedOn, FramesInOrder
<1>4. ~InBlock
  BY <1>1, <1>2, Ages DEF InBlock, Older
<1>5. Past
  BY <1>1, <1>4 DEF RxInv, Reading
<1>6. Newest'
  BY <1>1, <1>3, <1>5 DEF Newest, Past
<1>7. Paired' /\ Sorted' /\ Accounted' /\ Reading'
  BY <1>1, <1>3 DEF RxInv, Paired, Sorted, Accounted, Reading
<1> QED BY <1>3, <1>6, <1>7 DEF RxInv

\* What a used descriptor and the one behind it have to do with each other, and
\* with the other descriptors of the same frame.
LEMMA OneFrame ==
  ASSUME RxInv, NEW b \in RxIdx, Starts(b), NEW i \in RxIdx, Used(i), rxRing[i].frame = rxRing[b].frame
  PROVE  i = b \/ (rxRing[b].kind = "stamped" /\ i = NextRx(b))
<1>0. Shape /\ dmaRx \in RxIdx
  BY RxKinds DEF RxInv
<1>1. ASSUME NEW j \in RxIdx, Starts(j), rxRing[j].frame = rxRing[b].frame PROVE j = b
  <2>1. ~(rxRing[j].frame < rxRing[b].frame) /\ ~(rxRing[b].frame < rxRing[j].frame)
    BY <1>0, <1>1, RxKinds
  <2>2. ~Older(j, b) /\ ~Older(b, j)
    BY <1>1, <2>1 DEF RxInv, Sorted
  <2> QED BY <1>0, <2>2, Ages DEF Older
<1>2. CASE Starts(i)
  BY <1>1, <1>2
<1>3. CASE ~Starts(i)
  <2>1. rxRing[i].kind = "time"
    BY <1>0, <1>3, RxKinds
  <2> DEFINE p == PrevRx(i)
  <2>2. p \in RxIdx /\ NextRx(p) = i
    BY Indices, Neighbours
  <2>3. rxRing[p].kind = "stamped" /\ rxRing[p].frame = rxRing[i].frame
    BY <2>1, <2>2 DEF RxInv, Paired
  <2>4. p = b
    BY <1>1, <2>2, <2>3 DEF Starts
  <2> QED BY <2>2, <2>3, <2>4
<1> QED BY <1>2, <1>3

LEMMA RxReadKeeps ==
  ASSUME RxInv, Shape', RxRead
  PROVE  RxInv'
<1> DEFINE b == bd
           g == rxRing[b].frame
           F == FrameAtBd
           time == IF rxRing[b].kind = "stamped" THEN rxRing[NextRx(b)].frame ELSE 0
<1>0. /\ Shape /\ isr = "read" /\ isr' = "read" /\ Used(b) /\ StepBd
      /\ delivered' = Append(delivered, <<g, time>>)
      /\ rxRing' = [i \in RxIdx |-> IF i \in F THEN FreeRx ELSE rxRing[i]]
      /\ UNCHANGED <<dmaRx, frames, kept, behind>>
      /\ ahead' = (ahead \/ dmaRx \in F)
  BY DEF RxInv, RxRead, StepBd, dma, counts
<1>1. /\ dmaRx \in RxIdx /\ b \in RxIdx /\ NextRx(b) \in RxIdx /\ frames \in Nat
      /\ \A i \in RxIdx : rxRing[i].frame \in Nat
  <2>1. frames \in Nat
    BY <1>0, EthAssumption DEF Shape, TypeOK
  <2> QED BY <1>0, <2>1, RxKinds
<1>2. /\ F \subseteq RxIdx /\ b \in F /\ bd' \in RxIdx /\ rxRing[bd'].kind # "time"
      /\ F = IF rxRing[b].kind = "stamped" THEN {b, NextRx(b)} ELSE {b}
      /\ \A i \in F : i = b \/ (rxRing[b].kind = "stamped" /\ i = NextRx(b) /\ ~Starts(i))
  BY <1>0, Passed DEF FrameAtBd
<1>3. /\ \A i \in RxIdx : i \notin F => rxRing'[i] = rxRing[i]
      /\ \A i \in F : rxRing'[i].kind = "free"
  BY <1>0, <1>2 DEF FreeRx
<1>4. /\ \A i \in RxIdx : (Used(i)' <=> Used(i) /\ i \notin F) /\ (Starts(i)' <=> Starts(i) /\ i # b)
      /\ \A i, j : Older(i, j)' = Older(i, j)
  <2>1. \A i, j : Older(i, j)' = Older(i, j)
    BY <1>0 DEF Older, Before
  <2>2. \A i \in RxIdx : Used(i)' <=> Used(i) /\ i \notin F
    BY <1>3 DEF Used
  <2>3. \A i \in RxIdx : Starts(i)' <=> Starts(i) /\ i \notin F
    BY <1>3 DEF Starts
  <2>4. \A i \in RxIdx : Starts(i) /\ i \notin F <=> Starts(i) /\ i # b
    BY <1>2
  <2> QED BY <2>1, <2>2, <2>3, <2>4
<1>5. /\ rxRing[b].kind = "time" => g \in behind
      /\ Starts(b) \/ rxRing[b].kind = "time"
      /\ InBlock \/ Past
  BY <1>0, <1>1, RxKinds DEF RxInv, Reading
<1> HIDE DEF F
<1>6. Paired'
  <2> SUFFICES ASSUME NEW i \in RxIdx
               PROVE  /\ rxRing'[NextRx(i)].kind = "time" =>
                           rxRing'[i].kind = "stamped" /\ rxRing'[i].frame = rxRing'[NextRx(i)].frame
                      /\ rxRing'[i].kind = "stamped" =>
                           /\ NextRx(i) # dmaRx /\ NextRx(i) # i
                           /\ \/ rxRing'[NextRx(i)].kind = "time"
                              \/ rxRing'[NextRx(i)].kind = "free" /\ rxRing'[i].frame \in behind
    BY <1>0 DEF Paired, Used
  <2>0. NextRx(i) \in RxIdx
    BY Indices
  <2>1. /\ rxRing[NextRx(i)].kind = "time" =>
             rxRing[i].kind = "stamped" /\ rxRing[i].frame = rxRing[NextRx(i)].frame
        /\ rxRing[i].kind = "stamped" =>
             /\ NextRx(i) # dmaRx /\ NextRx(i) # i
             /\ \/ rxRing[NextRx(i)].kind = "time"
                \/ rxRing[NextRx(i)].kind = "free" /\ rxRing[i].frame \in behind
    BY DEF RxInv, Paired, Used
  <2>2. ASSUME rxRing'[NextRx(i)].kind = "time"
        PROVE  rxRing'[i].kind = "stamped" /\ rxRing'[i].frame = rxRing'[NextRx(i)].frame
    <3>1. NextRx(i) \notin F /\ rxRing'[NextRx(i)] = rxRing[NextRx(i)]
      BY <1>3, <2>0, <2>2
    <3>2. rxRing[i].kind = "stamped" /\ rxRing[i].frame = rxRing[NextRx(i)].frame
      BY <2>1, <2>2, <3>1
    <3>3. i \notin F
      <4>1. i # b
        BY <1>2, <3>1, <3>2
      <4> QED BY <1>2, <3>2, <4>1 DEF Starts
    <3> QED BY <1>3, <3>1, <3>2, <3>3
  <2>3. ASSUME rxRing'[i].kind = "stamped"
        PROVE  /\ NextRx(i) # dmaRx /\ NextRx(i) # i
               /\ \/ rxRing'[NextRx(i)].kind = "time"
                  \/ rxRing'[NextRx(i)].kind = "free" /\ rxRing'[i].frame \in behind
    <3>1. i \notin F /\ rxRing'[i] = rxRing[i] /\ rxRing[i].kind = "stamped"
      BY <1>3, <2>3
    <3>2. CASE NextRx(i) \notin F
      BY <1>3, <2>0, <2>1, <3>1, <3>2
    <3>3. CASE NextRx(i) \in F
      <4>1. NextRx(i) = b
        <5>1. i # b
          BY <1>2, <3>1
        <5>2. NextRx(i) # NextRx(b)
          BY <1>1, <5>1, Neighbours
        <5> QED BY <1>2, <3>3, <5>2
      <4>2. rxRing[b].kind = "time"
        BY <1>0, <2>1, <3>1, <4>1 DEF Used
      <4>3. rxRing[i].frame \in behind
        BY <1>5, <2>1, <4>1, <4>2
      <4> QED BY <1>3, <2>1, <3>1, <3>3, <4>3
    <3> QED BY <3>2, <3>3
  <2> QED BY <2>2, <2>3
<1>7. Sorted'
  <2> SUFFICES ASSUME NEW i \in RxIdx, NEW j \in RxIdx, Starts(i)', Starts(j)', Older(i, j)
               PROVE  rxRing'[i].frame < rxRing'[j].frame
    BY <1>4 DEF Sorted
  <2>1. Starts(i) /\ Starts(j) /\ i \notin F /\ j \notin F
    BY <1>2, <1>4
  <2> QED BY <1>3, <2>1 DEF RxInv, Sorted
<1>8. /\ delivered \in Seq(Nat \X Nat) /\ delivered' \in Seq(Nat \X Nat) /\ Len(delivered) \in Nat
      /\ Len(delivered') = Len(delivered) + 1 /\ delivered'[Len(delivered) + 1] = <<g, time>>
      /\ \A k \in 1 .. Len(delivered) : delivered'[k] = delivered[k]
  <2>1. <<g, time>> \in Nat \X Nat
    BY <1>1
  <2>2. delivered \in Seq(Nat \X Nat)
    BY DEF RxInv, Accounted
  <2> HIDE DEF g, time
  <2> QED BY <1>0, <2>1, <2>2, AppendProperties
<1>9. HandedOn' = HandedOn \cup {g} /\ HandedOn = {delivered[k][1] : k \in 1 .. Len(delivered)}
  <2> DEFINE n == Len(delivered)
  <2>1. DOMAIN delivered = 1 .. n /\ DOMAIN delivered' = 1 .. n + 1
    BY <1>8
  <2>2. 1 .. n + 1 = (1 .. n) \cup {n + 1}
    BY <1>8
  <2>3. delivered'[n + 1][1] = g
    BY <1>8
  <2>4. \A k \in 1 .. n : delivered'[k] = delivered[k]
    BY <1>8
  <2> HIDE DEF n, g
  <2>5. HandedOn' = {delivered'[k][1] : k \in (1 .. n) \cup {n + 1}}
    BY <2>1, <2>2 DEF HandedOn
  <2>6. HandedOn = {delivered[k][1] : k \in 1 .. n}
    BY <2>1 DEF HandedOn
  <2>7. HandedOn' = HandedOn \cup {g}
    BY <2>3, <2>4, <2>5, <2>6
  <2> QED BY <2>6, <2>7 DEF n
<1>10. Accounted'
  <2>1. HandedOn \subseteq 1 .. frames /\ g \in 1 .. frames
    BY <1>0, <1>1 DEF RxInv, Accounted
  <2>2. ASSUME NEW i \in RxIdx, Used(i)'
        PROVE  /\ rxRing'[i].frame \in 1 .. frames
               /\ rxRing'[i].frame \in behind \/ rxRing'[i].frame \notin HandedOn \cup {g}
    <3>1. Used(i) /\ i \notin F /\ rxRing'[i] = rxRing[i]
      BY <1>3, <1>4, <2>2
    <3>2. /\ rxRing[i].frame \in 1 .. frames
          /\ rxRing[i].frame \in behind \/ rxRing[i].frame \notin HandedOn
      BY <3>1 DEF RxInv, Accounted
    <3>3. rxRing[i].frame = g => g \in behind
      BY <1>1, <1>2, <1>5, <3>1, OneFrame
    <3> QED BY <3>1, <3>2, <3>3
  <2>3. ASSUME NEW f \in 1 .. frames, f \notin HandedOn \cup {g}
        PROVE  \E i \in RxIdx : Starts(i)' /\ rxRing'[i].frame = f
    <3>1. PICK i \in RxIdx : Starts(i) /\ rxRing[i].frame = f
      BY <2>3 DEF RxInv, Accounted
    <3>2. i # b /\ i \notin F
      BY <1>2, <2>3, <3>1
    <3> QED BY <1>3, <1>4, <3>1, <3>2
  <2> QED BY <1>0, <1>8, <1>9, <2>1, <2>2, <2>3 DEF Accounted
<1>11. Reading'
  <2>1. \A j \in RxIdx : Starts(j)' /\ Waived(j) => Waived(j)'
    BY <1>0, <1>2, <1>3, <1>4 DEF Waived
  <2>2. rxRing'[bd'].kind # "time"
    BY <1>2, <1>3
  <2>3. CASE InBlock
    <3>1. CASE bd' = dmaRx /\ \A j \in RxIdx : Starts(j) => j = bd \/ Older(j, bd)
      <4>1. \A j \in RxIdx : Starts(j)' => Waived(j)'
        BY <1>4, <2>1, <2>3, <3>1 DEF InBlock
      <4>2. Past'
        BY <1>0, <3>1, <4>1 DEF Past
      <4> QED BY <2>2, <4>2 DEF Reading
    <3>2. CASE /\ \A k \in RxIdx : ~Older(k, bd') => ~Older(k, bd) /\ k \notin FrameAtBd
               /\ \A j \in RxIdx : Older(j, bd') /\ Starts(j) => j = bd \/ Older(j, bd)
      <4>1. \A k \in RxIdx : Older(k, bd') \/ Used(k)'
        BY <1>4, <2>3, <3>2 DEF InBlock, F
      <4>2. \A j \in RxIdx : Starts(j)' /\ Older(j, bd') => Waived(j)'
        BY <1>4, <2>1, <2>3, <3>2 DEF InBlock
      <4>3. InBlock'
        BY <1>0, <4>1, <4>2 DEF InBlock, Older
      <4> QED BY <2>2, <4>3 DEF Reading
    <3> QED BY <1>0, <2>3, <3>1, <3>2, Passed
  <2>4. CASE Past
    <3>1. \A j \in RxIdx : Starts(j)' => Waived(j)'
      BY <1>4, <2>1, <2>4 DEF Past
    <3>2. ahead'
      BY <1>0, <1>2, <2>4 DEF Past
    <3>3. Past'
      BY <3>1, <3>2 DEF Past
    <3> QED BY <2>2, <3>3 DEF Reading
  <2> QED BY <1>5, <2>3, <2>4
<1>12. Newest'
  BY <1>0 DEF Newest
\* The frame is handed on for the first time, with its own time, and older ones are not missing.
<1>13. ASSUME g \notin behind
       PROVE  /\ g \notin HandedOn /\ time \in {0, g}
              /\ \A f \in 1 .. g - 1 : f \in HandedOn \cup kept \cup behind
  <2>1. Starts(b) /\ g \in 1 .. frames /\ g \notin HandedOn
    BY <1>0, <1>1, <1>5, <1>13 DEF RxInv, Accounted
  <2>2. time \in {0, g}
    <3>1. CASE rxRing[b].kind = "stamped"
      <4>1. rxRing[NextRx(b)].kind = "time"
        BY <1>1, <1>13, <3>1 DEF RxInv, Paired
      <4> QED BY <1>1, <3>1, <4>1 DEF RxInv, Paired
    <3>2. CASE rxRing[b].kind # "stamped"
      BY <3>2
    <3> QED BY <3>1, <3>2
  <2>3. ASSUME NEW f \in 1 .. g - 1, f \notin HandedOn PROVE f \in kept \cup behind
    <3>1. f \in 1 .. frames /\ f < g /\ g \in Nat
      BY <1>1, <2>1
    <3>2. PICK i \in RxIdx : Starts(i) /\ rxRing[i].frame = f
      BY <2>3, <3>1 DEF RxInv, Accounted
    <3> HIDE DEF g
    <3>3. ~(g < f) /\ f # g
      BY <3>1
    <3>4. ~Older(b, i) /\ i # b
      BY <1>1, <2>1, <3>2, <3>3 DEF RxInv, Sorted, g
    <3>5. Older(i, b)
      BY <1>1, <3>4, Ages DEF Older
    <3>6. Waived(i)
      BY <1>5, <3>2, <3>5 DEF InBlock, Past
    <3> QED BY <3>2, <3>6 DEF Waived
  <2> QED BY <2>1, <2>2, <2>3
<1>14. FramesInOrder'
  <2> DEFINE n == Len(delivered)
             Earlier(s, k) == {s[j][1] : j \in 1 .. k - 1}
             Right(s, k) == s[k][1] \notin behind =>
                /\ s[k][1] \notin Earlier(s, k)
                /\ \A f \in 1 .. s[k][1] - 1 : f \in Earlier(s, k) \cup kept \cup behind
                /\ s[k][2] \in {0, s[k][1]}
  <2>1. ASSUME NEW k \in 1 .. n PROVE Right(delivered, k)
    <3> SUFFICES ASSUME delivered[k][1] \notin behind
                 PROVE  /\ delivered[k][1] \notin Earlier(delivered, k)
                        /\ \A f \in 1 .. delivered[k][1] - 1 : f \in Earlier(delivered, k) \cup kept \cup behind
                        /\ delivered[k][2] \in {0, delivered[k][1]}
      OBVIOUS
    <3>1. k \in {j \in DOMAIN delivered : delivered[j][1] \notin behind}
      BY <1>8
    <3> QED BY <3>1, Zenon DEF RxInv, FramesInOrder
  <2>2. \A k \in 1 .. n + 1 : Earlier(delivered', k) = Earlier(delivered, k)
    <3> SUFFICES ASSUME NEW k \in 1 .. n + 1 PROVE Earlier(delivered', k) = Earlier(delivered, k)
      OBVIOUS
    <3>1. \A j \in 1 .. k - 1 : delivered'[j] = delivered[j]
      BY <1>8
    <3> QED BY <3>1
  <2>3. ASSUME NEW k \in 1 .. n PROVE Right(delivered', k)
    <3>1. delivered'[k] = delivered[k] /\ k \in 1 .. n + 1
      BY <1>8
    <3>2. Earlier(delivered', k) = Earlier(delivered, k)
      BY <2>2, <3>1, Zenon
    <3>3. Right(delivered, k)
      BY <2>1, Zenon
    <3> HIDE DEF Earlier
    <3> QED BY <3>1, <3>2, <3>3
  <2>4. Right(delivered', n + 1)
    <3>1. Earlier(delivered', n + 1) = HandedOn
      <4>1. (n + 1) - 1 = n /\ n + 1 \in 1 .. n + 1
        BY <1>8
      <4>2. Earlier(delivered', n + 1) = Earlier(delivered, n + 1)
        BY <2>2, <4>1, Zenon
      <4>3. Earlier(delivered, n + 1) = {delivered[j][1] : j \in 1 .. n}
        BY <4>1
      <4> QED BY <1>9, <4>2, <4>3
    <3>2. delivered'[n + 1][1] = g /\ delivered'[n + 1][2] = time
      BY <1>8
    <3> HIDE DEF Earlier, g, time
    <3> QED BY <1>13, <3>1, <3>2
  <2>5. \A k \in 1 .. n + 1 : Right(delivered', k)
    <3>1. \A k \in 1 .. n + 1 : k \in 1 .. n \/ k = n + 1
      BY <1>8
    <3> HIDE DEF Right
    <3> QED BY <2>3, <2>4, <3>1
  <2>6. DOMAIN delivered' = 1 .. n + 1
    BY <1>8
  <2> QED BY <1>0, <2>5, <2>6 DEF FramesInOrder
<1> QED BY <1>6, <1>7, <1>10, <1>11, <1>12, <1>14 DEF RxInv

LEMMA RxStep ==
  ASSUME RxInv, [Next]_vars
  PROVE  RxInv'
<1>0. Shape'
  BY ShapeStep DEF RxInv
<1>1. CASE TransmitStart \/ ThreadStep \/ DmaSend
  <2>1. UNCHANGED <<rxRing, dmaRx, bd, frames, delivered, kept, ahead, behind, isr>>
    BY <1>1 DEF TransmitStart, ThreadStep, TransmitErase, TransmitFill, TransmitPass, DmaSend,
                dma, handler, counts, seen
  <2> QED BY <1>0, <2>1, RxKept
<1>2. CASE IsrEnter \/ IsrAck \/ IsrEnd \/ TxScan
  <2>1. UNCHANGED <<rxRing, dmaRx, bd, frames, delivered, kept, ahead, behind>>
    BY <1>2 DEF IsrEnter, IsrAck, IsrEnd, TxScan, dma, counts, seen
  <2>2. isr # "read" /\ isr' # "read"
    BY <1>2 DEF IsrEnter, IsrAck, IsrEnd, TxScan
  <2> QED BY <1>0, <2>1, <2>2, RxKept
<1>3. CASE UNCHANGED vars
  <2>1. UNCHANGED <<rxRing, dmaRx, bd, frames, delivered, kept, ahead, behind, isr>>
    BY <1>3 DEF vars, dma, handler, counts, seen
  <2> QED BY <1>0, <2>1, RxKept
<1>4. CASE \E stamped \in BOOLEAN : DmaReceive(stamped)
  BY <1>0, <1>4, RxReceive
<1>5. CASE RxFind \/ RxRead \/ RxKeep \/ RxDone
  BY <1>0, <1>5, RxFindKeeps, RxReadKeeps, RxKeepKeeps, RxDoneKeeps
<1> QED BY <1>1, <1>2, <1>3, <1>4, <1>5 DEF Next, IsrStep

\* For a ring of any length, frames without end, with and without a time, buffers that
\* fail and a DMA that may fill the last descriptor: the handler hands each frame on
\* once, with its own time or none, and none before an older one, but for those that
\* had to stay and those that came behind its back (mac_drv.c:354-392).
THEOREM HandsOnInOrder == Spec => []FramesInOrder
<1>1. RxInv /\ [Next]_vars => RxInv'
  BY RxStep
<1>2. RxInv => FramesInOrder
  BY DEF RxInv
<1> QED BY RxInitially, <1>1, <1>2, PTL DEF Spec
=============================================================================
