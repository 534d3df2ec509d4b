-------------------------------- MODULE EthMac --------------------------------
(***************************************************************************)
(* The Ethernet driver of the M4 core (mac_drv.c): a ring of transmit      *)
(* descriptors filled by the network thread, a ring of receive descriptors *)
(* filled by the DMA, and one interrupt handler for both. A packet sent    *)
(* with a timestamp callback gets its transmission time written back into  *)
(* its descriptor; the handler finds it there and calls back. A received   *)
(* frame takes one descriptor, a time-stamped one two.                     *)
(*                                                                         *)
(* The flags RI and TI are cleared by writing 1, and the handler does so   *)
(* by a read-modify-write of the register: every flag that is set is       *)
(* cleared. The interrupt preempts the thread; the DMA runs beside both.   *)
(***************************************************************************)
EXTENDS Integers, Sequences, FiniteSets

CONSTANTS
  TxLen, RxLen,  \* descriptors in the two rings (at most 16, 24)
  CntMod,        \* values of txCntr (uint16_t: 2^16)
  MaxPackets,    \* bound: packets sent
  MaxFrames,     \* bound: frames received
  MaxTraffic     \* bound: packets and frames, when the next is sent or received

ASSUME EthAssumption ==
  /\ TxLen \in Nat \ {0} /\ RxLen \in Nat \ {0} /\ CntMod \in Nat \ {0}
  /\ MaxPackets \in Nat /\ MaxFrames \in Nat /\ MaxTraffic \in Nat

VARIABLES
  txRing,            \* transmit descriptors with their extension
  nextTxDescIdx, txCntSent, txCntAcked,  \* ETHHW_State
  thread, withTime,  \* ETHHW_Transmit: where it is, and its txOpts
  rxRing,            \* receive descriptors
  dmaTx, dmaRx,      \* the DMA's current descriptors
  ri, ti,            \* DMACSR
  isr, csr,          \* ETHHW_ISR: where it is, what it read
  bd,                \* ETHHW_ProcessRx: the descriptor it is at
  starved,           \* and the frames the pool had no buffer for since it was called
  left, minIdx,      \* ETHHW_ProcessTx: descsWithTimestamp and minIdx
  sent, frames,      \* history: packets sent, frames received
  reported, delivered, \* history: callbacks <<tag, time>>, frames <<frame, time>>
  missed, erased,    \* history: times whose TI was cleared unseen; times overwritten
  kept,              \* history: frames for which there was no buffer
  ahead, behind      \* history: the handler is past the DMA's descriptor; frames that came then

state   == <<nextTxDescIdx, txCntSent, txCntAcked>>
caller  == <<thread, withTime>>
dma     == <<dmaTx, dmaRx>>
status  == <<ri, ti>>
handler == <<isr, csr, bd, starved, left, minIdx>>
counts  == <<sent, frames>>
seen    == <<reported, delivered, missed, erased, kept, ahead, behind>>
vars == <<txRing, state, caller, rxRing, dma, status, handler, counts, seen>>

TxIdx == 0 .. TxLen - 1
RxIdx == 0 .. RxLen - 1

NextTx(i) == (i + 1) % TxLen

NextRx(i) == (i + 1) % RxLen
PrevRx(i) == (i - 1) % RxLen

\* A packet is named by its number, which is its timestamp callback's tag and
\* its transmission time too; 0 is none.
EmptyTx == [own |-> FALSE, ttse |-> FALSE, ioc |-> FALSE, packet |-> 0, time |-> 0, tag |-> 0,
            txCntr |-> 0]
FreeRx  == [kind |-> "free", frame |-> 0]

Init ==
  /\ txRing = [i \in TxIdx |-> EmptyTx] /\ rxRing = [i \in RxIdx |-> FreeRx]
  /\ nextTxDescIdx = 0 /\ txCntSent = 0 /\ txCntAcked = 0
  /\ thread = "idle" /\ withTime = FALSE
  /\ dmaTx = 0 /\ dmaRx = 0
  /\ ri = FALSE /\ ti = FALSE
  /\ isr = "idle" /\ csr = "none" /\ bd = 0 /\ starved = {} /\ left = 0 /\ minIdx = 0
  /\ sent = 0 /\ frames = 0
  /\ reported = <<>> /\ delivered = <<>> /\ missed = {} /\ erased = {} /\ kept = {}
  /\ ahead = FALSE /\ behind = {}

-----------------------------------------------------------------------------
(* ETHHW_Transmit, in the network thread. *)

Preempted == isr # "idle" \/ ri \/ ti

TransmitStart ==
  /\ thread = "idle" /\ ~Preempted
  /\ sent < MaxPackets /\ sent + frames < MaxTraffic
  /\ thread' = "wait" /\ withTime' \in BOOLEAN
  /\ UNCHANGED <<txRing, state, rxRing, dma, status, handler, counts, seen>>

(* It waits until the DMA has released the descriptor and clears it, not its *)
(* extension.                                                                *)
TransmitErase ==
  /\ thread = "wait" /\ ~Preempted
  /\ ~txRing[nextTxDescIdx].own
  /\ txRing' = [txRing EXCEPT ![nextTxDescIdx] =
                  [@ EXCEPT !.ttse = FALSE, !.ioc = FALSE, !.packet = 0, !.time = 0]]
  /\ erased' = erased \cup ({txRing[nextTxDescIdx].time} \ {0})
  /\ thread' = "fill"
  /\ UNCHANGED <<state, withTime, rxRing, dma, status, handler, counts,
                 reported, delivered, missed, kept, ahead, behind>>

TransmitFill ==
  /\ thread = "fill" /\ ~Preempted
  /\ txCntSent' = (txCntSent + 1) % CntMod
  /\ sent' = sent + 1
  /\ txRing' = [txRing EXCEPT ![nextTxDescIdx] =
                  [@ EXCEPT !.tag = IF withTime THEN sent' ELSE txRing[nextTxDescIdx].tag,
                            !.txCntr = txCntSent']]
  /\ thread' = "pass"
  /\ UNCHANGED <<nextTxDescIdx, txCntAcked, withTime, rxRing, dma, status, handler, frames, seen>>

\* Mutant: a packet with a callback does not interrupt.
TransmitPassNoIoc ==
  /\ thread = "pass" /\ ~Preempted
  /\ txRing' = [txRing EXCEPT ![nextTxDescIdx] =
                  [@ EXCEPT !.own = TRUE, !.ttse = withTime, !.packet = sent]]
  /\ nextTxDescIdx' = NextTx(nextTxDescIdx)
  /\ thread' = "idle"
  /\ UNCHANGED <<txCntSent, txCntAcked, withTime, rxRing, dma, status, handler, counts, seen>>

(* The bits of the timestamp option include interrupt on completion. *)
TransmitPass ==
  /\ thread = "pass" /\ ~Preempted
  /\ txRing' = [txRing EXCEPT ![nextTxDescIdx] =
       [@ EXCEPT !.own = TRUE, !.ttse = withTime, !.ioc = withTime, !.packet = sent]]
  /\ nextTxDescIdx' = NextTx(nextTxDescIdx)
  /\ thread' = "idle"
  /\ UNCHANGED <<txCntSent, txCntAcked, withTime, rxRing, dma, status, handler, counts, seen>>

-----------------------------------------------------------------------------
(* The DMA (the tail pointers never stop it). *)

DmaSend ==
  LET d == txRing[dmaTx] IN
  /\ d.own
  /\ txRing' = [txRing EXCEPT ![dmaTx] =
                  [@ EXCEPT !.own = FALSE, !.time = IF d.ttse THEN d.packet ELSE 0]]
  /\ ti' = (ti \/ d.ioc)
  /\ dmaTx' = NextTx(dmaTx)
  /\ UNCHANGED <<state, caller, rxRing, dmaRx, ri, handler, counts, seen>>

\* The descriptors the next frame takes, if it is time-stamped or not.
Taken(stamped) == IF stamped THEN {dmaRx, NextRx(dmaRx)} ELSE {dmaRx}

DmaReceive(stamped) ==
  /\ frames < MaxFrames /\ sent + frames < MaxTraffic
  /\ Cardinality(Taken(stamped)) = IF stamped THEN 2 ELSE 1
  /\ \A i \in Taken(stamped) : rxRing[i].kind = "free"
  /\ frames' = frames + 1
  /\ rxRing' = [i \in RxIdx |->
       IF i = dmaRx THEN [kind |-> IF stamped THEN "stamped" ELSE "plain", frame |-> frames']
       ELSE IF i \in Taken(stamped) THEN [kind |-> "time", frame |-> frames']
       ELSE rxRing[i]]
  /\ dmaRx' = IF stamped THEN NextRx(NextRx(dmaRx)) ELSE NextRx(dmaRx)
  /\ ri' = TRUE
  /\ behind' = IF ahead THEN behind \cup {frames'} ELSE behind
  /\ UNCHANGED <<txRing, state, caller, dmaTx, ti, handler, sent,
                 reported, delivered, missed, erased, kept, ahead>>

-----------------------------------------------------------------------------
(* ETHHW_ISR. *)

\* Descriptors that hold a time.
Timed == {i \in TxIdx : txRing[i].time # 0 /\ ~txRing[i].own}

IsrEnter ==
  /\ isr = "idle" /\ (ri \/ ti)
  /\ csr' = IF ri THEN "receive" ELSE "transmit"
  /\ isr' = "ack"
  /\ UNCHANGED <<txRing, state, caller, rxRing, dma, status, bd, starved, left, minIdx, counts, seen>>

(* The flag is acknowledged, and with it whatever else is set. *)
IsrAck ==
  /\ isr = "ack"
  /\ ri' = FALSE /\ ti' = FALSE
  /\ IF csr = "receive"
     THEN isr' = "find" /\ missed' = missed \cup {txRing[i].time : i \in Timed}
     ELSE isr' = "scan" /\ UNCHANGED missed
  /\ left' = 0 /\ minIdx' = 0
  /\ UNCHANGED <<txRing, state, caller, rxRing, dma, csr, bd, starved, counts, reported, delivered, erased, kept, ahead, behind>>

(* NIS is acknowledged, and with it whatever is set by now. *)
IsrEnd ==
  /\ isr = "end"
  /\ ri' = FALSE /\ ti' = FALSE
  /\ missed' = missed \cup {txRing[i].time : i \in Timed}
  /\ isr' = "idle" /\ csr' = "none"
  /\ UNCHANGED <<txRing, state, caller, rxRing, dma, bd, starved, left, minIdx, counts,
                 reported, delivered, erased, kept, ahead, behind>>

-----------------------------------------------------------------------------
(* ETHHW_ProcessRx. *)

Used(i) == rxRing[i].kind # "free"

\* Mutant: it looks back one descriptor only.
RxFindNewest ==
  /\ isr = "find"
  /\ bd' = IF Used(PrevRx(dmaRx)) THEN PrevRx(dmaRx) ELSE dmaRx
  /\ isr' = "read"
  /\ UNCHANGED <<txRing, state, caller, rxRing, dma, status, csr, starved, left, minIdx, counts, seen>>

(* It walks back from the DMA's descriptor to the oldest used one; while none *)
(* is free it goes round the ring and never arrives.                          *)
RxFind ==
  /\ isr = "find"
  /\ \E n \in 0 .. RxLen - 1 :
       /\ bd' = (dmaRx - n) % RxLen
       /\ ~Used(PrevRx(bd'))
       /\ \A k \in 1 .. n : Used((dmaRx - k) % RxLen)
  /\ isr' = "read"
  /\ UNCHANGED <<txRing, state, caller, rxRing, dma, status, csr, starved, left, minIdx, counts, seen>>

\* The frame at bd, with its context descriptor.
FrameAtBd == IF rxRing[bd].kind = "stamped" THEN {bd, NextRx(bd)} ELSE {bd}

StepBd ==
  /\ bd' = IF rxRing[bd].kind = "stamped" THEN NextRx(NextRx(bd)) ELSE NextRx(bd)
  /\ ahead' = (ahead \/ dmaRx \in FrameAtBd)

(* The frame is copied and its descriptors are given back to the DMA. *)
RxRead ==
  LET time == IF rxRing[bd].kind = "stamped" THEN rxRing[NextRx(bd)].frame ELSE 0 IN
  /\ isr = "read" /\ Used(bd) /\ rxRing[bd].frame \notin starved
  /\ delivered' = Append(delivered, <<rxRing[bd].frame, time>>)
  /\ rxRing' = [i \in RxIdx |-> IF i \in FrameAtBd THEN FreeRx ELSE rxRing[i]]
  /\ StepBd
  /\ UNCHANGED <<txRing, state, caller, dma, status, isr, csr, starved, left, minIdx, counts,
                 reported, missed, erased, kept, behind>>

(* No buffer: the frame stays in its descriptors, and the next one is looked at. *)
(* Buffers come back from the network thread only, which the handler preempts.   *)
RxKeep ==
  /\ isr = "read" /\ Used(bd)
  /\ starved' = starved \cup {rxRing[bd].frame}
  /\ kept' = kept \cup {rxRing[bd].frame}
  /\ StepBd
  /\ UNCHANGED <<txRing, state, caller, rxRing, dma, status, isr, csr, left, minIdx, counts,
                 reported, delivered, missed, erased, behind>>

RxDone ==
  /\ isr = "read" /\ ~Used(bd)
  /\ isr' = "end"
  /\ ahead' = FALSE /\ starved' = {}
  /\ UNCHANGED <<txRing, state, caller, rxRing, dma, status, csr, bd, left, minIdx, counts,
                 reported, delivered, missed, erased, kept, behind>>

-----------------------------------------------------------------------------
(* ETHHW_ProcessTx. *)

Delta(i) == txRing[i].txCntr - txCntAcked

\* The search for the oldest descriptor with a time: what it has after the first
\* i descriptors. A distance of 1 is taken at once, but the search goes on.
Searched[i \in 0 .. TxLen] ==
  IF i = 0 THEN TxLen
  ELSE LET m == Searched[i - 1] IN
       IF i - 1 \notin Timed THEN m
       ELSE IF m = TxLen \/ Delta(i - 1) = 1 \/ Delta(i - 1) < Delta(m) THEN i - 1
       ELSE m

\* Mutant: the first descriptor with a time, old or not.
OldestFirstFound == CHOOSE i \in Timed : \A j \in Timed : i <= j

Oldest == Searched[TxLen]

\* Mutant: a callback is not counted off.
TurnsLeftAll(found) == found

\* descsWithTimestamp after a turn that began or arrived at found.
TurnsLeft(found) == IF found = 0 THEN 0 ELSE found - 1

(* One turn of the loop: descsWithTimestamp is not reset between the turns,  *)
(* so it counts some descriptors again, and the last turns find nothing and  *)
(* clear the descriptor of the turn before once more.                        *)
TxScan ==
  LET found == left + Cardinality(Timed)
      m == IF Timed = {} THEN minIdx ELSE Oldest
  IN
  /\ isr = "scan"
  /\ minIdx' = m
  /\ IF found = 0
     THEN UNCHANGED <<txRing, txCntAcked, reported>>
     ELSE /\ reported' = IF txRing[m].tag = 0 THEN reported
                         ELSE Append(reported, <<txRing[m].tag, txRing[m].time>>)
          /\ txRing' = [txRing EXCEPT ![m] =
               [@ EXCEPT !.own = FALSE, !.ttse = FALSE, !.ioc = FALSE,
                         !.packet = 0, !.time = 0, !.tag = 0]]
          /\ txCntAcked' = txRing[m].txCntr
  /\ left' = TurnsLeft(found)
  /\ isr' = IF left' = 0 THEN "end" ELSE "scan"
  /\ UNCHANGED <<nextTxDescIdx, txCntSent, caller, rxRing, dma, status, csr, bd, starved, counts,
                 delivered, missed, erased, kept, ahead, behind>>

-----------------------------------------------------------------------------
ThreadStep == TransmitErase \/ TransmitFill \/ TransmitPass
IsrStep == IsrEnter \/ IsrAck \/ IsrEnd \/ RxFind \/ RxRead \/ RxKeep \/ RxDone \/ TxScan

Next ==
  \/ TransmitStart \/ ThreadStep
  \/ DmaSend \/ (\E stamped \in BOOLEAN : DmaReceive(stamped))
  \/ IsrStep

(* The thread, the interrupt and the transmitter go on; nobody need send. *)
Spec == Init /\ [][Next]_vars /\ WF_vars(ThreadStep) /\ WF_vars(DmaSend) /\ WF_vars(IsrStep)

-----------------------------------------------------------------------------
(* Properties. *)

\* Type invariant.
TypeOK ==
  /\ txRing \in [TxIdx -> [own : BOOLEAN, ttse : BOOLEAN, ioc : BOOLEAN, packet : 0 .. MaxPackets,
                           time : 0 .. MaxPackets, tag : 0 .. MaxPackets, txCntr : 0 .. CntMod - 1]]
  /\ rxRing \in [RxIdx -> [kind : {"free", "plain", "stamped", "time"}, frame : 0 .. MaxFrames]]
  /\ nextTxDescIdx \in TxIdx /\ txCntSent \in 0 .. CntMod - 1 /\ txCntAcked \in 0 .. CntMod - 1
  /\ thread \in {"idle", "wait", "fill", "pass"} /\ withTime \in BOOLEAN
  /\ dmaTx \in TxIdx /\ dmaRx \in RxIdx /\ ri \in BOOLEAN /\ ti \in BOOLEAN
  /\ isr \in {"idle", "ack", "find", "read", "scan", "end"}
  /\ csr \in {"none", "receive", "transmit"}
  /\ bd \in RxIdx /\ left \in Nat /\ minIdx \in TxIdx
  /\ sent \in 0 .. MaxPackets /\ frames \in 0 .. MaxFrames
  /\ missed \subseteq 1 .. MaxPackets /\ erased \subseteq 1 .. MaxPackets /\ kept \subseteq 1 .. MaxFrames /\ starved \subseteq kept

\* The types hold, a callback gets the time of its own packet, once, and the packets' times are
\* reported in the order they were sent, whatever the thread is doing to the ring
\* when the interrupt comes (mac_drv.c:404-454).
TimesInOrder ==
  /\ TypeOK
  /\ \A k \in 1 .. Len(reported) :
      /\ reported[k][1] = reported[k][2]
      /\ k > 1 => reported[k][1] > reported[k - 1][1]

\* Transmit erases an unreported time only if its interrupt was cleared unseen:
\* the ring's wrap alone does not lose one (mac_drv.c:499-503).
OnlyMissedIsErased == erased \subseteq missed

\* Frames are handed on once, each with its own time or none, none before an older
\* one that is still in the ring, unless there was no buffer for the older one: also
\* those whose interrupt was cleared unseen come with the next frame, and those that
\* had to stay, from behind or from before the DMA's descriptor. Only frames that come
\* while the handler is past the DMA's descriptor, because it has just taken the frame
\* that the DMA waited in front of, come late, twice or without their time
\* (mac_drv.c:354-392).
FramesInOrder ==
  LET Before(k) == {delivered[j][1] : j \in 1 .. k - 1} IN
  \A k \in {j \in DOMAIN delivered : delivered[j][1] \notin behind} :
    /\ delivered[k][1] \notin Before(k)
    /\ \A f \in 1 .. delivered[k][1] - 1 : f \in Before(k) \cup kept \cup behind
    /\ delivered[k][2] \in {0, delivered[k][1]}

\* ProcessRx goes round a receive ring with no free descriptor, at most one that it takes
\* for the time stamp of the frame before: it still searches for the oldest frame, or has
\* no buffer for any that is there. Only it could free one.
GoesRound ==
  \/ isr = "find" /\ \A i \in RxIdx : Used(i)
  \/ /\ isr = "read"
     /\ \A i \in RxIdx : IF Used(i) THEN rxRing[i].frame \in starved
                                    ELSE rxRing[PrevRx(i)].kind = "stamped"

\* The handler returns, its loops end, unless the receive ring is full when it searches or
\* fills while the pool is empty (mac_drv.c:355, :361): then it goes round for ever.
\* Nothing else keeps it, not the frames that come or stay while it hands others on, and
\* not the turns over the transmit ring (mac_drv.c:408-462).
HandlerReturns == []<>(isr = "idle") \/ <>[]GoesRound
=============================================================================
