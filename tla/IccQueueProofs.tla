--------------------------- MODULE IccQueueProofs ---------------------------
(***************************************************************************)
(* Proofs about IccQueue for a ring of any length, any number of pushes    *)
(* and any count width: with one pushing context and the build that loads  *)
(* writeIdx once, the ring is a bounded first-in, first-out channel.       *)
(***************************************************************************)
EXTENDS IccQueue, TLAPS

\* The remainder of a number that is already small.
LEMMA ModSmall ==
  ASSUME NEW n \in Nat \ {0}, NEW x \in 0 .. n - 1
  PROVE  x % n = x
OBVIOUS

\* MQ_NEXT steps to the next slot, and from the last one to slot 0.
LEMMA NextSlot ==
  ASSUME NEW s \in Slots
  PROVE  /\ MQ_NEXT(s) \in Slots
         /\ MQ_NEXT(s) = IF s + 1 = Length THEN 0 ELSE s + 1
<1>1. CASE s + 1 = Length
  BY <1>1, QueueAssumption DEF MQ_NEXT, Slots
<1>2. CASE s + 1 # Length
  <2>1. s + 1 \in 0 .. Length - 1
    BY <1>2, QueueAssumption DEF Slots
  <2>2. (s + 1) % Length = s + 1
    BY <2>1, QueueAssumption, ModSmall
  <2> QED BY <2>1, <2>2, <1>2 DEF MQ_NEXT, Slots
<1> QED BY <1>1, <1>2

-----------------------------------------------------------------------------
(* The invariants.                                                         *)

\* The drain loop is inside an iteration only while one is left.
LoopCount == popPc \in {"pop", "advance"} => left > 0

\* Elements up to index w, as the consumer would count them.
UsedUpTo(w) == IF w < readIdx THEN w + Length - readIdx ELSE w - readIdx

\* A push under way has room, and its element is the last one accepted.
PushUnderWay(task) ==
  /\ pushPc[task] # "idle" => Used < Length - 1 /\ pushVal[task] = accepted
  /\ pushPc[task] \in {"load", "store"} => elements[writeIdx] = accepted
  /\ pushPc[task] = "store" => pushNext[task] = MQ_NEXT(writeIdx)

\* What the consumer loaded first is not ahead of writeIdx.
LoadBehind == popPc \in {"avail", "advance"} => UsedUpTo(firstLoad) <= Used

\* Holds for both builds: the ring itself is never damaged.
RingInv(task) ==
  /\ TypeOK
  /\ LoopCount
  /\ WaitingIntact
  /\ PushUnderWay(task)
  /\ LoadBehind

\* Every accepted push is delivered, waiting, or being pushed.
CountsAgree == Stored = Len(delivered) + Used

\* The drain loop never runs ahead of what is in the ring.
DrainUnderWay ==
  /\ popPc \in {"loop", "pop", "advance"} => left <= Used
  /\ popPc \in {"pop", "advance"} => taken = Len(delivered) + 1
  /\ popPc = "advance" => UsedUpTo(firstLoad) >= 1

\* Holds with one load of writeIdx: the stream comes out as it went in.
FifoInv ==
  /\ InOrder
  /\ CountsAgree
  /\ DrainUnderWay

-----------------------------------------------------------------------------
\* The count is the plain difference when the second load does not wrap
\* below the first, and zero only if the load it ends with is readIdx.
LEMMA AvailSmall ==
  ASSUME NEW w \in Slots, NEW r \in Slots
  PROVE  AvailExpr(w, w, r) = IF w < r THEN w + Length - r ELSE w - r
<1> DEFINE d == IF w < r THEN w + Length - r ELSE w - r
<1>1. d \in 0 .. CountModulus - 1
  BY QueueAssumption DEF Slots
<1>2. CountModulus \in Nat \ {0}
  BY QueueAssumption
<1>3. d % CountModulus = d
  BY <1>1, <1>2, ModSmall
<1>4. (IF w < r THEN w + Length ELSE w) - r = d
  BY QueueAssumption DEF Slots
<1> QED BY <1>3, <1>4 DEF AvailExpr

LEMMA AvailNat ==
  ASSUME NEW w1 \in Slots, NEW w2 \in Slots, NEW r \in Slots
  PROVE  AvailExpr(w1, w2, r) \in Nat
<1> DEFINE d == (IF w1 < r THEN w2 + Length ELSE w2) - r
<1>1. d \in Int
  BY QueueAssumption DEF Slots
<1>2. CountModulus \in Nat \ {0}
  BY QueueAssumption
<1>3. d % CountModulus \in Nat
  BY <1>1, <1>2
<1> QED BY <1>3 DEF AvailExpr

\* Type correctness, for any pushing contexts and both builds.
THEOREM TypeCorrect == Spec => []TypeOK
<1> DEFINE TInv == TypeOK /\ LoopCount
<1>1. Init => TInv
  BY QueueAssumption DEF Init, TypeOK, LoopCount, Slots
<1>2. TInv /\ [Next]_vars => TInv'
  <2> SUFFICES ASSUME TInv, [Next]_vars PROVE TInv'
    OBVIOUS
  <2>0. 0 \in Slots /\ firstLoad \in Slots /\ writeIdx \in Slots /\ readIdx \in Slots
    BY QueueAssumption DEF TypeOK, Slots
  <2>1. SecondLoad \in Slots
    BY <2>0 DEF SecondLoad
  <2>2. AvailExpr(firstLoad, SecondLoad, readIdx) \in Nat
    BY <2>0, <2>1, AvailNat
  <2>3. MQ_NEXT(writeIdx) \in Slots /\ MQ_NEXT(readIdx) \in Slots
    BY <2>0, NextSlot
  <2>4. ASSUME NEW p \in Pushers, Push(p) PROVE TInv'
    <3>1. CASE PushCheck(p)
      BY <3>1 DEF PushCheck, popVars, TypeOK, LoopCount
    <3>2. CASE PushCopy(p)
      BY <3>2, <2>0 DEF PushCopy, popVars, TypeOK, LoopCount
    <3>3. CASE PushLoad(p)
      BY <3>3, <2>3 DEF PushLoad, popVars, TypeOK, LoopCount
    <3>4. CASE PushStore(p)
      BY <3>4 DEF PushStore, popVars, TypeOK, LoopCount
    <3> QED BY <2>4, <3>1, <3>2, <3>3, <3>4 DEF Push
  <2>5. CASE RecvFirst
    BY <2>5, <2>0 DEF RecvFirst, pushVars, TypeOK, LoopCount
  <2>6. CASE RecvSecond
    BY <2>6, <2>2 DEF RecvSecond, pushVars, TypeOK, LoopCount
  <2>7. CASE RecvDone
    BY <2>7 DEF RecvDone, pushVars, TypeOK, LoopCount
  <2>8. CASE Top
    BY <2>8, <2>0 DEF Top, pushVars, TypeOK, LoopCount
  <2>9. CASE PopFirst
    BY <2>9, <2>0 DEF PopFirst, pushVars, TypeOK, LoopCount
  <2>10. CASE PopSecond
    BY <2>10, <2>0, <2>3 DEF PopSecond, pushVars, TypeOK, LoopCount
  <2>11. CASE UNCHANGED vars
    BY <2>11 DEF vars, pushVars, popVars, TypeOK, LoopCount
  <2> QED BY <2>4, <2>5, <2>6, <2>7, <2>8, <2>9, <2>10, <2>11 DEF Next, Recv
<1> QED BY <1>1, <1>2, PTL DEF Spec

-----------------------------------------------------------------------------
\* Two slots are less than a full turn apart.
LEMMA CountInRing ==
  ASSUME NEW w \in Slots, NEW r \in Slots
  PROVE  (IF w < r THEN w + Length - r ELSE w - r) \in 0 .. Length - 1
BY QueueAssumption DEF Slots

\* How the indices moving changes what lies between them.
LEMMA UsedBounds ==
  ASSUME TypeOK
  PROVE  /\ Used \in 0 .. Length - 1
         /\ \A i \in 0 .. Length - 1 : SlotAt(i) \in Slots
         /\ \A i \in 0 .. Length - 1 : SlotAt(i) = writeIdx => i = Used
         /\ SlotAt(Used) = writeIdx
BY QueueAssumption DEF TypeOK, Used, SlotAt, Slots

\* Storing the next writeIdx adds one element, and room is room.
LEMMA GrowUsed ==
  ASSUME TypeOK, Used < Length - 1, readIdx' = readIdx,
         writeIdx' = MQ_NEXT(writeIdx)
  PROVE  /\ Used' = Used + 1
         /\ \A i \in 0 .. Length - 1 : SlotAt(i)' = SlotAt(i)
<1>1. writeIdx' = IF writeIdx + 1 = Length THEN 0 ELSE writeIdx + 1
  BY NextSlot DEF TypeOK
<1> QED BY <1>1, QueueAssumption DEF TypeOK, Used, SlotAt, Slots

\* Advancing readIdx removes the first one.
LEMMA ShrinkUsed ==
  ASSUME TypeOK, Used > 0, readIdx' = MQ_NEXT(readIdx), writeIdx' = writeIdx
  PROVE  /\ Used' = Used - 1
         /\ \A i \in 0 .. Used - 2 : SlotAt(i)' = SlotAt(i + 1)
<1>1. readIdx' = IF readIdx + 1 = Length THEN 0 ELSE readIdx + 1
  BY NextSlot DEF TypeOK
<1> QED BY <1>1, QueueAssumption DEF TypeOK, Used, SlotAt, Slots

\* The full test of iccq_push sees room exactly when there is some.
LEMMA FullTest ==
  ASSUME TypeOK
  PROVE  MQ_NEXT(writeIdx) # readIdx <=> Used < Length - 1
<1>1. MQ_NEXT(writeIdx) = IF writeIdx + 1 = Length THEN 0 ELSE writeIdx + 1
  BY NextSlot DEF TypeOK
<1> QED BY <1>1, QueueAssumption DEF TypeOK, Used, Slots

\* iccq_pop advances only over an element, whichever loads it makes.
LEMMA PopGuard ==
  ASSUME TypeOK, LoadBehind, popPc = "advance",
         AvailExpr(firstLoad, SecondLoad, readIdx) > 0
  PROVE  Used > 0
<1>1. CASE SingleLoad
  <2>1. AvailExpr(firstLoad, firstLoad, readIdx) = UsedUpTo(firstLoad)
    BY AvailSmall DEF TypeOK, UsedUpTo
  <2>2. UsedUpTo(firstLoad) > 0
    BY <1>1, <2>1 DEF SecondLoad
  <2>3. UsedUpTo(firstLoad) <= Used
    BY DEF LoadBehind
  <2>4. UsedUpTo(firstLoad) \in Int /\ Used \in Int
    BY QueueAssumption DEF UsedUpTo, Used, TypeOK, Slots
  <2> QED BY <2>2, <2>3, <2>4
<1>2. CASE ~SingleLoad
  <2>1. SUFFICES ASSUME Used = 0 PROVE FALSE
    BY UsedBounds
  <2>2. writeIdx = readIdx
    BY <2>1, QueueAssumption DEF TypeOK, Used, Slots
  <2>3. ~(firstLoad < readIdx)
    BY <2>1, QueueAssumption DEF LoadBehind, UsedUpTo, TypeOK, Slots
  <2>4. AvailExpr(firstLoad, writeIdx, readIdx) = 0 % CountModulus
    BY <2>2, <2>3 DEF AvailExpr, TypeOK, Slots
  <2>5. 0 % CountModulus = 0
    BY QueueAssumption, ModSmall
  <2> QED BY <1>2, <2>4, <2>5 DEF SecondLoad
<1> QED BY <1>1, <1>2

-----------------------------------------------------------------------------
\* A push never lands on a waiting element (WaitingIntact), in either build,
\* as long as one context pushes.
LEMMA RingInductive ==
  ASSUME NEW CONSTANT task, Pushers = {task}
  PROVE  /\ Init => RingInv(task)
         /\ RingInv(task) /\ TypeOK' /\ LoopCount' /\ [Next]_vars => RingInv(task)'
<1>1. Init => RingInv(task)
  BY QueueAssumption DEF Init, RingInv, TypeOK, LoopCount, WaitingIntact, Used,
     PushUnderWay, LoadBehind, Slots
<1>2. ASSUME RingInv(task), TypeOK', LoopCount', [Next]_vars
      PROVE  WaitingIntact' /\ PushUnderWay(task)' /\ LoadBehind'
  <2> USE Pushers = {task}
  <2>0. Stored = (IF pushPc[task] = "idle" THEN accepted ELSE accepted - 1)
        /\ Stored' = (IF pushPc'[task] = "idle" THEN accepted' ELSE accepted' - 1)
    BY DEF Stored, Quiet, Busy
  <2>t. TypeOK
    BY <1>2 DEF RingInv
  <2>u. Used \in 0 .. Length - 1 /\ Used' \in 0 .. Length - 1
    <3>1. writeIdx \in Slots /\ readIdx \in Slots /\ writeIdx' \in Slots /\ readIdx' \in Slots
      BY <1>2, <2>t DEF TypeOK
    <3>2. Used \in 0 .. Length - 1
      BY <3>1, QueueAssumption DEF Used, Slots
    <3>3. Used' \in 0 .. Length - 1
      BY <3>1, CountInRing DEF Used
    <3> QED BY <3>2, <3>3
  <2>1. CASE PushCheck(task)
    <3>1. UNCHANGED <<elements, writeIdx, readIdx>> /\ UNCHANGED popVars
          /\ accepted' = accepted + 1 /\ pushPc[task] = "idle"
          /\ pushPc' = [pushPc EXCEPT ![task] = "copy"]
          /\ pushVal' = [pushVal EXCEPT ![task] = accepted + 1]
          /\ Used < Length - 1
      BY <2>1, <2>t, FullTest DEF PushCheck
    <3>2. pushPc'[task] = "copy" /\ pushVal'[task] = accepted'
      BY <3>1, <2>t DEF TypeOK
    <3>3. Used' = Used /\ Stored' = Stored
      BY <3>1, <3>2, <2>0, <2>t DEF Used, TypeOK
    <3>4. WaitingIntact'
      BY <1>2, <3>1, <3>3 DEF RingInv, WaitingIntact, SlotAt
    <3>5. PushUnderWay(task)'
      BY <3>1, <3>2, <3>3 DEF PushUnderWay
    <3>6. LoadBehind'
      BY <1>2, <3>1, <3>3 DEF RingInv, LoadBehind, UsedUpTo, popVars
    <3> QED BY <3>4, <3>5, <3>6
  <2>2. CASE PushCopy(task)
    <3>1. UNCHANGED <<writeIdx, readIdx, accepted, pushVal>> /\ UNCHANGED popVars
          /\ pushPc[task] = "copy"
          /\ pushPc' = [pushPc EXCEPT ![task] = "load"]
          /\ elements' = [elements EXCEPT ![writeIdx] = pushVal[task]]
      BY <2>2 DEF PushCopy
    <3>2. pushPc'[task] = "load"
      BY <3>1, <2>t DEF TypeOK
    <3>3. Used' = Used /\ Stored' = Stored /\ Used < Length - 1 /\ pushVal[task] = accepted
      BY <1>2, <3>1, <3>2, <2>0 DEF Used, RingInv, PushUnderWay
    <3>4. elements'[writeIdx] = accepted
      BY <3>1, <3>3, <2>t DEF TypeOK
    <3>5. ASSUME NEW i \in 0 .. Used - 1
          PROVE  elements'[SlotAt(i)] = elements[SlotAt(i)]
      <4>1. i \in 0 .. Length - 1 /\ i # Used
        BY <2>u, QueueAssumption
      <4>2. SlotAt(i) \in Slots /\ SlotAt(i) # writeIdx
        BY <4>1, <2>t, UsedBounds
      <4> QED BY <4>2, <3>1, <2>t DEF TypeOK
    <3>6. WaitingIntact'
      BY <1>2, <3>1, <3>3, <3>5 DEF RingInv, WaitingIntact, SlotAt
    <3>7. PushUnderWay(task)'
      BY <3>1, <3>2, <3>3, <3>4 DEF PushUnderWay
    <3>8. LoadBehind'
      BY <1>2, <3>1, <3>3 DEF RingInv, LoadBehind, UsedUpTo, popVars
    <3> QED BY <3>6, <3>7, <3>8
  <2>3. CASE PushLoad(task)
    <3>1. UNCHANGED <<elements, writeIdx, readIdx, accepted, pushVal>> /\ UNCHANGED popVars
          /\ pushPc[task] = "load"
          /\ pushPc' = [pushPc EXCEPT ![task] = "store"]
          /\ pushNext' = [pushNext EXCEPT ![task] = MQ_NEXT(writeIdx)]
      BY <2>3 DEF PushLoad
    <3>2. pushPc'[task] = "store" /\ pushNext'[task] = MQ_NEXT(writeIdx)
      BY <3>1, <2>t DEF TypeOK
    <3>3. Used' = Used /\ Stored' = Stored
      BY <3>1, <3>2, <2>0 DEF Used
    <3>4. WaitingIntact'
      BY <1>2, <3>1, <3>3 DEF RingInv, WaitingIntact, SlotAt
    <3>5. PushUnderWay(task)'
      BY <1>2, <3>1, <3>2, <3>3 DEF RingInv, PushUnderWay, MQ_NEXT
    <3>6. LoadBehind'
      BY <1>2, <3>1, <3>3 DEF RingInv, LoadBehind, UsedUpTo, popVars
    <3> QED BY <3>4, <3>5, <3>6
  <2>4. CASE PushStore(task)
    <3>1. UNCHANGED <<elements, readIdx, accepted>> /\ UNCHANGED popVars
          /\ pushPc[task] = "store"
          /\ pushPc' = [pushPc EXCEPT ![task] = "idle"]
          /\ writeIdx' = MQ_NEXT(writeIdx)
          /\ Used < Length - 1 /\ elements[writeIdx] = accepted
      BY <1>2, <2>4 DEF PushStore, RingInv, PushUnderWay
    <3>2. pushPc'[task] = "idle"
      BY <3>1, <2>t DEF TypeOK
    <3>3. /\ Used' = Used + 1 /\ Stored' = Stored + 1 /\ Stored = accepted - 1
          /\ \A i \in 0 .. Length - 1 : SlotAt(i)' = SlotAt(i)
      BY <3>1, <3>2, <2>0, <2>t, GrowUsed DEF TypeOK
    <3>4. ASSUME NEW i \in 0 .. Used' - 1
          PROVE  elements'[SlotAt(i)'] = Stored' - Used' + i + 1
      <4>1. i \in 0 .. Length - 1
        BY <2>u, <3>3, QueueAssumption
      <4>2. CASE i = Used
        BY <4>1, <4>2, <3>1, <3>3, <2>t, <2>u, UsedBounds DEF TypeOK
      <4>3. CASE i # Used
        <5>1. i \in 0 .. Used - 1
          BY <4>3, <3>3, <2>u
        <5>2. elements[SlotAt(i)] = Stored - Used + i + 1
          BY <1>2, <5>1 DEF RingInv, WaitingIntact
        <5>3. Stored \in Int
          BY <3>3, <2>t DEF TypeOK
        <5> QED BY <4>1, <5>1, <5>2, <5>3, <3>1, <3>3, <2>u
      <4> QED BY <4>2, <4>3
    <3>5. WaitingIntact'
      BY <3>4 DEF WaitingIntact
    <3>6. PushUnderWay(task)'
      BY <3>2 DEF PushUnderWay
    <3>7. LoadBehind'
      <4>1. popPc \in {"avail", "advance"} => UsedUpTo(firstLoad) <= Used
        BY <1>2 DEF RingInv, LoadBehind
      <4>2. UsedUpTo(firstLoad) \in Int
        BY <2>t, QueueAssumption DEF UsedUpTo, TypeOK, Slots
      <4> QED BY <4>1, <4>2, <3>1, <3>3, <2>u DEF LoadBehind, UsedUpTo, popVars
    <3> QED BY <3>5, <3>6, <3>7
  <2>5. ASSUME UNCHANGED <<elements, writeIdx, readIdx>>, UNCHANGED pushVars
        PROVE  /\ WaitingIntact' /\ PushUnderWay(task)' /\ Used' = Used
    <3>1. Used' = Used /\ Stored' = Stored
      BY <2>5, <2>0 DEF Used, pushVars
    <3> QED BY <1>2, <2>5, <3>1
            DEF RingInv, WaitingIntact, PushUnderWay, SlotAt, MQ_NEXT, pushVars
  <2>6. CASE RecvFirst \/ PopFirst
    <3>1. UNCHANGED <<elements, writeIdx, readIdx>> /\ UNCHANGED pushVars
          /\ firstLoad' = writeIdx
      BY <2>6 DEF RecvFirst, PopFirst
    <3>2. LoadBehind'
      BY <3>1, <2>u DEF LoadBehind, UsedUpTo, Used
    <3> QED BY <2>5, <3>1, <3>2
  <2>7. CASE RecvSecond \/ RecvDone \/ Top
    <3>1. UNCHANGED <<elements, writeIdx, readIdx>> /\ UNCHANGED pushVars
          /\ popPc' \in {"loop", "idle", "pop"}
      BY <2>7 DEF RecvSecond, RecvDone, Top
    <3> QED BY <2>5, <3>1 DEF LoadBehind
  <2>8. CASE PopSecond
    <3>0. UNCHANGED <<elements, writeIdx>> /\ UNCHANGED pushVars /\ popPc' = "loop"
          /\ popPc = "advance"
      BY <2>8 DEF PopSecond
    <3>1. LoadBehind'
      BY <3>0 DEF LoadBehind
    <3>2. CASE AvailExpr(firstLoad, SecondLoad, readIdx) > 0
      <4>1. Used > 0
        BY <1>2, <3>0, <3>2, <2>t, PopGuard DEF RingInv
      <4>2. readIdx' = MQ_NEXT(readIdx)
        BY <2>8, <3>2 DEF PopSecond
      <4>3. Used' = Used - 1 /\ \A i \in 0 .. Used - 2 : SlotAt(i)' = SlotAt(i + 1)
        BY <4>1, <4>2, <3>0, <2>t, ShrinkUsed
      <4>4. Stored' = Stored /\ Stored \in Int
        BY <3>0, <2>0, <2>t DEF pushVars, TypeOK
      <4>5. ASSUME NEW i \in 0 .. Used' - 1
            PROVE  elements'[SlotAt(i)'] = Stored' - Used' + i + 1
        <5>1. i \in 0 .. Used - 2 /\ i + 1 \in 0 .. Used - 1
          BY <4>3, <2>u
        <5>2. elements[SlotAt(i + 1)] = Stored - Used + (i + 1) + 1
          BY <1>2, <5>1 DEF RingInv, WaitingIntact
        <5> QED BY <5>1, <5>2, <4>3, <4>4, <3>0, <2>u
      <4>6. WaitingIntact'
        BY <4>5 DEF WaitingIntact
      <4>7. PushUnderWay(task)'
        <5>1. Used < Length - 1 => Used' < Length - 1
          BY <4>3, <2>u, QueueAssumption
        <5> QED BY <1>2, <3>0, <5>1 DEF RingInv, PushUnderWay, MQ_NEXT, pushVars
      <4> QED BY <3>1, <4>6, <4>7
    <3>3. CASE ~(AvailExpr(firstLoad, SecondLoad, readIdx) > 0)
      <4>1. readIdx' = readIdx
        BY <2>8, <3>3 DEF PopSecond
      <4> QED BY <2>5, <3>0, <3>1, <4>1
    <3> QED BY <3>2, <3>3
  <2>9. CASE UNCHANGED vars
    <3>1. UNCHANGED <<elements, writeIdx, readIdx>> /\ UNCHANGED pushVars
          /\ UNCHANGED popVars
      BY <2>9 DEF vars
    <3> QED BY <1>2, <2>5, <3>1 DEF RingInv, LoadBehind, UsedUpTo, popVars
  <2> QED BY <1>2, <2>1, <2>2, <2>3, <2>4, <2>6, <2>7, <2>8, <2>9
          DEF Next, Push, Recv
<1> QED BY <1>1, <1>2 DEF RingInv

\* TypeOK and LoopCount are inductive together: TypeCorrect proves it, and the
\* other theorems cite it as an invariant.
LEMMA LoopCounted == Spec => [](TypeOK /\ LoopCount)
<1>1. Init => LoopCount
  BY DEF Init, LoopCount
<1>2. TypeOK /\ TypeOK' /\ LoopCount /\ [Next]_vars => LoopCount'
  BY DEF TypeOK, LoopCount, Next, Push, Recv, PushCheck, PushCopy, PushLoad, PushStore,
     RecvFirst, RecvSecond, RecvDone, Top, PopFirst, PopSecond, vars, popVars
<1> QED BY <1>1, <1>2, TypeCorrect, PTL DEF Spec

LEMMA RingHolds ==
  ASSUME NEW CONSTANT task, Pushers = {task}
  PROVE  Spec => []RingInv(task)
<1>1. Init => RingInv(task)
  BY RingInductive
<1>2. RingInv(task) /\ (TypeOK /\ LoopCount)' /\ [Next]_vars => RingInv(task)'
  BY RingInductive
<1> QED BY <1>1, <1>2, LoopCounted, PTL DEF Spec

\* In either build, as long as one context pushes, no push ever lands on an
\* element that was not popped yet (icc_queue.c:25-47).
THEOREM WaitingSafe ==
  ASSUME NEW CONSTANT task, Pushers = {task}
  PROVE  Spec => []WaitingIntact
<1>1. RingInv(task) => WaitingIntact
  BY DEF RingInv
<1> QED BY <1>1, RingHolds, PTL

-----------------------------------------------------------------------------
\* Every step keeps the stream in order, once iccq_avail is not torn.
LEMMA FifoInductive ==
  ASSUME NEW CONSTANT task, Pushers = {task}, SingleLoad
  PROVE  /\ Init => FifoInv
         /\ RingInv(task) /\ RingInv(task)' /\ FifoInv /\ [Next]_vars => FifoInv'
<1>1. Init => FifoInv
  BY DEF Init, FifoInv, InOrder, CountsAgree, DrainUnderWay, Stored, Quiet, Busy, Used
<1>2. ASSUME RingInv(task), RingInv(task)', FifoInv, [Next]_vars PROVE FifoInv'
  <2> USE Pushers = {task}
  <2>0. Stored = (IF pushPc[task] = "idle" THEN accepted ELSE accepted - 1)
        /\ Stored' = (IF pushPc'[task] = "idle" THEN accepted' ELSE accepted' - 1)
    BY DEF Stored, Quiet, Busy
  <2>t. TypeOK
    BY <1>2 DEF RingInv
  <2>l. Len(delivered) \in Nat
    BY <2>t DEF TypeOK
  <2>u. Used \in 0 .. Length - 1 /\ Length \in Nat
    BY <2>t, UsedBounds, QueueAssumption
  <2>1. ASSUME UNCHANGED popVars, UNCHANGED readIdx, Used' >= Used, Used' \in Nat,
               CountsAgree'
        PROVE  FifoInv'
    <3>1. InOrder'
      BY <1>2, <2>1 DEF FifoInv, InOrder, popVars
    <3>2. DrainUnderWay'
      BY <1>2, <2>1, <2>u, <2>t DEF FifoInv, DrainUnderWay, UsedUpTo, popVars, TypeOK
    <3> QED BY <2>1, <3>1, <3>2 DEF FifoInv
  <2>2. CASE PushCheck(task)
    <3>1. UNCHANGED <<writeIdx, readIdx>> /\ UNCHANGED popVars /\ pushPc[task] = "idle"
          /\ accepted' = accepted + 1 /\ pushPc' = [pushPc EXCEPT ![task] = "copy"]
      BY <2>2 DEF PushCheck
    <3>2. Used' = Used /\ Stored' = Stored
      BY <3>1, <2>0, <2>t DEF Used, TypeOK
    <3> QED BY <2>1, <3>1, <3>2, <1>2, <2>u DEF FifoInv, CountsAgree, popVars
  <2>3. CASE PushCopy(task) \/ PushLoad(task)
    <3>1. UNCHANGED <<writeIdx, readIdx, accepted>> /\ UNCHANGED popVars
          /\ pushPc[task] # "idle" /\ pushPc'[task] # "idle"
      BY <2>3, <2>t DEF PushCopy, PushLoad, TypeOK
    <3>2. Used' = Used /\ Stored' = Stored
      BY <3>1, <2>0 DEF Used
    <3> QED BY <2>1, <3>1, <3>2, <1>2, <2>u DEF FifoInv, CountsAgree, popVars
  <2>4. CASE PushStore(task)
    <3>1. UNCHANGED <<readIdx, accepted>> /\ UNCHANGED popVars
          /\ pushPc[task] = "store" /\ pushPc'[task] = "idle"
          /\ writeIdx' = MQ_NEXT(writeIdx) /\ Used < Length - 1
      BY <1>2, <2>4, <2>t DEF PushStore, RingInv, PushUnderWay, TypeOK
    <3>2. Used' = Used + 1
      BY <3>1, <2>t, GrowUsed
    <3>3. Stored' = Stored + 1
      BY <3>1, <2>0, <2>t DEF TypeOK
    <3>4. CountsAgree'
      BY <1>2, <3>1, <3>2, <3>3, <2>l, <2>u DEF FifoInv, CountsAgree, popVars
    <3> QED BY <2>1, <3>1, <3>2, <3>4, <2>u
  <2>5. ASSUME UNCHANGED <<elements, writeIdx, readIdx, delivered>>, UNCHANGED pushVars
        PROVE  Used' = Used /\ InOrder' /\ CountsAgree'
    BY <1>2, <2>5, <2>0 DEF FifoInv, InOrder, CountsAgree, Used, pushVars
  <2>6. CASE RecvFirst
    <3>1. UNCHANGED <<elements, writeIdx, readIdx, delivered>> /\ UNCHANGED pushVars
          /\ popPc' = "avail"
      BY <2>6 DEF RecvFirst
    <3> QED BY <2>5, <3>1 DEF FifoInv, DrainUnderWay
  <2>7. CASE RecvSecond
    <3>1. UNCHANGED <<elements, writeIdx, readIdx, delivered>> /\ UNCHANGED pushVars
          /\ popPc = "avail" /\ popPc' = "loop"
          /\ left' = AvailExpr(firstLoad, firstLoad, readIdx)
      BY <2>7, SingleLoad DEF RecvSecond, SecondLoad
    <3>2. left' = UsedUpTo(firstLoad)
      BY <3>1, <2>t, AvailSmall DEF UsedUpTo, TypeOK
    <3>3. left' <= Used
      BY <1>2, <3>1, <3>2 DEF RingInv, LoadBehind
    <3> QED BY <2>5, <3>1, <3>3 DEF FifoInv, DrainUnderWay
  <2>8. CASE RecvDone
    <3>1. UNCHANGED <<elements, writeIdx, readIdx, delivered>> /\ UNCHANGED pushVars
          /\ popPc' = "idle"
      BY <2>8 DEF RecvDone
    <3> QED BY <2>5, <3>1 DEF FifoInv, DrainUnderWay
  <2>9. CASE Top
    <3>1. UNCHANGED <<elements, writeIdx, readIdx, delivered, left>> /\ UNCHANGED pushVars
          /\ popPc = "loop" /\ popPc' = "pop" /\ left > 0 /\ taken' = elements[readIdx]
      BY <2>9 DEF Top
    <3>2. left <= Used /\ left \in Nat /\ readIdx \in Slots
      BY <1>2, <3>1, <2>t DEF FifoInv, DrainUnderWay, TypeOK
    <3>3. 0 \in 0 .. Used - 1 /\ SlotAt(0) = readIdx
      BY <3>1, <3>2, <2>u DEF SlotAt, Slots
    <3>4. elements[readIdx] = Stored - Used + 0 + 1
      BY <1>2, <3>3 DEF RingInv, WaitingIntact
    <3>5. taken' = Len(delivered) + 1
      BY <1>2, <3>1, <3>4, <2>l, <2>u DEF FifoInv, CountsAgree
    <3> QED BY <2>5, <3>1, <3>2, <3>5 DEF FifoInv, DrainUnderWay
  <2>10. CASE PopFirst
    <3>1. UNCHANGED <<elements, writeIdx, readIdx, delivered, left, taken>>
          /\ UNCHANGED pushVars
          /\ popPc = "pop" /\ popPc' = "advance" /\ firstLoad' = writeIdx
      BY <2>10 DEF PopFirst
    <3>2. left <= Used /\ left > 0 /\ left \in Nat /\ taken = Len(delivered) + 1
      BY <1>2, <3>1, <2>t DEF FifoInv, DrainUnderWay, RingInv, LoopCount, TypeOK
    <3>3. UsedUpTo(firstLoad)' = Used
      BY <3>1 DEF UsedUpTo, Used
    <3> QED BY <2>5, <2>u, <3>1, <3>2, <3>3 DEF FifoInv, DrainUnderWay
  <2>11. CASE PopSecond
    <3>1. /\ UNCHANGED <<elements, writeIdx, firstLoad, taken>> /\ UNCHANGED pushVars
          /\ popPc = "advance" /\ popPc' = "loop"
          /\ left' = left - 1 /\ delivered' = Append(delivered, taken)
      BY <2>11 DEF PopSecond
    <3>2. /\ left <= Used /\ left > 0 /\ left \in Nat
          /\ taken = Len(delivered) + 1 /\ UsedUpTo(firstLoad) >= 1
      BY <1>2, <3>1, <2>t DEF FifoInv, DrainUnderWay, RingInv, LoopCount, TypeOK
    <3>3. AvailExpr(firstLoad, SecondLoad, readIdx) = UsedUpTo(firstLoad)
      BY <2>t, AvailSmall, SingleLoad DEF SecondLoad, UsedUpTo, TypeOK
    <3>4. AvailExpr(firstLoad, SecondLoad, readIdx) > 0
      <4>1. UsedUpTo(firstLoad) \in Int
        BY <2>t, QueueAssumption DEF UsedUpTo, TypeOK, Slots
      <4> QED BY <4>1, <3>2, <3>3
    <3>5. readIdx' = MQ_NEXT(readIdx)
      BY <2>11, <3>4 DEF PopSecond
    <3>6. Used > 0
      BY <3>2, <2>u
    <3>7. Used' = Used - 1
      BY <3>1, <3>5, <3>6, <2>t, ShrinkUsed
    <3>8. Stored' = Stored
      BY <3>1, <2>0 DEF pushVars
    <3>9. Len(delivered') = Len(delivered) + 1 /\ delivered \in Seq(Nat) /\ taken \in Nat
      BY <3>1, <2>t DEF TypeOK
    <3>10. CountsAgree'
      BY <1>2, <3>7, <3>8, <3>9, <2>l, <2>u DEF FifoInv, CountsAgree
    <3>11. InOrder'
      <4>1. ASSUME NEW i \in 1 .. Len(delivered') PROVE delivered'[i] = i
        <5>1. CASE i = Len(delivered) + 1
          BY <5>1, <3>1, <3>2, <3>9
        <5>2. CASE i # Len(delivered) + 1
          <6>1. i \in 1 .. Len(delivered)
            BY <5>2, <3>9, <2>l
          <6>2. delivered'[i] = delivered[i]
            BY <6>1, <3>1, <3>9
          <6> QED BY <1>2, <6>1, <6>2 DEF FifoInv, InOrder
        <5> QED BY <5>1, <5>2
      <4> QED BY <4>1 DEF InOrder
    <3>12. DrainUnderWay'
      BY <3>1, <3>2, <3>7, <2>u DEF DrainUnderWay
    <3> QED BY <3>10, <3>11, <3>12 DEF FifoInv
  <2>12. CASE UNCHANGED vars
    <3>1. UNCHANGED <<elements, writeIdx, readIdx>> /\ UNCHANGED pushVars
          /\ UNCHANGED popVars
      BY <2>12 DEF vars
    <3> QED BY <1>2, <2>5, <3>1 DEF FifoInv, DrainUnderWay, UsedUpTo, popVars
  <2> QED BY <1>2, <2>2, <2>3, <2>4, <2>6, <2>7, <2>8, <2>9, <2>10, <2>11, <2>12
          DEF Next, Push, Recv
<1> QED BY <1>1, <1>2

LEMMA FifoHolds ==
  ASSUME NEW CONSTANT task, Pushers = {task}, SingleLoad
  PROVE  Spec => [](RingInv(task) /\ FifoInv)
<1>1. Init => FifoInv
  BY FifoInductive
<1>2. RingInv(task) /\ RingInv(task)' /\ FifoInv /\ [Next]_vars => FifoInv'
  BY FifoInductive
<1> QED BY <1>1, <1>2, RingHolds, PTL DEF Spec

-----------------------------------------------------------------------------
\* What comes out of the drain loop is the pushed stream (main.c:132-144).
THEOREM StreamInOrder ==
  ASSUME NEW CONSTANT task, Pushers = {task}, SingleLoad
  PROVE  Spec => []InOrder
<1>1. RingInv(task) /\ FifoInv => InOrder
  BY DEF FifoInv
<1> QED BY <1>1, FifoHolds, PTL

\* An accepted push is never lost (icc_queue.c:25-37).
THEOREM PushesKept ==
  ASSUME NEW CONSTANT task, Pushers = {task}, SingleLoad
  PROVE  Spec => []NothingLost
<1>1. RingInv(task) /\ FifoInv => NothingLost
  BY DEF FifoInv, CountsAgree, NothingLost, Stored
<1> QED BY <1>1, FifoHolds, PTL

\* The count the drain loop works from is one of elements in the ring
\* (icc_queue.h:40-44).
THEOREM CountIsSafe ==
  ASSUME NEW CONSTANT task, Pushers = {task}, SingleLoad
  PROVE  Spec => []AvailIsCount
<1>1. RingInv(task) /\ FifoInv => AvailIsCount
  BY DEF FifoInv, DrainUnderWay, AvailIsCount
<1> QED BY <1>1, FifoHolds, PTL

-----------------------------------------------------------------------------
\* The ring implements the bounded channel: PushStore is its Send, PopSecond
\* its Receive, every other step leaves it alone.
THEOREM RingImplementsChannel ==
  ASSUME NEW CONSTANT task, Pushers = {task}, SingleLoad
  PROVE  Spec => ImplementsChannel
<1> DEFINE q == [i \in 1 .. Used |-> elements[SlotAt(i - 1)]]
<1>1. Init => Ring!Init
  BY DEF Init, Ring!Init, Used, Stored, Quiet, Busy, SlotAt
<1>2. ASSUME RingInv(task), RingInv(task)', FifoInv, FifoInv', [Next]_vars
      PROVE  [Ring!Next]_Ring!vars
  <2> USE Pushers = {task}
  <2>0. Stored = (IF pushPc[task] = "idle" THEN accepted ELSE accepted - 1)
        /\ Stored' = (IF pushPc'[task] = "idle" THEN accepted' ELSE accepted' - 1)
    BY DEF Stored, Quiet, Busy
  <2>t. TypeOK
    BY <1>2 DEF RingInv
  <2>u. Used \in 0 .. Length - 1 /\ Length \in Nat /\ Stored \in Int
    BY <2>t, <2>0, UsedBounds, QueueAssumption DEF TypeOK
  <2>v. Used' \in Nat
    <3>1. writeIdx' \in Slots /\ readIdx' \in Slots
      BY <1>2 DEF RingInv, TypeOK
    <3> QED BY <3>1, CountInRing DEF Used
  <2>q. /\ q \in Seq(Nat) /\ Len(q) = Used
        /\ \A i \in 1 .. Used : q[i] = Stored - Used + i
    <3>1. ASSUME NEW i \in 1 .. Used
          PROVE  q[i] \in Nat /\ q[i] = Stored - Used + i
      <4>1. i - 1 \in 0 .. Used - 1 /\ i - 1 \in 0 .. Length - 1
        BY <2>u
      <4>2. SlotAt(i - 1) \in Slots
        BY <4>1, <2>t, UsedBounds
      <4>3. elements[SlotAt(i - 1)] = Stored - Used + (i - 1) + 1
        BY <1>2, <4>1 DEF RingInv, WaitingIntact
      <4> QED BY <4>1, <4>2, <4>3, <2>t, <2>u DEF TypeOK
    <3> QED BY <3>1, <2>u
  <2>1. ASSUME UNCHANGED <<readIdx, writeIdx, elements, delivered>>, Stored' = Stored
        PROVE  UNCHANGED Ring!vars
    BY <2>1 DEF Ring!vars, Used, SlotAt
  <2>2. CASE PushCheck(task) \/ PushLoad(task)
    <3>1. UNCHANGED <<readIdx, writeIdx, elements, delivered>> /\ Stored' = Stored
      BY <2>2, <2>0, <2>t DEF PushCheck, PushLoad, popVars, TypeOK
    <3> QED BY <2>1, <3>1
  <2>3. CASE PushCopy(task)
    <3>1. UNCHANGED <<readIdx, writeIdx, delivered>> /\ Stored' = Stored
      BY <2>3, <2>0, <2>t DEF PushCopy, popVars, TypeOK
    <3>2. Used' = Used
      BY <3>1 DEF Used
    <3>3. \A i \in 1 .. Used : elements'[SlotAt(i - 1)'] = elements[SlotAt(i - 1)]
      <4>1. ASSUME NEW i \in 1 .. Used
            PROVE  elements'[SlotAt(i - 1)'] = elements[SlotAt(i - 1)]
        <5>1. i - 1 \in 0 .. Used - 1 /\ i - 1 \in 0 .. Used' - 1
          BY <3>2, <2>u
        <5>2. elements'[SlotAt(i - 1)'] = Stored' - Used' + (i - 1) + 1
          BY <1>2, <5>1 DEF RingInv, WaitingIntact
        <5>3. elements[SlotAt(i - 1)] = Stored - Used + (i - 1) + 1
          BY <1>2, <5>1 DEF RingInv, WaitingIntact
        <5> QED BY <5>2, <5>3, <3>1, <3>2
      <4> QED BY <4>1
    <3> QED BY <3>1, <3>2, <3>3 DEF Ring!vars
  <2>4. CASE PushStore(task)
    <3>1. UNCHANGED <<readIdx, elements>> /\ UNCHANGED popVars
          /\ pushPc[task] = "store" /\ pushPc'[task] = "idle" /\ accepted' = accepted
          /\ writeIdx' = MQ_NEXT(writeIdx) /\ Used < Length - 1
      BY <1>2, <2>4, <2>t DEF PushStore, RingInv, PushUnderWay, TypeOK
    <3>2. Used' = Used + 1 /\ \A i \in 0 .. Length - 1 : SlotAt(i)' = SlotAt(i)
      BY <3>1, <2>t, GrowUsed
    <3>3. Stored' = Stored + 1
      BY <3>1, <2>0, <2>t DEF TypeOK
    <3>4. q' = Append(q, Stored + 1)
      <4>1. q' = [i \in 1 .. Used + 1 |-> elements'[SlotAt(i - 1)']]
        BY <3>2
      <4>2. ASSUME NEW i \in 1 .. Used + 1
            PROVE  elements'[SlotAt(i - 1)'] = Append(q, Stored + 1)[i]
        <5>1. i - 1 \in 0 .. Used' - 1
          BY <3>2, <2>u
        <5>2. elements'[SlotAt(i - 1)'] = Stored' - Used' + (i - 1) + 1
          BY <1>2, <5>1 DEF RingInv, WaitingIntact
        <5>3. elements'[SlotAt(i - 1)'] = Stored - Used + i
          BY <5>2, <3>2, <3>3, <2>u
        <5>4. CASE i = Used + 1
          BY <5>3, <5>4, <2>q, <2>u
        <5>5. CASE i # Used + 1
          BY <5>3, <5>5, <2>q, <2>u
        <5> QED BY <5>4, <5>5
      <4>3. Append(q, Stored + 1) = [i \in 1 .. Used + 1 |-> Append(q, Stored + 1)[i]]
        BY <2>q, <2>u
      <4> QED BY <4>1, <4>2, <4>3
    <3>5. Ring!Send
      BY <3>1, <3>3, <3>4, <2>q, <2>u DEF Ring!Send, popVars
    <3> QED BY <3>5 DEF Ring!Next
  <2>5. CASE RecvFirst \/ RecvSecond \/ RecvDone \/ Top \/ PopFirst
    <3>1. UNCHANGED <<readIdx, writeIdx, elements, delivered>> /\ UNCHANGED pushVars
      BY <2>5 DEF RecvFirst, RecvSecond, RecvDone, Top, PopFirst
    <3> QED BY <2>0, <2>1, <3>1 DEF pushVars
  <2>6. CASE PopSecond
    <3>1. /\ UNCHANGED <<elements, writeIdx>> /\ UNCHANGED pushVars
          /\ popPc = "advance" /\ delivered' = Append(delivered, taken)
      BY <2>6 DEF PopSecond
    <3>2. taken = Len(delivered) + 1 /\ Stored' = Stored
      BY <1>2, <3>1, <2>0 DEF FifoInv, DrainUnderWay, pushVars
    <3>3. Len(delivered) \in Nat /\ Len(delivered') = Len(delivered) + 1
      BY <3>1, <2>t DEF TypeOK
    <3>4. Stored = Len(delivered) + Used /\ Stored' = Len(delivered') + Used'
      BY <1>2 DEF FifoInv, CountsAgree
    <3>5. Used' = Used - 1
      BY <3>2, <3>3, <3>4, <2>u, <2>v
    <3>6. Used >= 1
      BY <3>5, <2>u, <2>v
    <3>7. Head(q) = taken /\ q # <<>>
      BY <3>2, <3>3, <3>4, <3>6, <2>q, <2>u
    <3>8. q' = Tail(q)
      <4>1. q' = [i \in 1 .. Used - 1 |-> elements'[SlotAt(i - 1)']]
        BY <3>5
      <4>2. ASSUME NEW i \in 1 .. Used - 1
            PROVE  elements'[SlotAt(i - 1)'] = Tail(q)[i]
        <5>1. i - 1 \in 0 .. Used' - 1 /\ i + 1 \in 1 .. Used
          BY <3>5, <2>u
        <5>2. elements'[SlotAt(i - 1)'] = Stored' - Used' + (i - 1) + 1
          BY <1>2, <5>1 DEF RingInv, WaitingIntact
        <5>3. q[i + 1] = Stored - Used + (i + 1)
          BY <5>1, <2>q
        <5>4. Tail(q)[i] = q[i + 1]
          BY <5>1, <2>q, <2>u
        <5> QED BY <5>1, <5>2, <5>3, <5>4, <3>2, <3>5, <2>u
      <4>3. Tail(q) = [i \in 1 .. Used - 1 |-> Tail(q)[i]]
        BY <2>q, <2>u, <3>6
      <4> QED BY <4>1, <4>2, <4>3
    <3>9. Ring!Receive
      BY <3>1, <3>2, <3>7, <3>8 DEF Ring!Receive
    <3> QED BY <3>9 DEF Ring!Next
  <2>7. CASE UNCHANGED vars
    BY <2>7, <2>0, <2>1 DEF vars, pushVars, popVars
  <2> QED BY <1>2, <2>2, <2>3, <2>4, <2>5, <2>6, <2>7 DEF Next, Push, Recv
<1> QED BY <1>1, <1>2, FifoHolds, PTL DEF Spec, ImplementsChannel, Ring!Spec

=============================================================================
