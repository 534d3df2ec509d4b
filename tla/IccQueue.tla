------------------------------ MODULE IccQueue ------------------------------
(***************************************************************************)
(* The inter-core queue of Common/ICC/icc_queue.c, at the grain of its     *)
(* accesses to the two index words that both cores share: the pushers are  *)
(* the contexts of one core that call icc_write (standard_output.c), the   *)
(* consumer is the drain loop of icc_recv_cb on the other core (main.c).   *)
(*                                                                         *)
(* An element is the number of the successful push that brought it, so     *)
(* "first in, first out, nothing lost" reads: 1, 2, 3, ... come out.       *)
(***************************************************************************)
EXTENDS Integers, Sequences

CONSTANTS
  Pushers,     \* the contexts (tasks, interrupt handlers) that push
  Length,      \* q->length: slots of the ring, one more than it can hold
  MaxPush,     \* bound: how many pushes are modelled
  CountModulus,\* 2^16 in the code: the drain loop's count is a uint16_t
  SingleLoad   \* TRUE: iccq_avail loads writeIdx once (-Og); FALSE: the -O0
               \* code, which loads it for the comparison and again for the sum

ASSUME QueueAssumption ==
  /\ Length \in Nat /\ Length >= 2
  /\ MaxPush \in Nat
  /\ CountModulus \in Nat /\ CountModulus >= Length
  /\ SingleLoad \in BOOLEAN

VARIABLES
  elements,   \* q->elements, by slot; 0 is the memset of iccq_create
  writeIdx, readIdx,
  accepted,   \* history: pushes that found room, each returns true
  pushPc,     \* per pusher: where in iccq_push it is
  pushVal,    \* per pusher: the element it pushes
  pushNext,   \* per pusher: the index it is about to store
  popPc,      \* where in icc_recv_cb and iccq_pop the consumer is
  firstLoad,  \* the consumer's first load of writeIdx in iccq_avail
  left,       \* iterations of the drain loop still to run
  taken,      \* c, the copy iccq_top made
  delivered   \* history: what the loop handed to MSGchar

pushVars == <<accepted, pushPc, pushVal, pushNext>>
popVars  == <<popPc, firstLoad, left, taken, delivered>>
vars     == <<elements, writeIdx, readIdx, pushVars, popVars>>

Slots == 0 .. Length - 1

\* Mutant: the index never wraps.
MQ_NEXTNoWrap(current) == current + 1

\* #define MQ_NEXT
MQ_NEXT(current) == (current + 1) % Length

\* Mutant: the case of a wrapped writeIdx is forgotten.
AvailExprNoWrap(w1, w2, r) == (w2 - r) % CountModulus

\* The value of iccq_avail's expression when writeIdx read w1, then w2. The
\* subtraction is done on uint32_t and its callers keep the low 16 bits.
AvailExpr(w1, w2, r) ==
  ((IF w1 < r THEN w2 + Length ELSE w2) - r) % CountModulus

SecondLoad == IF SingleLoad THEN firstLoad ELSE writeIdx

-----------------------------------------------------------------------------
(* iccq_create. *)
Init ==
  /\ elements = [s \in Slots |-> 0]
  /\ writeIdx = 0 /\ readIdx = 0
  /\ accepted = 0
  /\ pushPc   = [p \in Pushers |-> "idle"]
  /\ pushVal  = [p \in Pushers |-> 0]
  /\ pushNext = [p \in Pushers |-> 0]
  /\ popPc = "idle" /\ firstLoad = 0 /\ left = 0 /\ taken = 0
  /\ delivered = <<>>

-----------------------------------------------------------------------------
\* Mutant: no test for a full ring.
PushCheckNoGuard(p) ==
  /\ pushPc[p] = "idle"
  /\ accepted < MaxPush
  /\ accepted' = accepted + 1
  /\ pushVal' = [pushVal EXCEPT ![p] = accepted + 1]
  /\ pushPc' = [pushPc EXCEPT ![p] = "copy"]
  /\ UNCHANGED <<elements, writeIdx, readIdx, pushNext, popVars>>

(* iccq_push. A push that finds the ring full returns false and changes   *)
(* nothing: PushCheck is simply not taken then.                            *)
PushCheck(p) ==
  /\ pushPc[p] = "idle"
  /\ accepted < MaxPush
  /\ MQ_NEXT(writeIdx) # readIdx
  /\ accepted' = accepted + 1
  /\ pushVal' = [pushVal EXCEPT ![p] = accepted + 1]
  /\ pushPc' = [pushPc EXCEPT ![p] = "copy"]
  /\ UNCHANGED <<elements, writeIdx, readIdx, pushNext, popVars>>

\* Mutant: the index is advanced before the copy.
PushCopyAhead(p) ==
  /\ pushPc[p] = "copy"
  /\ elements' = [elements EXCEPT ![MQ_NEXT(writeIdx)] = pushVal[p]]
  /\ pushPc' = [pushPc EXCEPT ![p] = "load"]
  /\ UNCHANGED <<writeIdx, readIdx, accepted, pushVal, pushNext, popVars>>

(* The memcpy, to the slot writeIdx names now. *)
PushCopy(p) ==
  /\ pushPc[p] = "copy"
  /\ elements' = [elements EXCEPT ![writeIdx] = pushVal[p]]
  /\ pushPc' = [pushPc EXCEPT ![p] = "load"]
  /\ UNCHANGED <<writeIdx, readIdx, accepted, pushVal, pushNext, popVars>>

PushLoad(p) ==
  /\ pushPc[p] = "load"
  /\ pushNext' = [pushNext EXCEPT ![p] = MQ_NEXT(writeIdx)]
  /\ pushPc' = [pushPc EXCEPT ![p] = "store"]
  /\ UNCHANGED <<elements, writeIdx, readIdx, accepted, pushVal, popVars>>

PushStore(p) ==
  /\ pushPc[p] = "store"
  /\ writeIdx' = pushNext[p]
  /\ pushPc' = [pushPc EXCEPT ![p] = "idle"]
  /\ UNCHANGED <<elements, readIdx, accepted, pushVal, pushNext, popVars>>

Push(p) == PushCheck(p) \/ PushCopy(p) \/ PushLoad(p) \/ PushStore(p)

-----------------------------------------------------------------------------
(* icc_recv_cb: avail = iccq_avail(q), in two loads of writeIdx. *)
RecvFirst ==
  /\ popPc = "idle"
  /\ firstLoad' = writeIdx
  /\ popPc' = "avail"
  /\ UNCHANGED <<elements, writeIdx, readIdx, pushVars, left, taken, delivered>>

RecvSecond ==
  /\ popPc = "avail"
  /\ left' = AvailExpr(firstLoad, SecondLoad, readIdx)
  /\ popPc' = "loop"
  /\ UNCHANGED <<elements, writeIdx, readIdx, pushVars, firstLoad, taken, delivered>>

RecvDone ==
  /\ popPc = "loop" /\ left = 0
  /\ popPc' = "idle"
  /\ UNCHANGED <<elements, writeIdx, readIdx, pushVars, firstLoad, left, taken, delivered>>

(* iccq_top: copies the slot at readIdx, whatever it holds. *)
Top ==
  /\ popPc = "loop" /\ left > 0
  /\ taken' = elements[readIdx]
  /\ popPc' = "pop"
  /\ UNCHANGED <<elements, writeIdx, readIdx, pushVars, firstLoad, left, delivered>>

PopFirst ==
  /\ popPc = "pop"
  /\ firstLoad' = writeIdx
  /\ popPc' = "advance"
  /\ UNCHANGED <<elements, writeIdx, readIdx, pushVars, left, taken, delivered>>

(* The rest of iccq_pop, then MSGchar and the loop's step. *)
PopSecond ==
  /\ popPc = "advance"
  /\ readIdx' = IF AvailExpr(firstLoad, SecondLoad, readIdx) > 0
                THEN MQ_NEXT(readIdx) ELSE readIdx
  /\ delivered' = Append(delivered, taken)
  /\ left' = left - 1
  /\ popPc' = "loop"
  /\ UNCHANGED <<elements, writeIdx, pushVars, firstLoad, taken>>

Recv == RecvFirst \/ RecvSecond \/ RecvDone \/ Top \/ PopFirst \/ PopSecond

Next == Recv \/ \E p \in Pushers : Push(p)

Spec == Init /\ [][Next]_vars

-----------------------------------------------------------------------------
(* Properties. *)

\* Elements between the indices, read in one instant.
Used == IF writeIdx < readIdx THEN writeIdx + Length - readIdx ELSE writeIdx - readIdx

\* The slot i places after the one at readIdx.
SlotAt(i) == IF readIdx + i >= Length THEN readIdx + i - Length ELSE readIdx + i

\* Pushes whose element is in the ring, or has left it.
Busy == {p \in Pushers : pushPc[p] # "idle"}
Quiet == Busy = {}
Stored == IF Quiet THEN accepted ELSE accepted - 1

\* Type invariant: the index words stay inside the ring (icc_queue.c:25-47).
TypeOK ==
  /\ elements \in [Slots -> Nat]
  /\ writeIdx \in Slots /\ readIdx \in Slots
  /\ accepted \in Nat
  /\ pushPc \in [Pushers -> {"idle", "copy", "load", "store"}]
  /\ pushVal \in [Pushers -> Nat]
  /\ pushNext \in [Pushers -> Slots]
  /\ popPc \in {"idle", "avail", "loop", "pop", "advance"}
  /\ firstLoad \in Slots
  /\ left \in Nat
  /\ taken \in Nat
  /\ delivered \in Seq(Nat)

\* What reaches MSGchar is the pushed stream itself: no stale, repeated or
\* skipped character, while pushes run in the middle of a drain (main.c:132-144).
InOrder == \A i \in 1 .. Len(delivered) : delivered[i] = i

\* Every push that returned true is either delivered or still between the
\* indices (icc_queue.c:25-37): with nobody in the middle of a push, the
\* counts agree.
NothingLost == Quiet => accepted = Len(delivered) + Used

\* The elements waiting in the ring are the last ones stored, unharmed: a
\* push never lands on an element that was not popped. This holds for both
\* builds, torn count or not.
WaitingIntact ==
  \A i \in 0 .. Used - 1 : elements[SlotAt(i)] = Stored - Used + i + 1

\* The count icc_recv_cb loops over never exceeds what is in the ring
\* (icc_queue.h:40-44, "number of available elements").
AvailIsCount == popPc = "loop" => left <= Used

\* The ring implements the bounded channel: storing writeIdx is the send,
\* advancing readIdx the receive.
Ring == INSTANCE Channel WITH
  Capacity <- Length - 1,
  queue <- [i \in 1 .. Used |-> elements[SlotAt(i - 1)]],
  in <- Stored,
  out <- delivered
ImplementsChannel == Ring!Spec
=============================================================================
