--------------------------- MODULE IccNotifyProofs ---------------------------
(***************************************************************************)
(* Proofs about IccNotify for any writers, pipes, capacities and bounds:   *)
(* no release is ever missed, and the receiver drains in order.            *)
(***************************************************************************)
EXTENDS IccNotify, TLAPS

\* Pipes are what PipeOrder lists.
LEMMA PipeAt ==
  /\ Len(PipeOrder) \in Nat /\ Len(PipeOrder) >= 1
  /\ \A i \in 1 .. Len(PipeOrder) : PipeOrder[i] \in Pipes
  /\ \A p \in Pipes : \E i \in 1 .. Len(PipeOrder) : PipeOrder[i] = p
BY NotifyAssumption DEF Pipes

LEMMA Shift == \A a, b \in Nat : a + (b + 1) = (a + 1) + b
  OBVIOUS

LEMMA SumShift == \A a, b, c \in Nat : a = b + c => a + 1 = b + (c + 1)
  OBVIOUS

\* An element appended to a sequence is its last one.
LEMMA AppendAt ==
  ASSUME NEW s \in Seq(Nat), NEW e \in Nat, NEW i \in 1 .. Len(s) + 1
  PROVE  /\ Append(s, e) \in Seq(Nat) /\ Len(Append(s, e)) = Len(s) + 1
         /\ Append(s, e)[i] = IF i = Len(s) + 1 THEN e ELSE s[i]
  OBVIOUS

\* While the handler drains, its stage names a pipe.
StageNamesPipe == isrPc = "drain" => stage \in 1 .. Len(PipeOrder)

\* Every element of a pipe has its number, up to the last one accepted.
Numbered ==
  \A p \in Pipes : /\ accepted[p] = delivered[p] + Len(queue[p])
                   /\ \A i \in 1 .. Len(queue[p]) : queue[p][i] = delivered[p] + i

TInv == TypeOK /\ StageNamesPipe /\ PopsWhatItCounted /\ Numbered

\* Steps that leave the pipes and the handler alone keep all of TInv but the
\* types of what they change.
LEMMA LinkInductive ==
  /\ Init => TInv
  /\ TInv /\ [Next]_vars => TInv'
<1>1. ASSUME Init PROVE TInv
  <2>1. \A p \in Pipes : queue[p] = <<>> /\ accepted[p] = 0 /\ delivered[p] = 0
    BY <1>1 DEF Init
  <2>2. Numbered
    BY <2>1 DEF Numbered
  <2>3. queue \in [Pipes -> Seq(Nat)] /\ Len(PipeOrder) \in Nat
    BY <1>1, PipeAt DEF Init
  <2>4. Gated \in BOOLEAN /\ ready = ~Gated
    BY <1>1, NotifyAssumption DEF Init
  <2>5. ready \in BOOLEAN
    BY <2>4, Zenon
  <2>6. stage \in 1 .. Len(PipeOrder) + 1 /\ left \in Nat
    BY <1>1, <2>3 DEF Init
  <2>7. TypeOK
    BY <1>1, <2>3, <2>5, <2>6 DEF Init, TypeOK
  <2> QED BY <1>1, <2>2, <2>7 DEF Init, TInv, StageNamesPipe, PopsWhatItCounted
<1>2. ASSUME TInv, [Next]_vars PROVE TInv'
  <2> USE PipeAt
  <2>t. TypeOK /\ StageNamesPipe /\ PopsWhatItCounted /\ Numbered
    BY <1>2 DEF TInv
  <2>1. ASSUME UNCHANGED pipeVars, UNCHANGED delivered, UNCHANGED isrVars
        PROVE  StageNamesPipe' /\ PopsWhatItCounted' /\ Numbered'
    BY <2>1, <2>t DEF StageNamesPipe, PopsWhatItCounted, Numbered, pipeVars, isrVars
  <2>2. ASSUME UNCHANGED pipeVars, UNCHANGED delivered
        PROVE  Numbered'
    BY <2>2, <2>t DEF Numbered, pipeVars
  <2>3. ASSUME NEW w \in Writers, NEW n \in 1 .. MaxMessage, WriteStart(w, n) PROVE TInv'
    <3>1. TypeOK'
      BY <2>3, <2>t DEF WriteStart, TypeOK, pipeVars, readyVars, isrVars
    <3> QED BY <2>1, <2>3, <3>1 DEF WriteStart, TInv
  <2>4. ASSUME NEW w \in Writers, WritePush(w) PROVE TInv'
    <3> DEFINE p == Pipe[w]
    <3>0. p \in Pipes /\ queue[p] \in Seq(Nat) /\ accepted[p] \in Nat
          /\ delivered[p] \in Nat
      BY <2>t, NotifyAssumption DEF TypeOK
    <3>1. /\ accepted' = [accepted EXCEPT ![p] = accepted[p] + 1]
          /\ queue' = [queue EXCEPT ![p] = Append(queue[p], accepted[p] + 1)]
          /\ todo' = [todo EXCEPT ![w] = todo[w] - 1] /\ todo[w] > 0
          /\ UNCHANGED <<delivered, pc, locked, flag, enabled>>
          /\ UNCHANGED readyVars /\ UNCHANGED isrVars
      BY <2>4 DEF WritePush
    <3>a. queue \in [Pipes -> Seq(Nat)] /\ accepted \in [Pipes -> Nat]
          /\ todo \in [Writers -> Nat] /\ todo[w] - 1 \in Nat
      BY <2>t, <3>1 DEF TypeOK
    <3>b. /\ Append(queue[p], accepted[p] + 1) \in Seq(Nat)
          /\ Len(Append(queue[p], accepted[p] + 1)) = Len(queue[p]) + 1
      BY <3>0
    <3>c. queue' \in [Pipes -> Seq(Nat)] /\ accepted' \in [Pipes -> Nat]
          /\ todo' \in [Writers -> Nat]
      <4> HIDE DEF p
      <4> QED BY <3>0, <3>1, <3>a, <3>b
    <3>2. TypeOK'
      BY <2>t, <3>1, <3>c DEF TypeOK, readyVars, isrVars
    <3>3. ASSUME NEW q \in Pipes PROVE Len(queue'[q]) >= Len(queue[q])
      <4>1. Len(queue[q]) \in Nat
        BY <3>a
      <4>2. CASE q = p
        BY <4>1, <4>2, <3>0, <3>1, <3>a, <3>b
      <4>3. CASE q # p
        BY <4>1, <4>3, <3>1, <3>a
      <4> QED BY <4>2, <4>3
    <3>4. PopsWhatItCounted'
      <4>1. CASE isrPc = "drain"
        <5>1. PipeOrder[stage] \in Pipes
          BY <4>1, <2>t DEF StageNamesPipe
        <5>2. left <= Len(queue[PipeOrder[stage]])
              /\ Len(queue'[PipeOrder[stage]]) >= Len(queue[PipeOrder[stage]])
          BY <4>1, <5>1, <3>3, <2>t DEF PopsWhatItCounted
        <5>3. queue \in [Pipes -> Seq(Nat)] /\ queue' \in [Pipes -> Seq(Nat)] /\ left \in Nat
          BY <2>t, <3>2 DEF TypeOK
        <5>4. queue[PipeOrder[stage]] \in Seq(Nat) /\ queue'[PipeOrder[stage]] \in Seq(Nat)
          BY <5>1, <5>3
        <5>5. Len(queue[PipeOrder[stage]]) \in Nat /\ Len(queue'[PipeOrder[stage]]) \in Nat
          BY <5>4
        <5> QED BY <5>2, <5>3, <5>5, <3>1 DEF PopsWhatItCounted, isrVars
      <4> QED BY <4>1, <3>1 DEF PopsWhatItCounted, isrVars
    <3>5. Numbered'
      <4>1. ASSUME NEW q \in Pipes
            PROVE  /\ accepted'[q] = delivered'[q] + Len(queue'[q])
                   /\ \A i \in 1 .. Len(queue'[q]) : queue'[q][i] = delivered'[q] + i
        <5>1. CASE q # p
          BY <5>1, <3>1, <2>t DEF Numbered, TypeOK
        <5>2. CASE q = p
          <6>1. queue'[q] = Append(queue[p], accepted[p] + 1)
                /\ accepted'[q] = accepted[p] + 1
            BY <5>2, <3>1, <3>0, <2>t DEF TypeOK
          <6>2. accepted[p] = delivered[p] + Len(queue[p])
                /\ \A i \in 1 .. Len(queue[p]) : queue[p][i] = delivered[p] + i
            BY <3>0, <2>t DEF Numbered
          <6>3. Len(queue[p]) \in Nat /\ Len(queue'[q]) = Len(queue[p]) + 1
            BY <6>1, <3>0
          <6>4. ASSUME NEW i \in 1 .. Len(queue'[q]) PROVE queue'[q][i] = delivered[p] + i
            <7>1. /\ accepted[p] + 1 \in Nat /\ Len(queue[p]) \in Nat
                  /\ i \in 1 .. Len(queue[p]) + 1
              BY <6>3, <3>0
            <7>2. queue'[q][i] = IF i = Len(queue[p]) + 1 THEN accepted[p] + 1 ELSE queue[p][i]
              BY <7>1, <6>1, <3>0, AppendAt
            <7>3. CASE i = Len(queue[p]) + 1
              <8>1. queue'[q][i] = (delivered[p] + Len(queue[p])) + 1
                BY <7>2, <7>3, <6>2
              <8>2. queue'[q][i] = delivered[p] + (Len(queue[p]) + 1)
                BY <8>1, <7>1, <3>0, Shift
              <8> QED BY <8>2, <7>3
            <7>4. CASE i # Len(queue[p]) + 1
              <8>1. i \in 1 .. Len(queue[p])
                BY <7>1, <7>4
              <8> QED BY <8>1, <7>2, <7>4, <6>2
            <7> QED BY <7>3, <7>4
          <6>5. delivered'[q] = delivered[p]
            BY <5>2, <3>1
          <6>6. accepted[p] + 1 = delivered[p] + (Len(queue[p]) + 1)
            BY <6>2, <6>3, <3>0, SumShift
          <6> QED BY <6>1, <6>3, <6>4, <6>5, <6>6
        <5> QED BY <5>1, <5>2
      <4> QED BY <4>1 DEF Numbered
    <3>6. StageNamesPipe'
      BY <3>1, <2>t DEF StageNamesPipe, isrVars
    <3> QED BY <3>2, <3>4, <3>5, <3>6 DEF TInv
  <2>5. ASSUME NEW w \in Writers, WriteEnd(w) \/ Take(w) \/ Release(w) PROVE TInv'
    <3>1. TypeOK'
      BY <2>5, <2>t DEF WriteEnd, Take, Release, TypeOK, pipeVars, readyVars, isrVars
    <3>2. UNCHANGED pipeVars /\ UNCHANGED delivered /\ UNCHANGED isrVars
      BY <2>5 DEF WriteEnd, Take, Release
    <3> QED BY <2>1, <3>1, <3>2 DEF TInv
  <2>6. CASE OpenPipe
    <3>1. TypeOK' /\ UNCHANGED pipeVars /\ UNCHANGED delivered /\ isrPc' = "off"
      BY <2>6, <2>t DEF OpenPipe, TypeOK, pipeVars, writerVars, readyVars
    <3> QED BY <2>2, <3>1 DEF TInv, StageNamesPipe, PopsWhatItCounted
  <2>7. CASE SetReady
    <3>1. TypeOK' /\ UNCHANGED pipeVars /\ UNCHANGED delivered /\ UNCHANGED isrVars
      BY <2>7, <2>t DEF SetReady, TypeOK, pipeVars, writerVars, isrVars
    <3> QED BY <2>1, <3>1 DEF TInv
  <2>8. CASE IsrEnter
    <3>1. UNCHANGED pipeVars /\ UNCHANGED delivered /\ isrPc' = "look" /\ stage' = 1
      BY <2>8 DEF IsrEnter
    <3>2. stage' \in 1 .. Len(PipeOrder) + 1
      BY <3>1
    <3>3. TypeOK'
      BY <2>8, <3>1, <3>2, <2>t DEF IsrEnter, TypeOK, pipeVars, writerVars, readyVars
    <3> QED BY <2>2, <3>1, <3>3 DEF TInv, StageNamesPipe, PopsWhatItCounted
  <2>9. CASE IsrLook
    <3>1. /\ UNCHANGED pipeVars /\ UNCHANGED delivered /\ isrPc' = "drain"
          /\ stage' = stage /\ stage \in 1 .. Len(PipeOrder)
          /\ left' = IF ready THEN Len(queue[PipeOrder[stage]]) ELSE 0
      BY <2>9, <2>t DEF IsrLook, TypeOK
    <3>2. Len(queue[PipeOrder[stage]]) \in Nat
      BY <3>1, <2>t DEF TypeOK
    <3>3. TypeOK'
      BY <2>9, <3>1, <3>2, <2>t DEF IsrLook, TypeOK, pipeVars, writerVars, readyVars
    <3>4. PopsWhatItCounted'
      BY <3>1, <3>2 DEF PopsWhatItCounted, pipeVars
    <3> QED BY <2>2, <3>1, <3>3, <3>4 DEF TInv, StageNamesPipe
  <2>10. CASE IsrDrain
    <3> DEFINE p == PipeOrder[stage]
    <3>0. p \in Pipes /\ queue[p] \in Seq(Nat) /\ left \in Nat /\ left > 0
          /\ left <= Len(queue[p]) /\ delivered[p] \in Nat
      BY <2>10, <2>t DEF IsrDrain, StageNamesPipe, PopsWhatItCounted, TypeOK
    <3>1. /\ delivered' = [delivered EXCEPT ![p] = Head(queue[p])]
          /\ queue' = [queue EXCEPT ![p] = Tail(queue[p])]
          /\ left' = left - 1 /\ isrPc' = isrPc /\ stage' = stage
          /\ accepted' = accepted /\ UNCHANGED <<locked, flag, enabled>>
          /\ UNCHANGED writerVars /\ UNCHANGED readyVars
      BY <2>10 DEF IsrDrain
    <3>2. Tail(queue[p]) \in Seq(Nat) /\ Head(queue[p]) \in Nat
          /\ Len(Tail(queue[p])) = Len(queue[p]) - 1 /\ Len(queue[p]) \in Nat
          /\ Head(queue[p]) = queue[p][1]
          /\ \A i \in 1 .. Len(queue[p]) - 1 : Tail(queue[p])[i] = queue[p][i + 1]
      BY <3>0
    <3>3. TypeOK'
      BY <2>t, <3>0, <3>1, <3>2 DEF TypeOK, writerVars, readyVars
    <3>4. PopsWhatItCounted'
      BY <2>t, <3>0, <3>1, <3>2 DEF PopsWhatItCounted, TypeOK
    <3>5. Numbered'
      <4>1. ASSUME NEW q \in Pipes
            PROVE  /\ accepted'[q] = delivered'[q] + Len(queue'[q])
                   /\ \A i \in 1 .. Len(queue'[q]) : queue'[q][i] = delivered'[q] + i
        <5>1. CASE q # p
          BY <5>1, <3>1, <2>t DEF Numbered, TypeOK
        <5>2. CASE q = p
          <6>1. queue'[q] = Tail(queue[p]) /\ delivered'[q] = queue[p][1]
            BY <5>2, <3>0, <3>1, <3>2, <2>t DEF TypeOK
          <6>2. accepted[p] = delivered[p] + Len(queue[p])
                /\ \A i \in 1 .. Len(queue[p]) : queue[p][i] = delivered[p] + i
            BY <3>0, <2>t DEF Numbered
          <6>3. delivered'[q] = delivered[p] + 1
            BY <6>1, <6>2, <3>0, <3>2
          <6>4. ASSUME NEW i \in 1 .. Len(queue'[q])
                PROVE  queue'[q][i] = delivered'[q] + i
            <7>1. i \in 1 .. Len(queue[p]) - 1 /\ i + 1 \in 1 .. Len(queue[p])
              BY <6>1, <3>2
            <7>2. queue'[q][i] = delivered[p] + (i + 1)
              BY <7>1, <6>1, <6>2, <3>2
            <7>3. i \in Nat /\ delivered[p] \in Nat
              BY <7>1, <3>0, <3>2
            <7>4. delivered[p] + (i + 1) = (delivered[p] + 1) + i
              BY <7>3, Shift
            <7> QED BY <7>2, <7>4, <6>3
          <6>5. accepted'[q] = accepted[p] /\ Len(queue'[q]) = Len(queue[p]) - 1
            BY <5>2, <6>1, <3>1, <3>2
          <6>6. accepted'[q] = delivered'[q] + Len(queue'[q])
            <7> HIDE DEF p
            <7> QED BY <6>2, <6>3, <6>5, <3>0, <3>2
          <6> QED BY <6>4, <6>6
        <5> QED BY <5>1, <5>2
      <4> QED BY <4>1 DEF Numbered
    <3>6. StageNamesPipe'
      BY <3>1, <2>t DEF StageNamesPipe
    <3> QED BY <3>3, <3>4, <3>5, <3>6 DEF TInv
  <2>11. CASE IsrNextPipe
    <3>1. /\ UNCHANGED pipeVars /\ UNCHANGED delivered /\ isrPc' = "look"
          /\ stage' = stage + 1 /\ stage \in 1 .. Len(PipeOrder)
      BY <2>11, <2>t DEF IsrNextPipe, StageNamesPipe
    <3>2. TypeOK'
      BY <2>11, <3>1, <2>t DEF IsrNextPipe, TypeOK, pipeVars, writerVars, readyVars
    <3> QED BY <2>2, <3>1, <3>2 DEF TInv, StageNamesPipe, PopsWhatItCounted
  <2>12. CASE IsrLeave
    <3>1. TypeOK' /\ UNCHANGED pipeVars /\ UNCHANGED delivered /\ isrPc' = "off"
      BY <2>12, <2>t DEF IsrLeave, TypeOK, pipeVars, writerVars, readyVars
    <3> QED BY <2>2, <3>1 DEF TInv, StageNamesPipe, PopsWhatItCounted
  <2>13. CASE UNCHANGED vars
    <3>1. TypeOK'
      BY <2>13, <2>t DEF vars, TypeOK, pipeVars, writerVars, readyVars, isrVars
    <3> QED BY <2>1, <2>13, <3>1 DEF vars, TInv
  <2> QED BY <1>2, <2>3, <2>4, <2>5, <2>6, <2>7, <2>8, <2>9, <2>10, <2>11, <2>12, <2>13
          DEF Next, WriteStep, IsrStep
<1> QED BY <1>1, <1>2

LEMMA LinkHolds == Spec => []TInv
BY LinkInductive, PTL DEF Spec

\* The link's state has its type (icc_cm4.c, icc_cm7.c).
THEOREM TypeCorrect == Spec => []TypeOK
BY LinkHolds, PTL DEF TInv

\* Elements reach the consumer in the order they were accepted, none skipped
\* (icc_recv_cb and icc_recv_variable_cb in main.c:118-144, cli.c:450-463).
THEOREM ArrivesInOrder == Spec => []DrainedInOrder
<1>1. Numbered => DrainedInOrder
  BY DEF Numbered, DrainedInOrder
<1> QED BY LinkHolds, <1>1, PTL DEF TInv

\* The interrupt handler never pops an empty pipe (iccq_pop at main.c:138).
THEOREM PopsCounted == Spec => []PopsWhatItCounted
BY LinkHolds, PTL DEF TInv

-----------------------------------------------------------------------------
(* No lost wake-up. NoMissedNotify is inductive once the pipes are typed and *)
(* the handler's count is bounded by what waits.                            *)

\* A step of the sending core after which somebody will still notify.
LEMMA StillNotified ==
  ASSUME WillNotify'
  PROVE  NoMissedNotify'
BY DEF NoMissedNotify

\* A step that leaves the receiving side's view of the pipes alone, and takes
\* away no reason to look.
LEMMA SameView ==
  ASSUME NoMissedNotify, ready' => ready,
         \A p \in Pipes : Unclaimed(p)' > 0 => Unclaimed(p) > 0,
         \A p \in Pipes : WillLook(p) => WillLook(p)' \/ Unclaimed(p)' = 0,
         flag \/ WillNotify => flag' \/ WillNotify',
         UNCHANGED <<accepted, readyAt>>
  PROVE  NoMissedNotify'
<1> SUFFICES ASSUME ready', NEW p \in Pipes, Unclaimed(p)' > 0
             PROVE  \/ flag' \/ WillLook(p)' \/ WillNotify'
                    \/ accepted'[p] <= readyAt'[p]
  BY DEF NoMissedNotify
<1>1. ready /\ Unclaimed(p) > 0
  OBVIOUS
<1>2. flag \/ WillLook(p) \/ WillNotify \/ accepted[p] <= readyAt[p]
  BY <1>1 DEF NoMissedNotify
<1>3. Unclaimed(p)' # 0
  OBVIOUS
<1> QED BY <1>2, <1>3

LEMMA MissInductive ==
  ASSUME TInv, NoMissedNotify, [Next]_vars
  PROVE  NoMissedNotify'
<1>t. TypeOK /\ StageNamesPipe /\ PopsWhatItCounted
  BY DEF TInv
<1>s. ASSUME UNCHANGED queue, UNCHANGED isrVars
      PROVE  \A p \in Pipes : Unclaimed(p)' = Unclaimed(p) /\ WillLook(p)' = WillLook(p)
  BY <1>s DEF Unclaimed, WillLook, isrVars
<1>1. ASSUME NEW w \in Writers, NEW n \in 1 .. MaxMessage, WriteStart(w, n)
      PROVE  NoMissedNotify'
  <2>1. pc'[w] = "push"
    BY <1>1, <1>t DEF WriteStart, TypeOK
  <2> QED BY <2>1, StillNotified DEF WillNotify
<1>2. ASSUME NEW w \in Writers, WritePush(w) PROVE NoMissedNotify'
  <2>1. pc'[w] = "push"
    BY <1>2 DEF WritePush
  <2> QED BY <2>1, StillNotified DEF WillNotify
<1>3. ASSUME NEW w \in Writers, WriteEnd(w) PROVE NoMissedNotify'
  <2>1. pc'[w] = "take"
    BY <1>3, <1>t DEF WriteEnd, TypeOK
  <2> QED BY <2>1, StillNotified DEF WillNotify
<1>4. ASSUME NEW w \in Writers, Take(w) PROVE NoMissedNotify'
  <2>1. pc'[w] = "release" /\ locked'
    BY <1>4, <1>t DEF Take, TypeOK
  <2> QED BY <2>1, StillNotified DEF WillNotify
<1>5. ASSUME NEW w \in Writers, Release(w) PROVE NoMissedNotify'
  <2>1. /\ pc[w] = "release" /\ pc' = [pc EXCEPT ![w] = "idle"]
        /\ flag' = (flag \/ locked)
        /\ UNCHANGED queue /\ UNCHANGED isrVars /\ UNCHANGED <<accepted, ready, readyAt>>
    BY <1>5 DEF Release, pipeVars, readyVars
  <2>2. flag \/ WillNotify => flag' \/ WillNotify'
    <3>1. CASE flag \/ locked
      BY <2>1, <3>1
    <3>2. CASE ~flag /\ ~locked
      <4> SUFFICES ASSUME WillNotify PROVE WillNotify'
        BY <3>2
      <4>1. PICK v \in Writers : pc[v] \in {"push", "take"}
        BY <3>2 DEF WillNotify
      <4>2. pc'[v] = pc[v]
        BY <2>1, <4>1, <1>t DEF TypeOK
      <4> QED BY <4>1, <4>2 DEF WillNotify
    <3> QED BY <3>1, <3>2
  <2> QED BY <1>s, <2>1, <2>2, SameView
<1>6. CASE OpenPipe
  <2>1. /\ isrPc = "closed" /\ isrPc' = "off" /\ UNCHANGED <<queue, accepted, ready, readyAt>>
        /\ flag' = flag /\ UNCHANGED <<pc, locked>>
    BY <1>6 DEF OpenPipe, pipeVars, readyVars, writerVars
  <2>2. WillNotify' = WillNotify
    BY <2>1 DEF WillNotify
  <2>3. \A p \in Pipes : Unclaimed(p)' = Unclaimed(p) /\ ~WillLook(p)
    BY <2>1 DEF Unclaimed, WillLook
  <2> QED BY <2>1, <2>2, <2>3, SameView
<1>7. CASE SetReady
  <2>1. readyAt' = accepted /\ accepted' = accepted
    BY <1>7 DEF SetReady, pipeVars
  <2>2. \A p \in Pipes : accepted'[p] <= readyAt'[p]
    BY <2>1, <1>t DEF TypeOK
  <2> QED BY <2>2 DEF NoMissedNotify
<1>8. CASE IsrEnter
  <2>1. isrPc' = "look" /\ stage' = 1
    BY <1>8 DEF IsrEnter
  <2>2. \A p \in Pipes : WillLook(p)'
    BY <2>1, PipeAt DEF WillLook
  <2> QED BY <2>2 DEF NoMissedNotify
<1>9. CASE IsrLook
  <2>1. /\ isrPc = "look" /\ isrPc' = "drain" /\ stage' = stage
        /\ left' = IF ready THEN Len(queue[PipeOrder[stage]]) ELSE 0
        /\ UNCHANGED <<queue, accepted, ready, readyAt>> /\ flag' = flag
        /\ UNCHANGED <<pc, locked>>
        /\ stage \in 1 .. Len(PipeOrder)
    BY <1>9, <1>t DEF IsrLook, pipeVars, readyVars, writerVars, TypeOK
  <2>2. WillNotify' = WillNotify
    BY <2>1 DEF WillNotify
  <2>3. CASE ~ready
    BY <2>1, <2>3 DEF NoMissedNotify
  <2>4. CASE ready
    <3>1. ASSUME NEW p \in Pipes
          PROVE  /\ Unclaimed(p)' > 0 => Unclaimed(p) > 0
                 /\ WillLook(p) => WillLook(p)' \/ Unclaimed(p)' = 0
      <4>1. Len(queue[p]) \in Nat /\ Unclaimed(p) = Len(queue[p])
        BY <2>1, <1>t DEF Unclaimed, TypeOK
      <4>2. CASE PipeOrder[stage] = p
        <5>1. Unclaimed(p)' = Len(queue[p]) - Len(queue[p])
          BY <2>1, <2>4, <4>2 DEF Unclaimed
        <5> QED BY <4>1, <5>1
      <4>3. CASE PipeOrder[stage] # p
        <5>1. Unclaimed(p)' = Len(queue[p])
          BY <2>1, <4>3 DEF Unclaimed
        <5>2. WillLook(p) => WillLook(p)'
          <6> SUFFICES ASSUME WillLook(p) PROVE WillLook(p)'
            OBVIOUS
          <6>1. PICK i \in stage .. Len(PipeOrder) : PipeOrder[i] = p
            BY <2>1 DEF WillLook
          <6>2. i \in stage + 1 .. Len(PipeOrder)
            BY <6>1, <4>3, <2>1
          <6> QED BY <6>1, <6>2, <2>1 DEF WillLook
        <5> QED BY <4>1, <5>1, <5>2
      <4> QED BY <4>2, <4>3
    <3> QED BY <2>1, <2>2, <3>1, SameView
  <2> QED BY <2>3, <2>4
<1>10. CASE IsrDrain
  <2> DEFINE p == PipeOrder[stage]
  <2>1. /\ isrPc = "drain" /\ isrPc' = "drain" /\ stage' = stage
        /\ left' = left - 1 /\ left > 0 /\ queue' = [queue EXCEPT ![p] = Tail(queue[p])]
        /\ UNCHANGED <<accepted, ready, readyAt>> /\ flag' = flag /\ UNCHANGED <<pc, locked>>
    BY <1>10 DEF IsrDrain, readyVars, writerVars
  <2>2. WillNotify' = WillNotify /\ \A q \in Pipes : WillLook(q)' = WillLook(q)
    BY <2>1 DEF WillNotify, WillLook
  <2>3. ASSUME NEW q \in Pipes PROVE Unclaimed(q)' = Unclaimed(q)
    <3>0. p \in Pipes /\ queue \in [Pipes -> Seq(Nat)] /\ left \in Nat /\ left <= Len(queue[p])
      BY <2>1, <1>t, PipeAt DEF TypeOK, StageNamesPipe, PopsWhatItCounted
    <3>1. CASE q = p
      <4>1. queue[p] \in Seq(Nat) /\ Len(queue[p]) > 0
        BY <3>0, <2>1
      <4>2. Len(Tail(queue[p])) = Len(queue[p]) - 1 /\ Len(queue[p]) \in Nat
        BY <4>1
      <4>3. queue'[p] = Tail(queue[p])
        BY <2>1, <3>0
      <4>4. Unclaimed(q)' = (Len(queue[p]) - 1) - (left - 1)
        BY <2>1, <3>1, <4>2, <4>3 DEF Unclaimed
      <4>5. Unclaimed(q) = Len(queue[p]) - left
        BY <2>1, <3>1 DEF Unclaimed
      <4> QED BY <3>0, <4>2, <4>4, <4>5
    <3>2. CASE q # p
      BY <2>1, <3>0, <3>2 DEF Unclaimed
    <3> QED BY <3>1, <3>2
  <2> QED BY <2>1, <2>2, <2>3, SameView
<1>11. CASE IsrNextPipe
  <2>1. /\ isrPc = "drain" /\ isrPc' = "look" /\ stage' = stage + 1 /\ left = 0
        /\ UNCHANGED <<queue, accepted, ready, readyAt>> /\ flag' = flag
        /\ UNCHANGED <<pc, locked>>
    BY <1>11 DEF IsrNextPipe, pipeVars, readyVars, writerVars
  <2>2. WillNotify' = WillNotify /\ \A p \in Pipes : WillLook(p)' = WillLook(p)
    BY <2>1 DEF WillNotify, WillLook
  <2>3. \A p \in Pipes : Unclaimed(p)' = Unclaimed(p)
    <3> TAKE p \in Pipes
    <3>1. Len(queue[p]) \in Nat
      BY <1>t DEF TypeOK
    <3>2. Unclaimed(p)' = Len(queue[p])
      BY <2>1 DEF Unclaimed
    <3> QED BY <2>1, <3>1, <3>2 DEF Unclaimed
  <2> QED BY <2>1, <2>2, <2>3, SameView
<1>12. CASE IsrLeave
  <2>1. /\ isrPc = "look" /\ isrPc' = "off" /\ stage > Len(PipeOrder)
        /\ UNCHANGED <<queue, accepted, ready, readyAt>> /\ flag' = flag
        /\ UNCHANGED <<pc, locked>>
    BY <1>12 DEF IsrLeave, pipeVars, readyVars, writerVars
  <2>2. stage \in Nat /\ Len(PipeOrder) \in Nat
    BY <1>t, PipeAt DEF TypeOK
  <2>3. WillNotify' = WillNotify /\ \A p \in Pipes : ~WillLook(p)
    BY <2>1, <2>2 DEF WillNotify, WillLook
  <2>4. \A p \in Pipes : Unclaimed(p)' = Unclaimed(p)
    BY <2>1 DEF Unclaimed
  <2> QED BY <2>1, <2>3, <2>4, SameView
<1>13. CASE UNCHANGED vars
  <2>1. /\ UNCHANGED queue /\ UNCHANGED isrVars /\ UNCHANGED <<accepted, ready, readyAt>>
        /\ flag' = flag /\ UNCHANGED <<pc, locked>>
    BY <1>13 DEF vars, pipeVars, writerVars, readyVars
  <2>2. WillNotify' = WillNotify
    BY <2>1 DEF WillNotify
  <2> QED BY <1>s, <2>1, <2>2, SameView
<1> QED BY <1>1, <1>2, <1>3, <1>4, <1>5, <1>6, <1>7, <1>8, <1>9, <1>10, <1>11, <1>12, <1>13
        DEF Next, WriteStep, IsrStep

\* For any number of writers nesting in the one semaphore and any pipes: a
\* waiting element always has the flag, the running handler or a later
\* release to fetch it (HAL_HSEM_FreeCallback, icc_notify).
THEOREM NoLostWakeup == Spec => []NoMissedNotify
<1>1. Init => NoMissedNotify
  BY DEF Init, NoMissedNotify, Unclaimed
<1> QED BY LinkHolds, MissInductive, <1>1, PTL DEF Spec
=============================================================================
