------------------------------ MODULE IccNotify ------------------------------
(***************************************************************************)
(* One direction of the inter-core link: contexts of the sending core push *)
(* into the pipes and release a hardware semaphore (icc_write, icc_notify),*)
(* the receiving core's HSEM interrupt drains the pipes (icc_recv_cb,      *)
(* icc_recv_variable_cb). Pushes and pops are single steps here: IccQueue  *)
(* has their inside.                                                       *)
(*                                                                         *)
(* M4 to M7: PipeOrder = <<"bytes", "values">>, Gated = FALSE.             *)
(* M7 to M4: PipeOrder = <<"bytes">>, Gated = TRUE (cli.c's sInitialized). *)
(***************************************************************************)
EXTENDS Integers, Sequences

CONSTANTS
  Writers,     \* contexts of the sending core
  Pipe,        \* Pipe[w]: the pipe writer w pushes into
  PipeOrder,   \* the pipes, in the order the receiver drains them
  Capacity,    \* Capacity[p]: what pipe p can hold
  MaxMessage,  \* bound: longest write
  MaxAccepted, \* bound: elements accepted per pipe
  Gated        \* the receiver leaves the pipes alone until it is initialised

Pipes == {PipeOrder[i] : i \in 1 .. Len(PipeOrder)}

ASSUME NotifyAssumption ==
  /\ PipeOrder \in Seq(STRING) /\ PipeOrder # <<>>
  /\ Pipe \in [Writers -> Pipes]
  /\ Capacity \in [Pipes -> Nat]
  /\ MaxMessage \in Nat /\ MaxAccepted \in Nat
  /\ Gated \in BOOLEAN

VARIABLES
  queue,      \* per pipe: the waiting elements, numbered as they were accepted
  accepted,   \* per pipe: history, elements accepted
  delivered,  \* per pipe: history, the number of the last one drained
  pc, todo,   \* per writer: where it is in icc_write, elements left to push
  locked,     \* the semaphore is taken by the sending core
  flag,       \* its release is latched in the receiver's status register
  enabled,    \* the receiver's interrupt is enabled for it
  ready,      \* sInitialized
  readyAt,    \* history: what was accepted when ready became true
  isrPc, stage, left  \* the interrupt handler: where, which pipe, loop count

pipeVars   == <<queue, accepted>>
writerVars == <<pc, todo>>
isrVars    == <<isrPc, stage, left>>
readyVars  == <<ready, readyAt>>
vars == <<pipeVars, delivered, writerVars, locked, flag, enabled, readyVars, isrVars>>

Init ==
  /\ queue = [p \in Pipes |-> <<>>]
  /\ accepted = [p \in Pipes |-> 0]
  /\ delivered = [p \in Pipes |-> 0]
  /\ pc = [w \in Writers |-> "idle"] /\ todo = [w \in Writers |-> 0]
  /\ locked = FALSE /\ flag = FALSE /\ enabled = FALSE
  /\ ready = ~Gated /\ readyAt = [p \in Pipes |-> 0]
  /\ isrPc = "closed" /\ stage = 1 /\ left = 0

-----------------------------------------------------------------------------
(* The sending core. *)

(* icc_write(str, n) is called. *)
WriteStart(w, n) ==
  /\ pc[w] = "idle"
  /\ accepted[Pipe[w]] + n <= MaxAccepted
  /\ pc' = [pc EXCEPT ![w] = "push"]
  /\ todo' = [todo EXCEPT ![w] = n]
  /\ UNCHANGED <<pipeVars, delivered, locked, flag, enabled, readyVars, isrVars>>

\* Mutant: the loop runs once too often.
WritePushOneMore(w) ==
  LET p == Pipe[w] IN
  /\ pc[w] = "push" /\ todo[w] >= 0
  /\ Len(queue[p]) < Capacity[p]
  /\ accepted' = [accepted EXCEPT ![p] = @ + 1]
  /\ queue' = [queue EXCEPT ![p] = Append(@, accepted[p] + 1)]
  /\ todo' = [todo EXCEPT ![w] = @ - 1]
  /\ UNCHANGED <<delivered, pc, locked, flag, enabled, readyVars, isrVars>>

(* One turn of its loop; the loop breaks at the first push that fails. *)
WritePush(w) ==
  LET p == Pipe[w] IN
  /\ pc[w] = "push" /\ todo[w] > 0
  /\ Len(queue[p]) < Capacity[p]
  /\ accepted' = [accepted EXCEPT ![p] = @ + 1]
  /\ queue' = [queue EXCEPT ![p] = Append(@, accepted[p] + 1)]
  /\ todo' = [todo EXCEPT ![w] = @ - 1]
  /\ UNCHANGED <<delivered, pc, locked, flag, enabled, readyVars, isrVars>>

\* Mutant: icc_notify is called only when every push found room.
WriteEndIfAllPushed(w) ==
  /\ pc[w] = "push"
  /\ todo[w] = 0 \/ Len(queue[Pipe[w]]) >= Capacity[Pipe[w]]
  /\ pc' = [pc EXCEPT ![w] = IF todo[w] = 0 THEN "take" ELSE "idle"]
  /\ UNCHANGED <<pipeVars, delivered, todo, locked, flag, enabled, readyVars, isrVars>>

WriteEnd(w) ==
  /\ pc[w] = "push"
  /\ todo[w] = 0 \/ Len(queue[Pipe[w]]) >= Capacity[Pipe[w]]
  /\ pc' = [pc EXCEPT ![w] = "take"]
  /\ UNCHANGED <<pipeVars, delivered, todo, locked, flag, enabled, readyVars, isrVars>>

(* icc_notify: HAL_HSEM_FastTake succeeds even if another context of this  *)
(* core holds the semaphore: the hardware compares core numbers only.      *)
Take(w) ==
  /\ pc[w] = "take"
  /\ locked' = TRUE
  /\ pc' = [pc EXCEPT ![w] = "release"]
  /\ UNCHANGED <<pipeVars, delivered, todo, flag, enabled, readyVars, isrVars>>

(* HAL_HSEM_Release: unlocking latches the flag; an unlocked semaphore     *)
(* stays as it is.                                                         *)
Release(w) ==
  /\ pc[w] = "release"
  /\ locked' = FALSE
  /\ flag' = (flag \/ locked)
  /\ pc' = [pc EXCEPT ![w] = "idle"]
  /\ UNCHANGED <<pipeVars, delivered, todo, enabled, readyVars, isrVars>>

-----------------------------------------------------------------------------
(* The receiving core. *)

(* icc_open_pipe. A release latched before is delivered as soon as the     *)
(* interrupt is enabled.                                                   *)
OpenPipe ==
  /\ isrPc = "closed"
  /\ enabled' = TRUE
  /\ isrPc' = "off"
  /\ UNCHANGED <<pipeVars, delivered, writerVars, locked, flag, readyVars, stage, left>>

(* task_cli sets sInitialized; its core's interrupt handlers run to        *)
(* completion, so it is never inside one.                                  *)
SetReady ==
  /\ ~ready /\ isrPc \in {"closed", "off"}
  /\ ready' = TRUE
  /\ readyAt' = accepted
  /\ UNCHANGED <<pipeVars, delivered, writerVars, locked, flag, enabled, isrVars>>

(* HAL_HSEM_IRQHandler: disable, clear, then the callback. *)
IsrEnter ==
  /\ isrPc = "off" /\ flag /\ enabled
  /\ enabled' = FALSE
  /\ flag' = FALSE
  /\ isrPc' = "look" /\ stage' = 1
  /\ UNCHANGED <<pipeVars, delivered, writerVars, locked, readyVars, left>>

\* Mutant: the drain loop runs once too often.
IsrLookOneMore ==
  /\ isrPc = "look" /\ stage <= Len(PipeOrder)
  /\ left' = IF ready THEN Len(queue[PipeOrder[stage]]) + 1 ELSE 0
  /\ isrPc' = "drain"
  /\ UNCHANGED <<pipeVars, delivered, writerVars, locked, flag, enabled, readyVars, stage>>

(* The receive callback of one pipe reads the count it will loop over. *)
IsrLook ==
  /\ isrPc = "look" /\ stage <= Len(PipeOrder)
  /\ left' = IF ready THEN Len(queue[PipeOrder[stage]]) ELSE 0
  /\ isrPc' = "drain"
  /\ UNCHANGED <<pipeVars, delivered, writerVars, locked, flag, enabled, readyVars, stage>>

\* Mutant: iccq_pop is forgotten.
IsrDrainNoPop ==
  LET p == PipeOrder[stage] IN
  /\ isrPc = "drain" /\ left > 0
  /\ delivered' = [delivered EXCEPT ![p] = Head(queue[p])]
  /\ left' = left - 1
  /\ UNCHANGED <<pipeVars, writerVars, locked, flag, enabled, readyVars, isrPc, stage>>

(* iccq_top, iccq_pop and what the element is for. *)
IsrDrain ==
  LET p == PipeOrder[stage] IN
  /\ isrPc = "drain" /\ left > 0
  /\ delivered' = [delivered EXCEPT ![p] = Head(queue[p])]
  /\ queue' = [queue EXCEPT ![p] = Tail(@)]
  /\ left' = left - 1
  /\ UNCHANGED <<accepted, writerVars, locked, flag, enabled, readyVars, isrPc, stage>>

IsrNextPipe ==
  /\ isrPc = "drain" /\ left = 0
  /\ stage' = stage + 1
  /\ isrPc' = "look"
  /\ UNCHANGED <<pipeVars, delivered, writerVars, locked, flag, enabled, readyVars, left>>

\* Mutant: the flag is cleared when the handler is done, not when it starts.
IsrLeaveClearing ==
  /\ isrPc = "look" /\ stage > Len(PipeOrder)
  /\ enabled' = TRUE
  /\ flag' = FALSE
  /\ isrPc' = "off"
  /\ UNCHANGED <<pipeVars, delivered, writerVars, locked, readyVars, stage, left>>

(* HAL_HSEM_ActivateNotification at the end of HAL_HSEM_FreeCallback. *)
IsrLeave ==
  /\ isrPc = "look" /\ stage > Len(PipeOrder)
  /\ enabled' = TRUE
  /\ isrPc' = "off"
  /\ UNCHANGED <<pipeVars, delivered, writerVars, locked, flag, readyVars, stage, left>>

-----------------------------------------------------------------------------
WriteStep(w) == WritePush(w) \/ WriteEnd(w) \/ Take(w) \/ Release(w)
IsrStep == IsrEnter \/ IsrLook \/ IsrDrain \/ IsrNextPipe \/ IsrLeave

Next ==
  \/ \E w \in Writers : WriteStep(w) \/ (\E n \in 1 .. MaxMessage : WriteStart(w, n))
  \/ OpenPipe \/ SetReady
  \/ IsrStep

(* A context inside icc_write goes on, the receiver's start-up goes on, and *)
(* a pending enabled interrupt is taken. Nobody has to call icc_write.      *)
Fairness ==
  /\ \A w \in Writers : WF_vars(WriteStep(w))
  /\ WF_vars(OpenPipe) /\ WF_vars(SetReady)
  /\ WF_vars(IsrStep)

Spec == Init /\ [][Next]_vars
FairSpec == Spec /\ Fairness

-----------------------------------------------------------------------------
(* Properties. *)

\* Type invariant: the state of the link and of its two ends.
TypeOK ==
  /\ queue \in [Pipes -> Seq(Nat)]
  /\ accepted \in [Pipes -> Nat] /\ delivered \in [Pipes -> Nat]
  /\ pc \in [Writers -> {"idle", "push", "take", "release"}]
  /\ todo \in [Writers -> Nat]
  /\ locked \in BOOLEAN /\ flag \in BOOLEAN /\ enabled \in BOOLEAN
  /\ ready \in BOOLEAN /\ readyAt \in [Pipes -> Nat]
  /\ isrPc \in {"closed", "off", "look", "drain"}
  /\ stage \in 1 .. Len(PipeOrder) + 1
  /\ left \in Nat

\* Elements of pipe p that the running handler has not promised to drain.
Unclaimed(p) ==
  IF isrPc = "drain" /\ PipeOrder[stage] = p THEN Len(queue[p]) - left ELSE Len(queue[p])

\* The handler is running and has yet to read the count of pipe p.
WillLook(p) ==
  \/ isrPc = "look" /\ \E i \in stage .. Len(PipeOrder) : PipeOrder[i] = p
  \/ isrPc = "drain" /\ \E i \in stage + 1 .. Len(PipeOrder) : PipeOrder[i] = p

\* Somebody will still raise the flag.
WillNotify ==
  \E w \in Writers : pc[w] \in {"push", "take"} \/ (pc[w] = "release" /\ locked)

\* No lost wake-up (icc_cm7.c:45-55, icc_cm4.c:38-52): elements waiting in a
\* pipe are never forgotten, however writers nest in the one semaphore and
\* wherever in the handler a release falls.
NoMissedNotify ==
  ready => \A p \in Pipes :
    Unclaimed(p) > 0 => \/ flag \/ WillLook(p) \/ WillNotify
                        \/ accepted[p] <= readyAt[p]

\* Elements stay in order and none is skipped (main.c:118-144, cli.c:450-463).
DrainedInOrder ==
  \A p \in Pipes : \A i \in 1 .. Len(queue[p]) : queue[p][i] = delivered[p] + i

\* The handler never pops an empty pipe, and nobody but it makes a pipe shorter.
PopsWhatItCounted ==
  isrPc = "drain" => left <= Len(queue[PipeOrder[stage]])

\* Everything accepted is drained in the end, and the receiver's interrupt
\* comes back every time (icc_cm7.c:45-50). With sInitialized in the way
\* (cli.c:451) this is promised for what is pushed after it.
EverythingArrives ==
  \A p \in Pipes : \A n \in 1 .. MaxAccepted :
    (accepted[p] >= n /\ ready /\ readyAt[p] < n) ~> (delivered[p] >= n)
=============================================================================
