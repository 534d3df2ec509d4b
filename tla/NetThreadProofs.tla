--------------------------- MODULE NetThreadProofs ---------------------------
(***************************************************************************)
(* Proofs about NetThread: the MAC's mode for any modes and any cable, the *)
(* page for any length of the log and any captures, the pool of packet     *)
(* buffers for any number of them and any length of the mailbox. First the *)
(* part that is about the log alone (TsLog).                               *)
(*                                                                         *)
(* The log's argument counts lines by their age: the line k places after   *)
(* the oldest is of capture captures - LogSize + 1 + k, and the line being *)
(* printed moves one place towards the oldest with each capture, until it  *)
(* is lapped. The pool's says which list the links make: the threads and   *)
(* the interrupts take its first element off or put one in front.          *)
(***************************************************************************)
EXTENDS NetThread, SequenceTheorems, FiniteSetTheorems, WellFoundedInduction, TLAPS

-----------------------------------------------------------------------------
(* The log alone. *)


Slots == 0 .. LogSize - 1

\* The slot k places after slot h, the capture numbered n, if there was one.
After(h, k) == IF h + k < LogSize THEN h + k ELSE h + k - LogSize
Numbered(n) == IF n < 0 THEN 0 ELSE n

\* What is k places after the oldest line, when there were c captures.
Aged(c, k) == Numbered(c - LogSize + 1 + k)

\* The log holds the last captures, the oldest at the head.
LogFilled == \A k \in Slots : log[After(head, k)] = Aged(captures, k)

Lines   == [slot : -1 .. LogSize - 1, first : -1 .. MaxCaptures, since : 0 .. MaxCaptures]
Printed == [first : 0 .. MaxCaptures, second : 0 .. MaxCaptures, lapped : BOOLEAN]

LogShape ==
  /\ log \in [Slots -> 0 .. MaxCaptures] /\ head \in Slots /\ captures \in 0 .. MaxCaptures
  /\ line \in Lines
  /\ page \in Seq(Printed) /\ Len(page) <= Room

\* The line being printed is as far from the head as the captures have left it, and
\* its first half is what was there when its slot was computed.
LineFound ==
  /\ line.slot = -1 => line = NoLine
  /\ line # NoLine =>
       /\ line.since <= captures /\ Len(page) < Room
       /\ captures - line.since <= Len(page) =>
            /\ line.slot = After(head, Len(page) - (captures - line.since))
            /\ line.first # -1 => line.first = Aged(line.since, Len(page))

\* The captures when the line being printed, or else the next one, was looked for.
Since == IF line = NoLine THEN captures ELSE line.since

\* Line k of the page is no later than the line k of the log was then.
PageInOrder ==
  /\ \A k \in DOMAIN page : ~page[k].lapped =>
       /\ page[k].first = page[k].second
       /\ page[k].first <= Aged(Since, k - 1)
  /\ \A j, k \in DOMAIN page : j < k /\ ~page[j].lapped /\ ~page[k].lapped /\ page[j].first # 0 =>
       page[j].first < page[k].first

LogInv == LogShape /\ LogFilled /\ LineFound /\ PageInOrder

-----------------------------------------------------------------------------
(* Places in the ring. *)

LEMMA Wraps ==
  ASSUME NEW h \in Slots, NEW k \in 0 .. LogSize
  PROVE  (h + k) % LogSize = After(h, k)
<1> USE TsLogAssumption DEF Slots
<1>1. CASE h + k < LogSize
  BY <1>1 DEF After
<1>2. CASE h + k >= LogSize
  BY <1>2 DEF After
<1> QED BY <1>1, <1>2

\* The ring's places after the next one are the places after this one.
LEMMA Turned ==
  ASSUME NEW h \in Slots
  PROVE  /\ After(h, 1) \in Slots /\ After(After(h, 1), LogSize - 1) = h
         /\ \A k \in 0 .. LogSize - 2 : /\ After(After(h, 1), k) = After(h, k + 1)
                                        /\ After(h, k + 1) # h
         /\ \A k \in Slots : After(h, k) \in Slots
BY TsLogAssumption DEF Slots, After

LEMMA Ages ==
  ASSUME NEW c \in Nat, NEW d \in Nat, c <= d, NEW k \in Nat
  PROVE  /\ Aged(c, k) \in Nat /\ Aged(c + 1, k) = Aged(c, k + 1)
         /\ Aged(d, k) \in Nat /\ Aged(c, k) <= Aged(d, k)
         /\ d - c <= k => Aged(d, k - (d - c)) = Aged(c, k)
BY TsLogAssumption DEF Aged, Numbered

LEMMA LaterIsNewer ==
  ASSUME NEW c \in Nat, NEW j \in Nat, NEW k \in Nat, j < k, Aged(c, j) # 0
  PROVE  Aged(c, j) < Aged(c, k)
BY TsLogAssumption DEF Aged, Numbered

LEMMA LineFields ==
  ASSUME NEW l \in Lines, NEW v \in 0 .. MaxCaptures
  PROVE  /\ [l EXCEPT !.first = v] \in Lines
         /\ [l EXCEPT !.first = v].slot = l.slot /\ [l EXCEPT !.first = v].since = l.since
         /\ [l EXCEPT !.first = v].first = v
BY DEF Lines

-----------------------------------------------------------------------------
LEMMA LogInitially == LogInit => LogInv
<1> SUFFICES ASSUME LogInit
             PROVE  LogInv
  OBVIOUS
<1> USE TsLogAssumption DEF LogInit, NoLine
<1>1. LogShape
  BY DEF LogShape, Slots, Lines, Printed
<1>2. LogFilled
  BY DEF LogFilled, Slots, After, Aged, Numbered
<1>3. LineFound /\ PageInOrder
  BY DEF LineFound, PageInOrder
<1> QED BY <1>1, <1>2, <1>3 DEF LogInv

LEMMA CaptureKeeps == LogInv /\ Capture => LogInv'
<1> SUFFICES ASSUME LogInv, Capture
             PROVE  LogInv'
  OBVIOUS
<1> USE TsLogAssumption DEF LogInv
<1>1. /\ captures \in Nat /\ captures' = captures + 1 /\ captures' \in 0 .. MaxCaptures
      /\ UNCHANGED <<line, page>>
  BY DEF Capture, LogShape
<1>2. head \in Slots /\ head' = After(head, 1) /\ head' \in Slots
  BY Wraps, Turned DEF Capture, LogShape
<1>3. /\ log' \in [Slots -> 0 .. MaxCaptures]
      /\ \A s \in Slots : log'[s] = IF s = head THEN captures + 1 ELSE log[s]
  BY <1>1, <1>2 DEF Capture, LogShape
<1>4. LogShape'
  BY <1>1, <1>2, <1>3 DEF LogShape
<1>5. LogFilled'
  <2> SUFFICES ASSUME NEW k \in Slots
               PROVE  log'[After(head', k)] = Aged(captures', k)
    BY DEF LogFilled
  <2>1. CASE k = LogSize - 1
    <3>1. log'[After(head', k)] = captures + 1
      BY <2>1, <1>2, <1>3, Turned
    <3> QED BY <2>1, <3>1, <1>1 DEF Aged, Numbered
  <2>2. CASE k # LogSize - 1
    <3>1. k \in 0 .. LogSize - 2 /\ k + 1 \in Slots /\ k \in Nat
      BY <2>2 DEF Slots
    <3>2. log'[After(head', k)] = log[After(head, k + 1)]
      BY <3>1, <1>2, <1>3, Turned
    <3>3. log[After(head, k + 1)] = Aged(captures, k + 1)
      BY <3>1 DEF LogFilled
    <3>4. Aged(captures + 1, k) = Aged(captures, k + 1)
      BY <3>1, <1>1, Ages
    <3> QED BY <3>2, <3>3, <3>4, <1>1
  <2> QED BY <2>1, <2>2
<1>6. LineFound'
  <2> SUFFICES ASSUME line # NoLine
               PROVE  /\ line.since <= captures' /\ Len(page) < Room
                      /\ captures' - line.since <= Len(page) =>
                           /\ line.slot = After(head', Len(page) - (captures' - line.since))
                           /\ line.first # -1 => line.first = Aged(line.since, Len(page))
    BY <1>1 DEF LineFound
  <2>1. line.since \in Nat /\ line.since <= captures /\ Len(page) \in Nat /\ Len(page) < Room
    BY DEF LineFound, LogShape, Lines
  <2>2. ASSUME captures' - line.since <= Len(page)
        PROVE  After(head', Len(page) - (captures' - line.since))
                 = After(head, Len(page) - (captures - line.since))
    <3>1. Len(page) - (captures' - line.since) \in 0 .. LogSize - 2
      BY <1>1, <2>1, <2>2
    <3>2. Len(page) - (captures' - line.since) + 1 = Len(page) - (captures - line.since)
      BY <1>1, <2>1
    <3> QED BY <3>1, <3>2, <1>2, Turned
  <2> QED BY <1>1, <2>1, <2>2 DEF LineFound
<1>7. PageInOrder'
  <2>1. Since \in Nat /\ Since' \in Nat /\ Since <= Since'
    BY <1>1 DEF Since, LogShape, Lines
  <2>2. ASSUME NEW k \in DOMAIN page
        PROVE  /\ page[k].first \in Nat
               /\ Aged(Since, k - 1) <= Aged(Since', k - 1) /\ Aged(Since, k - 1) \in Nat
               /\ Aged(Since', k - 1) \in Nat
    <3>1. k - 1 \in Nat /\ page[k] \in Printed
      BY DEF LogShape
    <3>2. page[k].first \in Nat
      BY <3>1 DEF Printed
    <3> QED BY <2>1, <3>1, <3>2, Ages
  <2> QED BY <1>1, <2>2 DEF PageInOrder
<1> QED BY <1>4, <1>5, <1>6, <1>7

LEMMA FindLineKeeps == LogInv /\ ~PageDone /\ FindLine => LogInv'
<1> SUFFICES ASSUME LogInv, ~PageDone, FindLine
             PROVE  LogInv'
  OBVIOUS
<1> USE TsLogAssumption DEF LogInv
<1>1. UNCHANGED <<log, head, captures, page>> /\ line = NoLine
  BY DEF FindLine
<1>2. captures \in 0 .. MaxCaptures /\ Len(page) \in 0 .. LogSize /\ Len(page) < Room /\ head \in Slots
  BY DEF LogShape, PageDone
<1>3. line' = [slot |-> After(head, Len(page)), first |-> -1, since |-> captures]
  BY <1>2, Wraps DEF FindLine
<1>4. After(head, Len(page)) \in Slots
  <2>1. Len(page) \in Slots
    BY <1>2 DEF Slots
  <2> QED BY <2>1, <1>2, Turned
<1>5. LogShape' /\ line'.slot # -1
  BY <1>1, <1>2, <1>3, <1>4 DEF LogShape, Lines, Slots
<1>6. LogFilled'
  BY <1>1 DEF LogFilled
<1>7. LineFound'
  BY <1>1, <1>2, <1>3, <1>5 DEF LineFound
<1>8. PageInOrder'
  <2>1. Since' = Since
    BY <1>1, <1>3 DEF Since
  <2> QED BY <2>1, <1>1 DEF PageInOrder
<1> QED BY <1>5, <1>6, <1>7, <1>8

\* What the line's slot holds, unless the line is lapped.
LEMMA SlotHolds ==
  ASSUME LogInv, line # NoLine
  PROVE  /\ line.slot \in Slots /\ line.since \in 0 .. captures /\ log[line.slot] \in 0 .. MaxCaptures
         /\ captures - line.since <= Len(page) => log[line.slot] = Aged(line.since, Len(page))
<1> USE TsLogAssumption DEF LogInv
<1>1. line.slot \in Slots /\ line.since \in 0 .. captures /\ log[line.slot] \in 0 .. MaxCaptures
  BY DEF LogShape, LineFound, Lines, Slots
<1>2. ASSUME captures - line.since <= Len(page)
      PROVE  log[line.slot] = Aged(line.since, Len(page))
  <2>1. /\ captures \in Nat /\ Len(page) \in Nat /\ Len(page) < Room
        /\ line.since \in Nat /\ line.since <= captures
    BY <1>1 DEF LogShape, LineFound
  <2>2. Len(page) - (captures - line.since) \in Slots
    BY <2>1, <1>2 DEF Slots
  <2>3. log[line.slot] = Aged(captures, Len(page) - (captures - line.since))
    BY <1>2, <2>2 DEF LineFound, LogFilled
  <2>4. Aged(captures, Len(page) - (captures - line.since)) = Aged(line.since, Len(page))
    BY <2>1, <1>2, Ages
  <2> QED BY <2>3, <2>4
<1> QED BY <1>1, <1>2

LEMMA FirstHalfKeeps == LogInv /\ FirstHalf => LogInv'
<1> SUFFICES ASSUME LogInv, FirstHalf
             PROVE  LogInv'
  OBVIOUS
<1> USE DEF LogInv
<1>1. line # NoLine /\ UNCHANGED <<log, head, captures, page>>
  BY DEF FirstHalf
<1>2. /\ line' \in Lines /\ line'.slot = line.slot /\ line'.since = line.since
      /\ line'.first = log[line.slot]
  BY <1>1, SlotHolds, LineFields DEF FirstHalf, LogShape
<1>3. line' # NoLine
  BY <1>1, <1>2, SlotHolds DEF NoLine, Slots
<1>4. LogShape' /\ LogFilled'
  BY <1>1, <1>2 DEF LogShape, LogFilled
<1>5. LineFound'
  BY <1>1, <1>2, <1>3, SlotHolds DEF LineFound, Slots
<1>6. PageInOrder'
  <2>1. Since' = Since
    BY <1>1, <1>2, <1>3 DEF Since
  <2> QED BY <2>1, <1>1 DEF PageInOrder
<1> QED BY <1>4, <1>5, <1>6

LEMMA SecondHalfKeeps == LogInv /\ SecondHalf => LogInv'
<1> SUFFICES ASSUME LogInv, SecondHalf
             PROVE  LogInv'
  OBVIOUS
<1> USE DEF LogInv
<1> DEFINE new == [first  |-> line.first, second |-> log[line.slot],
                   lapped |-> captures - line.since > Len(page)]
           n   == Len(page)
<1>1. /\ line # NoLine /\ line.first # -1 /\ line' = NoLine /\ page' = Append(page, new)
      /\ UNCHANGED <<log, head, captures>>
  BY DEF SecondHalf
<1>2. /\ new.first = line.first /\ new.second = log[line.slot]
      /\ new.lapped = (captures - line.since > n)
  OBVIOUS
<1>3. new \in Printed
  BY <1>1, SlotHolds DEF LogShape, Lines, Printed
<1>4. n \in Nat /\ n < Room /\ captures \in Nat /\ page \in Seq(Printed)
  BY <1>1 DEF LogShape, LineFound
<1>5. /\ page' \in Seq(Printed) /\ Len(page') = n + 1 /\ DOMAIN page' = 1 .. n + 1
      /\ \A k \in 1 .. n : page'[k] = page[k]
      /\ page'[n + 1] = new
  BY <1>1, <1>3, <1>4
<1>6. LogShape'
  BY <1>1, <1>4, <1>5, TsLogAssumption DEF LogShape, Lines, NoLine
<1>7. LogFilled' /\ LineFound'
  BY <1>1 DEF LogFilled, LineFound
<1>8. PageInOrder'
  <2>1. Since = line.since /\ Since' = captures /\ line.since \in Nat /\ line.since <= captures
    BY <1>1, SlotHolds DEF Since
  <2>2. ASSUME ~new.lapped
        PROVE  new.first = Aged(line.since, n) /\ new.second = Aged(line.since, n)
    <3>1. captures - line.since <= n
      <4>1. ~(captures - line.since > n)
        BY <2>2, <1>2
      <4> HIDE DEF new, n
      <4> QED BY <4>1, <1>4, <2>1
    <3>2. line.first = Aged(line.since, n)
      BY <3>1, <1>1 DEF LineFound
    <3>3. log[line.slot] = Aged(line.since, n)
      BY <3>1, <1>1, SlotHolds
    <3> QED BY <3>2, <3>3, <1>2
  <2>3. ASSUME NEW k \in 1 .. n
        PROVE  /\ page[k].first \in Nat
               /\ Aged(line.since, k - 1) \in Nat /\ Aged(captures, k - 1) \in Nat
               /\ Aged(line.since, k - 1) <= Aged(captures, k - 1)
               /\ Aged(line.since, k - 1) # 0 => Aged(line.since, k - 1) < Aged(line.since, n)
    <3>1. k - 1 \in Nat /\ k - 1 < n /\ page[k] \in Printed
      BY <1>4
    <3>2. page[k].first \in Nat
      BY <3>1 DEF Printed
    <3>3. Aged(line.since, k - 1) # 0 => Aged(line.since, k - 1) < Aged(line.since, n)
      BY <3>1, <2>1, <1>4, LaterIsNewer
    <3> QED BY <3>1, <3>2, <3>3, <2>1, <1>4, Ages
  <2>4. Aged(line.since, n) \in Nat /\ Aged(line.since, n) <= Aged(captures, n)
    BY <2>1, <1>4, Ages
  <2>5. ASSUME NEW k \in DOMAIN page', ~page'[k].lapped
        PROVE  page'[k].first = page'[k].second /\ page'[k].first <= Aged(Since', k - 1)
    <3>1. CASE k = n + 1
      BY <3>1, <2>5, <1>4, <1>5, <2>1, <2>2, <2>4
    <3>2. CASE k \in 1 .. n
      BY <3>2, <2>5, <1>4, <1>5, <2>1, <2>3 DEF PageInOrder
    <3> QED BY <3>1, <3>2, <1>4, <1>5
  <2>6. ASSUME NEW j \in DOMAIN page', NEW k \in DOMAIN page', j < k,
               ~page'[j].lapped, ~page'[k].lapped, page'[j].first # 0
        PROVE  page'[j].first < page'[k].first
    <3>1. j \in 1 .. n
      BY <2>6, <1>4, <1>5
    <3>2. CASE k = n + 1
      <4>1. page[j].first <= Aged(line.since, j - 1) /\ page[j].first # 0
        BY <3>1, <2>6, <1>4, <1>5, <2>1 DEF PageInOrder
      <4>2. new.first = Aged(line.since, n)
        BY <3>2, <2>6, <1>5, <2>2
      <4> QED BY <3>1, <3>2, <4>1, <4>2, <1>5, <2>3, <2>4
    <3>3. CASE k \in 1 .. n
      BY <3>1, <3>3, <2>6, <1>4, <1>5 DEF PageInOrder
    <3> QED BY <3>2, <3>3, <1>4, <1>5
  <2> QED BY <2>5, <2>6 DEF PageInOrder
<1> QED BY <1>6, <1>7, <1>8

LEMMA SendKeeps == LogInv /\ Send => LogInv'
<1> SUFFICES ASSUME LogInv, Send
             PROVE  LogInv'
  OBVIOUS
<1> USE DEF LogInv
<1>1. page' = <<>> /\ UNCHANGED <<log, head, captures, line>> /\ line = NoLine
  BY DEF Send, PageDone, LineFound, LogShape
<1>2. LogShape' /\ LogFilled'
  BY <1>1, TsLogAssumption DEF LogShape, LogFilled
<1>3. LineFound' /\ PageInOrder'
  BY <1>1 DEF LineFound, PageInOrder
<1> QED BY <1>2, <1>3

LEMMA LogIdle == LogInv /\ UNCHANGED logVars => LogInv'
BY DEF logVars, LogInv, LogShape, LogFilled, LineFound, PageInOrder, Since

LEMMA LogInvMeans == LogInv => PageIsLog
BY DEF LogInv, LogShape, PageInOrder, PageIsLog, LogTypeOK, Slots, Lines

-----------------------------------------------------------------------------
(* The link. *)

Jobs == {"fetch", "mode", "link", "apply", "page", "free"}

\* The interface's flag is what fetch_link_properties remembers of it.
FlagRemembered == netifUp = linkState.up

\* The PHY remembers a link that is down.
DownLatched == phyUp \/ latch

\* Unless the link was down since it was read last, the MAC of an interface that is
\* up has its mode, except after a read that will take the interface down.
ModeKept == job # "apply" /\ netifUp /\ phyUp /\ ~latch => mac = phyMode

\* A link found up has the mode that was read before, and so has the MAC already if
\* the interface was up.
ReadsAgree ==
  /\ job = "link" /\ phyUp /\ ~latch => status.mode = phyMode
  /\ job = "apply" /\ status.up /\ phyUp /\ ~latch =>
       status.mode = phyMode /\ (netifUp => mac = phyMode)

LinkInv == LinkTypeOK /\ job \in Jobs /\ FlagRemembered /\ DownLatched /\ ModeKept /\ ReadsAgree

LEMMA LinkInitially == Init => LinkInv
<1> SUFFICES ASSUME Init
             PROVE  LinkInv
  OBVIOUS
<1>1. LinkTypeOK /\ FlagRemembered
  BY DEF Init, LinkInit, LinkTypeOK, FlagRemembered
<1>2. job \in Jobs /\ DownLatched /\ ModeKept /\ ReadsAgree
  BY DEF Init, LinkInit, Jobs, DownLatched, ModeKept, ReadsAgree
<1> QED BY <1>1, <1>2 DEF LinkInv

LEMMA ModeField ==
  ASSUME NEW s \in [up : BOOLEAN, mode : Modes], NEW m \in Modes
  PROVE  /\ [s EXCEPT !.mode = m] \in [up : BOOLEAN, mode : Modes]
         /\ [s EXCEPT !.mode = m].mode = m
OBVIOUS

LEMMA LinkKept == LinkInv /\ [Next]_vars => LinkInv'
<1> SUFFICES ASSUME LinkInv, [Next]_vars
             PROVE  LinkInv'
  OBVIOUS
<1> USE DEF LinkInv, LinkTypeOK, Jobs, FlagRemembered, DownLatched, ModeKept, ReadsAgree
<1>1. ASSUME UNCHANGED linkVars, job' = job PROVE LinkInv'
  BY <1>1 DEF linkVars, phyVars
<1>2. ASSUME UNCHANGED linkVars, job # "apply", job' \in Jobs \ {"link", "apply"} PROVE LinkInv'
  BY <1>2 DEF linkVars, phyVars
<1>3. CASE job = "mode" /\ ReadMode /\ job' = "link"
  <2>1. status' \in [up : BOOLEAN, mode : Modes] /\ status'.mode = phyMode
    BY <1>3, ModeField DEF ReadMode
  <2> QED BY <1>3, <2>1 DEF ReadMode, phyVars
<1>4. CASE job = "link" /\ ReadLink /\ job' = "apply"
  BY <1>4 DEF ReadLink
<1>5. CASE job = "apply" /\ Apply /\ job' = "fetch"
  BY <1>5 DEF Apply, phyVars
<1>6. CASE Cable
  BY <1>6 DEF Cable, LinkDown, LinkUp
<1>7. CASE PhyThread
  BY <1>7, <1>1 DEF PhyThread, PhyEnter, PhyLeave, PhyPost, PhyWake
<1>8. CASE EthIrq \/ Tim2Irq
  BY <1>8, <1>1 DEF EthIrq, Tim2Irq
<1>9. CASE TcpipThread
  <2>1. CASE FetchPoll
    BY <2>1, <1>2 DEF FetchPoll
  <2>2. ASSUME NEW j \in {"page", "free"}, FetchFrame(j) PROVE LinkInv'
    BY <2>2, <1>2 DEF FetchFrame
  <2>3. CASE PollLink
    BY <2>3, <1>3, <1>4, <1>5 DEF PollLink
  <2>4. CASE PrintLog
    BY <2>4, <1>1, <1>2 DEF PrintLog
  <2>5. CASE FreeFrame
    BY <2>5, <1>1, <1>2 DEF FreeFrame
  <2> QED BY <1>9, <2>1, <2>2, <2>3, <2>4, <2>5 DEF TcpipThread
<1>10. CASE UNCHANGED vars
  BY <1>10, <1>1 DEF vars
<1> QED BY <1>6, <1>7, <1>8, <1>9, <1>10 DEF Next

\* Whatever the cable does, also between the two register reads of a poll, the MAC has
\* the PHY's mode when the link was up since it was asked (eth_drv_lwip.c:68).
THEOREM ModeFits == Spec => []MacFits
<1>1. LinkInv => MacFits
  BY DEF LinkInv, ModeKept, MacFits
<1> QED BY LinkInitially, LinkKept, <1>1, PTL DEF Spec

-----------------------------------------------------------------------------
(* The log. *)

LEMMA LogKept == LogInv /\ [Next]_vars => LogInv'
<1>1. ASSUME Next PROVE UNCHANGED logVars \/ Tim2Irq \/ PrintLog
  BY <1>1 DEF Next, PhyThread, PhyEnter, PhyLeave, PhyPost, PhyWake, TcpipThread, FetchPoll, FetchFrame,
              PollLink, FreeFrame, EthIrq, Cable
<1>2. LogInv /\ Tim2Irq => LogInv'
  BY CaptureKeeps DEF Tim2Irq
<1>3. LogInv /\ PrintLog => LogInv'
  BY FindLineKeeps, FirstHalfKeeps, SecondHalfKeeps, SendKeeps DEF PrintLog
<1>4. UNCHANGED vars => UNCHANGED logVars
  BY DEF vars
<1> QED BY <1>1, <1>2, <1>3, <1>4, LogIdle

\* For a log and a page of any length and captures at any step, the page is in the
\* order of time and of whole lines, but for the lines the captures caught up with
\* (http_sever.c:54).
THEOREM PageInTime == Spec => []PageIsLog
<1>1. Init => LogInv
  BY LogInitially DEF Init
<1> QED BY <1>1, LogKept, LogInvMeans, PTL DEF Spec

-----------------------------------------------------------------------------
(* The list of free buffers. *)

\* Induction, for a set: the smallest number outside it would be 0 or follow one in it.
LEMMA SetInduction ==
  ASSUME NEW S, 0 \in S, \A n \in Nat : n \in S => n + 1 \in S
  PROVE  Nat \subseteq S
<1> SUFFICES ASSUME NEW b \in Nat, b \notin S PROVE FALSE
  OBVIOUS
<1> DEFINE T == {n \in Nat : n \notin S}
           R == OpToRel(<, Nat)
<1>1. IsWellFoundedOn(R, Nat)
  BY NatLessThanWellFounded
<1>2. T \subseteq Nat /\ T # {}
  OBVIOUS
<1> HIDE DEF R, T
<1>3. PICK m \in T : \A y \in T : ~(<<y, m>> \in R)
  BY <1>1, <1>2, WFMin
<1>4. \A y \in T : ~(y < m)
  BY <1>2, <1>3 DEF R, OpToRel
<1>5. m \in Nat /\ m # 0 /\ m - 1 \in Nat /\ m - 1 \notin T
  BY <1>2, <1>4 DEF T
<1> QED BY <1>5 DEF T

\* s is the list that starts at t, linked by n.
IsList(s, t, n) ==
  /\ s \in Seq(Buffers) /\ \A j, k \in 1 .. Len(s) : s[j] = s[k] => j = k
  /\ t = (IF Len(s) = 0 THEN Null ELSE s[1])
  /\ \A k \in 1 .. Len(s) : n[s[k]] = IF k = Len(s) THEN Null ELSE s[k + 1]

\* What the first n links of the list reach.
Reached(s, n) ==
  [k \in 1 .. (IF n < Len(s) THEN n + 1 ELSE Len(s) + 1) |-> IF k <= Len(s) THEN s[k] ELSE Null]

\* A list has no more links than there are buffers.
LEMMA ListFits ==
  ASSUME NEW s, NEW t, NEW n, IsList(s, t, n)
  PROVE  Cardinality(Buffers) \in Nat /\ Len(s) <= Cardinality(Buffers)
<1>1. IsFiniteSet(Buffers) /\ s \in [1 .. Len(s) -> Buffers] /\ Len(s) \in Nat
  BY SysArchAssumption, LenProperties DEF IsList
<1>2. s \in Injection(1 .. Len(s), Buffers)
  BY <1>1 DEF IsList, Injection, IsInjective
<1>3. Cardinality(1 .. Len(s)) <= Cardinality(Buffers)
  BY <1>1, <1>2, FS_Injection
<1>4. Cardinality(1 .. Len(s)) = Len(s)
  <2>1. Cardinality(1 .. Len(s)) = IF 1 > Len(s) THEN 0 ELSE Len(s) - 1 + 1
    <3>1. 1 \in Int /\ Len(s) \in Int
      BY <1>1
    <3> QED BY <3>1, FS_Interval, Zenon
  <2> QED BY <2>1, <1>1
<1> QED BY <1>1, <1>3, <1>4, FS_CardinalityType

\* Reached satisfies the recursion of Followed.
LEMMA ReachedStep ==
  ASSUME NEW s, NEW t, NEW n, IsList(s, t, n), NEW i \in Nat \ {0}
  PROVE  LET r == Reached(s, i - 1)
         IN  Reached(s, i) = IF r[Len(r)] = Null THEN r ELSE Append(r, n[r[Len(r)]])
<1> DEFINE r == Reached(s, i - 1)
<1>1. s \in [1 .. Len(s) -> Buffers] /\ Len(s) \in Nat /\ Null \notin Buffers
  BY SysArchAssumption, LenProperties DEF IsList
<1>2. CASE i > Len(s)
  <2>1. Reached(s, i) = r /\ Len(r) = Len(s) + 1 /\ r[Len(r)] = Null
    BY <1>1, <1>2 DEF Reached
  <2> QED BY <2>1
<1>3. CASE i <= Len(s)
  <2>1. r = [k \in 1 .. i |-> s[k]] /\ Len(r) = i /\ r[i] = s[i] /\ s[i] \in Buffers
    BY <1>1, <1>3 DEF Reached
  <2>2. n[s[i]] = IF i = Len(s) THEN Null ELSE s[i + 1]
    <3>1. i \in 1 .. Len(s)
      BY <1>1, <1>3
    <3> QED BY <3>1 DEF IsList
  <2>3. Reached(s, i) = [k \in 1 .. i + 1 |-> IF k <= Len(s) THEN s[k] ELSE Null]
    BY <1>1, <1>3 DEF Reached
  <2>4. Append(r, n[s[i]]) = [k \in 1 .. i + 1 |-> IF k <= Len(s) THEN s[k] ELSE Null]
    <3>1. r \in Seq(Buffers \cup {Null})
      BY <2>1, <1>1, <1>3
    <3>2. \A k \in 1 .. i + 1 : Append(r, n[s[i]])[k] = IF k <= Len(s) THEN s[k] ELSE Null
      BY <2>1, <2>2, <1>1, <1>3, <3>1
    <3> QED BY <2>1, <2>2, <1>1, <1>3, <3>1, <3>2
  <2> QED BY <1>1, <2>1, <2>3, <2>4
<1> QED BY <1>1, <1>2, <1>3

\* Free is the list, and the Null behind it.
LEMMA FreeIsList ==
  ASSUME NEW s, IsList(s, tab, next)
  PROVE  Free = Append(s, Null)
<1> DEFINE C == Cardinality(Buffers)
           W == [n \in 0 .. C |-> Reached(s, n)]
           Def(f, n) == IF n = 0 THEN <<tab>>
                        ELSE LET q == f[n - 1] IN
                             IF q[Len(q)] = Null THEN q ELSE Append(q, next[q[Len(q)]])
<1>1. C \in Nat /\ Len(s) \in Nat /\ Len(s) <= C /\ s \in [1 .. Len(s) -> Buffers] /\ s \in Seq(Buffers)
  BY ListFits, LenProperties DEF IsList
<1>2. Reached(s, 0) = <<tab>>
  <2>1. Reached(s, 0) = [k \in 1 .. 1 |-> IF k <= Len(s) THEN s[k] ELSE Null]
    BY <1>1 DEF Reached
  <2>2. \A k \in 1 .. 1 : tab = IF k <= Len(s) THEN s[k] ELSE Null
    <3>1. tab = IF 1 <= Len(s) THEN s[1] ELSE Null
      <4>1. tab = IF Len(s) = 0 THEN Null ELSE s[1]
        BY DEF IsList
      <4> QED BY <4>1, <1>1
    <3> QED BY <3>1
  <2>3. Reached(s, 0) = [k \in 1 .. 1 |-> tab]
    BY <2>1, <2>2
  <2> QED BY <2>3
<1>3. W = [n \in 0 .. C |-> Def(W, n)]
  <2> SUFFICES ASSUME NEW n \in 0 .. C PROVE W[n] = Def(W, n)
    OBVIOUS
  <2>1. CASE n = 0
    BY <2>1, <1>2
  <2>2. CASE n # 0
    <3>1. n \in Nat \ {0} /\ W[n] = Reached(s, n) /\ W[n - 1] = Reached(s, n - 1)
      BY <2>2, <1>1
    <3> QED BY <3>1, <2>2, ReachedStep
  <2> QED BY <2>1, <2>2
<1>4. Followed = [n \in 0 .. C |-> Def(Followed, n)]
  BY <1>3 DEF Followed
<1>5. \A n \in Nat : n \in 0 .. C => Followed[n] = Reached(s, n)
  <2> DEFINE S == {n \in Nat : n \in 0 .. C => Followed[n] = Reached(s, n)}
  <2>1. 0 \in S
    BY <1>1, <1>2, <1>4
  <2>2. ASSUME NEW n \in Nat, n \in S PROVE n + 1 \in S
    <3> SUFFICES ASSUME n + 1 \in 0 .. C PROVE Followed[n + 1] = Reached(s, n + 1)
      OBVIOUS
    <3>1. Followed[n + 1] = Def(Followed, n + 1)
      BY <1>4, <1>1 
    <3>2. Followed[n] = Reached(s, n) /\ n + 1 # 0 /\ (n + 1) - 1 = n /\ n + 1 \in Nat \ {0}
      BY <2>2, <1>1
    <3> QED BY <3>1, <3>2, ReachedStep
  <2> HIDE DEF S
  <2>3. Nat \subseteq S
    BY <2>1, <2>2, SetInduction
  <2> QED BY <2>3 DEF S
<1>6. Free = Reached(s, C)
  BY <1>1, <1>5 DEF Free
<1>7. Reached(s, C) = [k \in 1 .. Len(s) + 1 |-> IF k <= Len(s) THEN s[k] ELSE Null]
  BY <1>1 DEF Reached
<1>8. Append(s, Null) = [k \in 1 .. Len(s) + 1 |-> IF k <= Len(s) THEN s[k] ELSE Null]
  <2>1. s \in Seq(Buffers \cup {Null}) /\ Null \in Buffers \cup {Null}
    BY <1>1
  <2>2. Append(s, Null) \in Seq(Buffers \cup {Null}) /\ Len(Append(s, Null)) = Len(s) + 1
        /\ \A k \in 1 .. Len(s) : Append(s, Null)[k] = s[k]
        /\ Append(s, Null)[Len(s) + 1] = Null
    BY <2>1, AppendProperties
  <2>3. Append(s, Null) \in [1 .. Len(s) + 1 -> Buffers \cup {Null}]
    BY <2>2, LenProperties
  <2>4. \A k \in 1 .. Len(s) + 1 : Append(s, Null)[k] = IF k <= Len(s) THEN s[k] ELSE Null
    BY <2>2, <1>1
  <2> HIDE DEF C
  <2> QED BY <2>3, <2>4
<1> QED BY <1>6, <1>7, <1>8

-----------------------------------------------------------------------------
(* Where the buffers are. *)

InList(s, b) == \E k \in 1 .. Len(s) : s[k] = b
Queued(b) == \E k \in 1 .. Len(mbox) : mbox[k] = b

\* The list from tab, the mailbox and the thread share the buffers, and the half
\* of a free that was done is still right.
Whole(s) ==
  /\ IsList(s, tab, next)
  /\ \A j, k \in 1 .. Len(mbox) : mbox[j] = mbox[k] /\ mbox[j] \in Buffers => j = k
  /\ \A b \in Buffers :
       /\ InList(s, b) \/ Queued(b) \/ held = b
       /\ ~(InList(s, b) /\ Queued(b))
       /\ held = b => ~InList(s, b) /\ ~Queued(b)
  /\ section = "linked" => next[held] = tab

PoolShape ==
  /\ tab \in Buffers \cup {Null} /\ next \in [Buffers -> Buffers \cup {Null}]
  /\ held \in Buffers \cup {Null}
  /\ mbox \in Seq(Buffers \cup {Poll}) /\ Len(mbox) <= MboxSize
  /\ bitten \in BOOLEAN /\ section \in {"out", "in", "linked", "stored"}
  /\ section \in {"in", "linked"} => held # Null
  /\ section = "stored" => held = Null
  /\ section # "out" => job = "free"
  /\ job \notin {"page", "free"} => held = Null

\* Until an interrupt bites, some list is the pool.
PoolInv == PoolShape /\ (~bitten => \E s : Whole(s))

\* What a post and a fetch do to the mailbox.
LEMMA MailIn ==
  ASSUME PoolShape, NEW m \in Buffers \cup {Poll}, Post(m)
  PROVE  /\ mbox' \in Seq(Buffers \cup {Poll}) /\ Len(mbox') = Len(mbox) + 1 /\ Len(mbox') <= MboxSize
         /\ \A k \in 1 .. Len(mbox) : mbox'[k] = mbox[k]
         /\ mbox'[Len(mbox) + 1] = m
<1>1. mbox \in Seq(Buffers \cup {Poll}) /\ Len(mbox) \in Nat /\ MboxSize \in Nat
  BY SysArchAssumption, LenProperties DEF PoolShape
<1>2. mbox' = Append(mbox, m) /\ Len(mbox) < MboxSize
  BY DEF Post
<1> QED BY <1>1, <1>2, AppendProperties

LEMMA MailOut ==
  ASSUME PoolShape, Fetch
  PROVE  /\ Head(mbox) = mbox[1] /\ mbox[1] \in Buffers \cup {Poll} /\ Len(mbox) \in Nat \ {0}
         /\ mbox' \in Seq(Buffers \cup {Poll}) /\ Len(mbox') = Len(mbox) - 1 /\ Len(mbox') <= MboxSize
         /\ \A k \in 1 .. Len(mbox') : mbox'[k] = mbox[k + 1]
<1>1. mbox \in Seq(Buffers \cup {Poll}) /\ mbox # <<>> /\ mbox' = Tail(mbox) /\ Len(mbox) <= MboxSize
  BY DEF PoolShape, Fetch
<1>2. Len(mbox) \in Nat \ {0} /\ MboxSize \in Nat
  BY <1>1, EmptySeq, SysArchAssumption
<1>3. /\ Tail(mbox) \in Seq(Buffers \cup {Poll}) /\ Len(Tail(mbox)) = Len(mbox) - 1
      /\ \A k \in 1 .. Len(Tail(mbox)) : Tail(mbox)[k] = mbox[k + 1]
  BY <1>1, HeadTailProperties
<1>4. Head(mbox) = mbox[1] /\ mbox[1] \in Buffers \cup {Poll}
  BY <1>1, <1>2, ElementOfSeq
<1> QED BY <1>1, <1>2, <1>3, <1>4

LEMMA PoolInitially == Init => PoolInv
<1> SUFFICES ASSUME Init PROVE PoolInv
  OBVIOUS
<1> DEFINE C == Cardinality(Buffers)
<1>1. C \in Nat /\ ExistsBijection(1 .. C, Buffers)
  BY SysArchAssumption, FS_CardinalityType
<1>2. C # 0
  BY SysArchAssumption, FS_EmptySet
<1>3. PICK f : f \in Bijection(1 .. C, Buffers)
  BY <1>1 DEF ExistsBijection
<1>4. f \in [1 .. C -> Buffers] /\ \A b \in Buffers : \E k \in 1 .. C : f[k] = b
  BY <1>3 DEF Bijection, Surjection, Injection
<1>5. Order \in [1 .. C -> Buffers] /\ \A b \in Buffers : \E k \in 1 .. C : Order[k] = b
  <2>1. \E s \in [1 .. C -> Buffers] : \A b \in Buffers : \E k \in DOMAIN s : s[k] = b
    BY <1>4
  <2>2. /\ Order \in [1 .. C -> Buffers]
        /\ \A b \in Buffers : \E k \in DOMAIN Order : Order[k] = b
    BY <2>1 DEF Order
  <2> QED BY <2>2
<1>6. \A j, k \in 1 .. C : Order[j] = Order[k] => j = k
  <2>1. Order \in Surjection(1 .. C, Buffers)
    BY <1>5 DEF Surjection
  <2>2. IsFiniteSet(1 .. C) /\ Cardinality(1 .. C) = Cardinality(Buffers)
    <3>1. 1 \in Int /\ C \in Int
      BY <1>1
    <3>2. IsFiniteSet(1 .. C) /\ Cardinality(1 .. C) = IF 1 > C THEN 0 ELSE C - 1 + 1
      BY <3>1, FS_Interval, Zenon
    <3> QED BY <3>2, <1>1
  <2>3. Order \in Injection(1 .. C, Buffers)
    BY <2>1, <2>2, FS_SurjSameCardinalityImpliesInj
  <2> QED BY <2>3 DEF Injection, IsInjective
<1>7. Order \in Seq(Buffers) /\ Len(Order) = C /\ DOMAIN Order = 1 .. C
  BY <1>1, <1>5
<1>8. \A k \in 1 .. C : next[Order[k]] = IF k = C THEN Null ELSE Order[k + 1]
  <2> TAKE k \in 1 .. C
  <2> DEFINE At(b) == CHOOSE j \in DOMAIN Order : Order[j] = b
  <2>1. At(Order[k]) = k
    BY <1>6, <1>7
  <2>2. Order[k] \in Buffers
    BY <1>5
  <2>3. \A b \in Buffers : next[b] = IF At(b) = Len(Order) THEN Null ELSE Order[At(b) + 1]
    BY DEF Init, ArchInit
  <2> HIDE DEF At
  <2> QED BY <2>1, <2>2, <2>3, <1>7
<1>9. next \in [Buffers -> Buffers \cup {Null}]
  <2> SUFFICES ASSUME NEW b \in Buffers PROVE next[b] \in Buffers \cup {Null}
    BY DEF Init, ArchInit
  <2>1. PICK k \in 1 .. C : Order[k] = b
    BY <1>5
  <2> QED BY <2>1, <1>8, <1>5, <1>1
<1>10. PoolShape
  <2>1. mbox = <<>> /\ tab = Order[1] /\ held = Null /\ section = "out" /\ bitten = FALSE /\ job = "fetch"
    BY DEF Init, ArchInit
  <2>2. mbox \in Seq(Buffers \cup {Poll}) /\ Len(mbox) = 0
    BY <2>1
  <2>3. tab \in Buffers
    BY <2>1, <1>1, <1>2, <1>5
  <2>4. Len(mbox) <= MboxSize
    BY <2>2, SysArchAssumption
  <2> QED BY <1>9, <2>1, <2>2, <2>3, <2>4, Zenon DEF PoolShape
<1>11. IsList(Order, tab, next)
  BY <1>1, <1>2, <1>6, <1>7, <1>8 DEF IsList, Init, ArchInit
<1>12. Whole(Order)
  BY <1>1, <1>5, <1>7, <1>11, SysArchAssumption DEF Whole, InList, Queued, Init, ArchInit
<1> QED BY <1>10, <1>12 DEF PoolInv

-----------------------------------------------------------------------------
(* The steps. *)

LEMMA PoolUntouched ==
  ASSUME PoolInv, PoolShape', UNCHANGED <<tab, next, held, bitten, mbox>>,
         section' = "linked" => section = "linked"
  PROVE  PoolInv'
<1> SUFFICES ASSUME NEW s, Whole(s), ~bitten PROVE Whole(s)'
  BY DEF PoolInv
<1> QED BY DEF Whole, IsList, InList, Queued

\* The interrupt takes the first element off, unless it bites.
LEMMA ReceiveKeeps ==
  ASSUME PoolInv, Receive, UNCHANGED job
  PROVE  PoolInv'
<1> USE SysArchAssumption, NetAssumption
<1>1. /\ tab \in Buffers /\ tab # Null /\ tab' = next[tab] /\ Post(tab)
      /\ bitten' = (bitten \/ section = "linked")
      /\ next' = next /\ held' = held /\ section' = section /\ job' = job
  BY DEF PoolInv, PoolShape, Receive
<1>2. /\ mbox' \in Seq(Buffers \cup {Poll}) /\ Len(mbox') = Len(mbox) + 1 /\ Len(mbox') <= MboxSize
      /\ \A k \in 1 .. Len(mbox) : mbox'[k] = mbox[k]
      /\ mbox'[Len(mbox) + 1] = tab
  BY <1>1, MailIn DEF PoolInv
<1>3. mbox \in Seq(Buffers \cup {Poll}) /\ Len(mbox) \in Nat
  BY LenProperties DEF PoolInv, PoolShape
<1>4. PoolShape'
  BY <1>1, <1>2 DEF PoolInv, PoolShape
<1>5. ASSUME ~bitten' PROVE \E s : Whole(s)'
  <2>1. ~bitten /\ section # "linked"
    BY <1>1, <1>5 DEF PoolInv, PoolShape
  <2>2. PICK s : Whole(s)
    BY <2>1 DEF PoolInv
  <2>3. /\ s \in Seq(Buffers) /\ Len(s) \in Nat /\ Len(s) # 0 /\ s[1] = tab /\ s # <<>>
        /\ \A j, k \in 1 .. Len(s) : s[j] = s[k] => j = k
        /\ \A k \in 1 .. Len(s) : next[s[k]] = IF k = Len(s) THEN Null ELSE s[k + 1]
    BY <2>2, <1>1, LenProperties, EmptySeq DEF Whole, IsList
  <2>4. /\ Tail(s) \in Seq(Buffers) /\ Len(Tail(s)) = Len(s) - 1
        /\ \A k \in 1 .. Len(Tail(s)) : Tail(s)[k] = s[k + 1]
    BY <2>3, HeadTailProperties
  <2> DEFINE u == Tail(s)
  <2>5. /\ u \in Seq(Buffers) /\ Len(u) = Len(s) - 1 /\ \A k \in 1 .. Len(s) - 1 : u[k] = s[k + 1]
    BY <2>4
  <2> HIDE DEF u
  <2>6. IsList(u, tab', next')
    <3>1. \A j, k \in 1 .. Len(u) : u[j] = u[k] => j = k
      <4> TAKE j, k \in 1 .. Len(u)
      <4>1. j + 1 \in 1 .. Len(s) /\ k + 1 \in 1 .. Len(s) /\ u[j] = s[j + 1] /\ u[k] = s[k + 1]
        BY <2>3, <2>5
      <4> QED BY <4>1, <2>3, <2>5
    <3>2. tab' = (IF Len(u) = 0 THEN Null ELSE u[1])
      <4>1. 1 \in 1 .. Len(s) /\ tab' = next[s[1]]
        BY <2>3, <1>1
      <4>2. next[s[1]] = IF 1 = Len(s) THEN Null ELSE s[1 + 1]
        BY <4>1, <2>3
      <4> QED BY <4>1, <4>2, <2>3, <2>5
    <3>3. \A k \in 1 .. Len(u) : next'[u[k]] = IF k = Len(u) THEN Null ELSE u[k + 1]
      <4> TAKE k \in 1 .. Len(u)
      <4>1. k + 1 \in 1 .. Len(s) /\ u[k] = s[k + 1]
        BY <2>3, <2>5
      <4>2. next[s[k + 1]] = IF k + 1 = Len(s) THEN Null ELSE s[k + 1 + 1]
        BY <4>1, <2>3
      <4>3. k # Len(u) => u[k + 1] = s[k + 1 + 1]
        BY <2>3, <2>5
      <4> QED BY <4>1, <4>2, <4>3, <2>3, <2>5, <1>1
    <3> QED BY <2>5, <3>1, <3>2, <3>3 DEF IsList
  <2>7. \A b \in Buffers : InList(u, b) <=> InList(s, b) /\ b # tab
    <3> TAKE b \in Buffers
    <3>1. ASSUME InList(u, b) PROVE InList(s, b) /\ b # tab
      <4>1. PICK k \in 1 .. Len(u) : u[k] = b
        BY <3>1 DEF InList
      <4>2. k + 1 \in 1 .. Len(s) /\ s[k + 1] = b /\ 1 \in 1 .. Len(s) /\ k + 1 # 1
        BY <4>1, <2>3, <2>5
      <4> QED BY <4>2, <2>3 DEF InList
    <3>2. ASSUME InList(s, b), b # tab PROVE InList(u, b)
      <4>1. PICK k \in 1 .. Len(s) : s[k] = b
        BY <3>2 DEF InList
      <4>2. k # 1 /\ k - 1 \in 1 .. Len(u) /\ u[k - 1] = s[k - 1 + 1]
        BY <4>1, <3>2, <2>3, <2>5
      <4> QED BY <4>1, <4>2 DEF InList
    <3> QED BY <3>1, <3>2
  <2>8. \A b \in Buffers : Queued(b)' <=> Queued(b) \/ b = tab
    BY <1>2, <1>3 DEF Queued
  <2>9. InList(s, tab) /\ ~Queued(tab) /\ held # tab
    <3>1. InList(s, tab)
      BY <2>3 DEF InList
    <3> QED BY <3>1, <2>2, <1>1 DEF Whole
  <2>10. \A j, k \in 1 .. Len(mbox') : mbox'[j] = mbox'[k] /\ mbox'[j] \in Buffers => j = k
    <3>1. \A k \in 1 .. Len(mbox) : mbox[k] # tab
      BY <2>9 DEF Queued
    <3>2. \A j, k \in 1 .. Len(mbox) : mbox[j] = mbox[k] /\ mbox[j] \in Buffers => j = k
      BY <2>2 DEF Whole
    <3>3. \A k \in 1 .. Len(mbox') : k = Len(mbox) + 1 \/ (k \in 1 .. Len(mbox) /\ mbox'[k] = mbox[k])
      BY <1>2, <1>3
    <3> QED BY <3>1, <3>2, <3>3, <1>2
  <2>11. Whole(u)'
    BY <1>1, <2>1, <2>2, <2>6, <2>7, <2>8, <2>9, <2>10 DEF Whole
  <2> QED BY <2>11
<1> QED BY <1>4, <1>5 DEF PoolInv

\* The thread's buffer is in no list, so the list does not change with its link.
LEMMA FreeLinkKeeps ==
  ASSUME PoolInv, FreeLink, UNCHANGED job
  PROVE  PoolInv'
<1> USE SysArchAssumption, NetAssumption
<1>1. /\ held \in Buffers /\ next \in [Buffers -> Buffers \cup {Null}] /\ tab \in Buffers \cup {Null}
      /\ next' = [next EXCEPT ![held] = tab] /\ section' = "linked"
      /\ tab' = tab /\ mbox' = mbox /\ held' = held /\ bitten' = bitten
  BY DEF PoolInv, PoolShape, FreeLink
<1>2. PoolShape'
  BY <1>1 DEF PoolInv, PoolShape, FreeLink
<1>3. ASSUME NEW s, Whole(s) PROVE Whole(s)'
  <2>1. IsList(s, tab, next) /\ ~InList(s, held)
    BY <1>1, <1>3 DEF Whole
  <2>2. \A k \in 1 .. Len(s) : next'[s[k]] = next[s[k]]
    BY <1>1, <2>1 DEF InList
  <2>3. IsList(s, tab', next')
    BY <1>1, <2>1, <2>2 DEF IsList
  <2>4. next'[held'] = tab'
    BY <1>1
  <2> QED BY <1>1, <1>3, <2>3, <2>4 DEF Whole, InList, Queued
<1> QED BY <1>1, <1>2, <1>3 DEF PoolInv

\* A sequence with an element put in front of it.
LEMMA Pushed ==
  ASSUME NEW S, NEW x \in S, NEW s \in Seq(S)
  PROVE  \E u : /\ u \in Seq(S) /\ Len(u) = Len(s) + 1 /\ u[1] = x
                /\ \A k \in 1 .. Len(s) : u[k + 1] = s[k]
<1> DEFINE w == [k \in 1 .. Len(s) + 1 |-> IF k = 1 THEN x ELSE s[k - 1]]
<1>1. Len(s) \in Nat /\ \A k \in 1 .. Len(s) : s[k] \in S
  BY LenProperties, ElementOfSeq
<1>2. w \in [1 .. Len(s) + 1 -> S]
  <2> SUFFICES ASSUME NEW k \in 1 .. Len(s) + 1 PROVE (IF k = 1 THEN x ELSE s[k - 1]) \in S
    OBVIOUS
  <2>1. k # 1 => k - 1 \in 1 .. Len(s)
    BY <1>1
  <2> QED BY <2>1, <1>1
<1>3. w \in Seq(S) /\ Len(w) = Len(s) + 1
  BY <1>1, <1>2
<1>4. w[1] = x
  BY <1>1
<1>5. \A k \in 1 .. Len(s) : w[k + 1] = s[k]
  BY <1>1
<1> HIDE DEF w
<1> QED BY <1>3, <1>4, <1>5

\* The thread's buffer becomes the first element.
LEMMA FreeStoreKeeps ==
  ASSUME PoolInv, FreeStore, UNCHANGED job
  PROVE  PoolInv'
<1> USE SysArchAssumption, NetAssumption
<1>1. /\ held \in Buffers /\ section = "linked" /\ section' = "stored"
      /\ tab' = held /\ held' = Null
      /\ next' = next /\ mbox' = mbox /\ bitten' = bitten
  BY DEF PoolInv, PoolShape, FreeStore
<1>2. PoolShape'
  BY <1>1 DEF PoolInv, PoolShape, FreeStore
<1>3. ASSUME NEW s, Whole(s) PROVE \E u : Whole(u)'
  <2>1. /\ s \in Seq(Buffers) /\ Len(s) \in Nat /\ s \in [1 .. Len(s) -> Buffers]
        /\ \A j, k \in 1 .. Len(s) : s[j] = s[k] => j = k
        /\ tab = (IF Len(s) = 0 THEN Null ELSE s[1])
        /\ \A k \in 1 .. Len(s) : next[s[k]] = IF k = Len(s) THEN Null ELSE s[k + 1]
        /\ ~InList(s, held) /\ next[held] = tab
    BY <1>1, <1>3, LenProperties DEF Whole, IsList
  <2>2. PICK u : /\ u \in Seq(Buffers) /\ Len(u) = Len(s) + 1 /\ u[1] = held
                 /\ \A k \in 1 .. Len(s) : u[k + 1] = s[k]
    <3>1. held \in Buffers /\ s \in Seq(Buffers)
      BY <1>1, <2>1
    <3> QED BY <3>1, Pushed
  <2>3. Len(s) \in Nat /\ Len(u) \in Nat /\ Len(u) = Len(s) + 1
    BY <2>1, <2>2, LenProperties
  <2>4. \A k \in 1 .. Len(u) : k = 1 \/ (k - 1 \in 1 .. Len(s) /\ u[k] = s[k - 1])
    <3> TAKE k \in 1 .. Len(u)
    <3>1. k # 1 => k - 1 \in 1 .. Len(s) /\ k - 1 + 1 = k
      BY <2>3
    <3> QED BY <3>1, <2>2
  <2>5. \A k \in 1 .. Len(s) : s[k] # held
    BY <2>1 DEF InList
  <2>6. \A j, k \in 1 .. Len(u) : u[j] = u[k] => j = k
    <3> TAKE j, k \in 1 .. Len(u)
    <3>1. j = 1 \/ (j - 1 \in 1 .. Len(s) /\ u[j] = s[j - 1] /\ u[j] # held)
      BY <2>4, <2>5
    <3>2. k = 1 \/ (k - 1 \in 1 .. Len(s) /\ u[k] = s[k - 1] /\ u[k] # held)
      BY <2>4, <2>5
    <3>3. j - 1 \in 1 .. Len(s) /\ k - 1 \in 1 .. Len(s) /\ s[j - 1] = s[k - 1] => j - 1 = k - 1
      BY <2>1
    <3> QED BY <3>1, <3>2, <3>3, <2>2, <2>3
  <2>7. \A k \in 1 .. Len(u) : next'[u[k]] = IF k = Len(u) THEN Null ELSE u[k + 1]
    <3> TAKE k \in 1 .. Len(u)
    <3>1. CASE k = 1
      <4>1. Len(s) # 0 => u[1 + 1] = s[1]
        <5>1. Len(s) # 0 => 1 \in 1 .. Len(s)
          BY <2>3
        <5> QED BY <5>1, <2>2
      <4>2. tab = (IF Len(s) = 0 THEN Null ELSE s[1]) /\ next[held] = tab /\ u[1] = held
        BY <2>1, <2>2
      <4> QED BY <3>1, <4>1, <4>2, <2>3, <1>1
    <3>2. CASE k # 1
      <4>1. k - 1 \in 1 .. Len(s) /\ u[k] = s[k - 1]
        BY <3>2, <2>4
      <4>2. next[s[k - 1]] = IF k - 1 = Len(s) THEN Null ELSE s[k - 1 + 1]
        BY <4>1, <2>1
      <4>3. k # Len(u) => u[k + 1] = s[k]
        <5>1. k # Len(u) => k \in 1 .. Len(s)
          BY <2>3
        <5> QED BY <5>1, <2>2
      <4>4. k - 1 + 1 = k /\ (k - 1 = Len(s) <=> k = Len(u))
        BY <2>3
      <4> QED BY <4>1, <4>2, <4>3, <4>4, <1>1
    <3> QED BY <3>1, <3>2
  <2>8. IsList(u, tab', next')
    <3>1. tab' = (IF Len(u) = 0 THEN Null ELSE u[1])
      BY <1>1, <2>2, <2>3
    <3> QED BY <3>1, <2>2, <2>6, <2>7, Zenon DEF IsList
  <2>9. \A b \in Buffers : InList(u, b) <=> InList(s, b) \/ b = held
    <3> TAKE b \in Buffers
    <3>1. InList(u, b) => InList(s, b) \/ b = held
      BY <2>2, <2>4 DEF InList
    <3>2. InList(s, b) => InList(u, b)
      <4> SUFFICES ASSUME NEW k \in 1 .. Len(s), s[k] = b PROVE InList(u, b)
        BY DEF InList
      <4>1. k + 1 \in 1 .. Len(u)
        BY <2>3
      <4>2. u[k + 1] = b
        BY <2>2
      <4> QED BY <4>1, <4>2 DEF InList
    <3>3. b = held => InList(u, b)
      <4>1. 1 \in 1 .. Len(u)
        BY <2>3
      <4> QED BY <4>1, <2>2 DEF InList
    <3> QED BY <3>1, <3>2, <3>3
  <2>10. \A b \in Buffers : Queued(b)' <=> Queued(b)
    BY <1>1 DEF Queued
  <2>11. \A b \in Buffers :
            /\ InList(u, b) \/ Queued(b)' \/ held' = b
            /\ ~(InList(u, b) /\ Queued(b)')
            /\ held' = b => ~InList(u, b) /\ ~Queued(b)'
    <3>1. \A b \in Buffers :
            /\ InList(s, b) \/ Queued(b) \/ held = b
            /\ ~(InList(s, b) /\ Queued(b))
            /\ held = b => ~InList(s, b) /\ ~Queued(b)
      BY <1>3 DEF Whole
    <3> QED BY <3>1, <2>9, <2>10, <1>1
  <2>12. \A j, k \in 1 .. Len(mbox') : mbox'[j] = mbox'[k] /\ mbox'[j] \in Buffers => j = k
    BY <1>1, <1>3 DEF Whole
  <2>13. section' # "linked"
    BY <1>1
  <2>14. Whole(u)'
    BY <2>8, <2>11, <2>12, <2>13, Zenon DEF Whole, InList
  <2> QED BY <2>14
<1> QED BY <1>1, <1>2, <1>3 DEF PoolInv

\* What the thread fetches, a callback or a frame's buffer, leaves the mailbox.
LEMMA FetchKeeps ==
  ASSUME PoolInv, Fetch, job = "fetch", job' \in {"mode", "page", "free"},
         UNCHANGED <<tab, next, section, bitten>>,
         \/ Head(mbox) = Poll /\ held' = held /\ job' = "mode"
         \/ Head(mbox) # Poll /\ held' = Head(mbox) /\ job' # "mode"
  PROVE  PoolInv'
<1> USE SysArchAssumption, NetAssumption
<1>1. /\ Head(mbox) = mbox[1] /\ mbox[1] \in Buffers \cup {Poll} /\ Len(mbox) \in Nat \ {0}
      /\ mbox' \in Seq(Buffers \cup {Poll}) /\ Len(mbox') = Len(mbox) - 1 /\ Len(mbox') <= MboxSize
      /\ \A k \in 1 .. Len(mbox') : mbox'[k] = mbox[k + 1]
  BY MailOut DEF PoolInv
<1>2. held = Null /\ section = "out" /\ section' = "out" /\ tab' = tab /\ next' = next /\ bitten' = bitten
  BY DEF PoolInv, PoolShape
<1>3. PoolShape'
  BY <1>1, <1>2 DEF PoolInv, PoolShape
<1>4. ASSUME NEW s, Whole(s) PROVE Whole(s)'
  <2>1. \A j, k \in 1 .. Len(mbox) : mbox[j] = mbox[k] /\ mbox[j] \in Buffers => j = k
    BY <1>4 DEF Whole
  <2>2. \A b \in Buffers : Queued(b)' <=> Queued(b) /\ b # mbox[1]
    <3> TAKE b \in Buffers
    <3>1. ASSUME Queued(b)' PROVE Queued(b) /\ b # mbox[1]
      <4>1. PICK k \in 1 .. Len(mbox') : mbox'[k] = b
        BY <3>1 DEF Queued
      <4>2. k + 1 \in 1 .. Len(mbox) /\ mbox[k + 1] = b /\ k + 1 # 1 /\ 1 \in 1 .. Len(mbox)
        BY <4>1, <1>1
      <4> QED BY <4>2, <2>1 DEF Queued
    <3>2. ASSUME Queued(b), b # mbox[1] PROVE Queued(b)'
      <4>1. PICK k \in 1 .. Len(mbox) : mbox[k] = b
        BY <3>2 DEF Queued
      <4>2. k # 1 /\ k - 1 \in 1 .. Len(mbox') /\ mbox'[k - 1] = mbox[k - 1 + 1] /\ k - 1 + 1 = k
        BY <4>1, <3>2, <1>1
      <4> QED BY <4>1, <4>2 DEF Queued
    <3> QED BY <3>1, <3>2
  <2>3. \A j, k \in 1 .. Len(mbox') : mbox'[j] = mbox'[k] /\ mbox'[j] \in Buffers => j = k
    <3> TAKE j, k \in 1 .. Len(mbox')
    <3>1. j + 1 \in 1 .. Len(mbox) /\ k + 1 \in 1 .. Len(mbox) /\ mbox'[j] = mbox[j + 1] /\ mbox'[k] = mbox[k + 1]
      BY <1>1
    <3> QED BY <3>1, <2>1, <1>1
  <2>4. Queued(mbox[1])
    BY <1>1 DEF Queued
  <2>5. IsList(s, tab', next')
    BY <1>2, <1>4 DEF Whole
  <2>6. \A b \in Buffers : held' = b <=> b = mbox[1]
    BY <1>1, <1>2
  <2> QED BY <1>2, <1>4, <2>2, <2>3, <2>4, <2>5, <2>6 DEF Whole
<1> QED BY <1>2, <1>3, <1>4 DEF PoolInv

LEMMA PhyPostKeeps ==
  ASSUME PoolInv, Post(Poll), UNCHANGED <<poolVars, job>>
  PROVE  PoolInv'
<1> USE SysArchAssumption, NetAssumption
<1>1. /\ mbox' \in Seq(Buffers \cup {Poll}) /\ Len(mbox') = Len(mbox) + 1 /\ Len(mbox') <= MboxSize
      /\ \A k \in 1 .. Len(mbox) : mbox'[k] = mbox[k]
      /\ mbox'[Len(mbox) + 1] = Poll
  BY MailIn DEF PoolInv
<1>2. mbox \in Seq(Buffers \cup {Poll}) /\ Len(mbox) \in Nat
  BY LenProperties DEF PoolInv, PoolShape
<1>3. tab' = tab /\ next' = next /\ held' = held /\ section' = section /\ bitten' = bitten /\ job' = job
  BY DEF poolVars
<1>4. PoolShape'
  BY <1>1, <1>3 DEF PoolInv, PoolShape
<1>5. ASSUME NEW s, Whole(s) PROVE Whole(s)'
  <2>1. \A k \in 1 .. Len(mbox') : k = Len(mbox) + 1 \/ (k \in 1 .. Len(mbox) /\ mbox'[k] = mbox[k])
    BY <1>1, <1>2
  <2>2. \A b \in Buffers : Queued(b)' <=> Queued(b)
    BY <1>1, <1>2, <2>1 DEF Queued
  <2>3. \A j, k \in 1 .. Len(mbox') : mbox'[j] = mbox'[k] /\ mbox'[j] \in Buffers => j = k
    <3>1. \A j, k \in 1 .. Len(mbox) : mbox[j] = mbox[k] /\ mbox[j] \in Buffers => j = k
      BY <1>5 DEF Whole
    <3> QED BY <2>1, <3>1, <1>1
  <2>4. IsList(s, tab', next')
    BY <1>3, <1>5 DEF Whole
  <2> QED BY <1>3, <1>5, <2>2, <2>3, <2>4 DEF Whole
<1> QED BY <1>3, <1>4, <1>5 DEF PoolInv

LEMMA PoolStep == PoolInv /\ [Next]_vars => PoolInv'
<1> SUFFICES ASSUME PoolInv, [Next]_vars PROVE PoolInv'
  OBVIOUS
<1>1. PoolShape
  BY DEF PoolInv
<1>2. CASE PhyThread
  <2>1. CASE PhyEnter \/ PhyLeave \/ PhyWake
    <3>1. UNCHANGED <<poolVars, mbox, job>>
      BY <2>1 DEF PhyEnter, PhyLeave, PhyWake, archVars
    <3> QED BY <3>1, <1>1, PoolUntouched DEF poolVars, PoolShape
  <2>2. CASE PhyPost
    BY <2>2, PhyPostKeeps DEF PhyPost
  <2> QED BY <1>2, <2>1, <2>2 DEF PhyThread
<1>3. CASE TcpipThread
  <2>1. CASE FetchPoll
    BY <2>1, FetchKeeps DEF FetchPoll, poolVars
  <2>2. CASE \E j \in {"page", "free"} : FetchFrame(j)
    BY <2>2, FetchKeeps DEF FetchFrame
  <2>3. CASE PollLink
    <3>1. UNCHANGED <<poolVars, mbox>> /\ job \in {"mode", "link", "apply"}
      BY <2>3 DEF PollLink, archVars
    <3>2. PoolShape'
      BY <3>1, <1>1 DEF poolVars, PoolShape
    <3> QED BY <3>1, <3>2, PoolUntouched DEF poolVars
  <2>4. CASE PrintLog
    <3>1. UNCHANGED <<poolVars, mbox>> /\ job = "page" /\ job' \in {"page", "free"}
      BY <2>4 DEF PrintLog, archVars
    <3>2. PoolShape'
      BY <3>1, <1>1 DEF poolVars, PoolShape
    <3> QED BY <3>1, <3>2, PoolUntouched DEF poolVars
  <2>5. CASE FreeFrame
    <3>1. CASE FreeEnter(Tcpip) /\ UNCHANGED job
      <4>1. UNCHANGED <<tab, next, held, bitten, mbox, job>> /\ section' = "in" /\ held # Null /\ job = "free"
        BY <2>5, <3>1 DEF FreeEnter, FreeFrame
      <4>2. PoolShape'
        BY <4>1, <1>1 DEF PoolShape
      <4> QED BY <4>1, <4>2, PoolUntouched
    <3>2. CASE FreeLink /\ UNCHANGED job
      BY <3>2, FreeLinkKeeps
    <3>3. CASE FreeStore /\ UNCHANGED job
      BY <3>3, FreeStoreKeeps
    <3>4. CASE FreeLeave /\ job' = "fetch"
      <4>1. UNCHANGED <<tab, next, held, bitten, mbox>> /\ section = "stored" /\ section' = "out"
        BY <3>4 DEF FreeLeave
      <4>2. PoolShape'
        BY <4>1, <3>4, <1>1 DEF PoolShape
      <4> QED BY <4>1, <4>2, PoolUntouched
    <3> QED BY <2>5, <3>1, <3>2, <3>3, <3>4 DEF FreeFrame
  <2> QED BY <1>3, <2>1, <2>2, <2>3, <2>4, <2>5 DEF TcpipThread
<1>4. CASE EthIrq
  <2>1. CASE Receive
    BY <1>4, <2>1, ReceiveKeeps DEF EthIrq
  <2>2. CASE Refuse
    <3>1. UNCHANGED <<poolVars, mbox, job>>
      BY <1>4, <2>2 DEF EthIrq, Refuse, archVars
    <3> QED BY <3>1, <1>1, PoolUntouched DEF poolVars, PoolShape
  <2> QED BY <1>4, <2>1, <2>2 DEF EthIrq
<1>5. CASE Tim2Irq \/ Cable \/ UNCHANGED vars
  <2>1. UNCHANGED <<poolVars, mbox, job>>
    BY <1>5 DEF Tim2Irq, Cable, vars, archVars
  <2> QED BY <2>1, <1>1, PoolUntouched DEF poolVars, PoolShape
<1> QED BY <1>2, <1>3, <1>4, <1>5 DEF Next

-----------------------------------------------------------------------------
\* How often a sequence without repetitions has an element.
LEMMA OneOrNone ==
  ASSUME NEW f, NEW n \in Nat, NEW b, \A j, k \in 1 .. n : f[j] = b /\ f[k] = b => j = k
  PROVE  Cardinality({k \in 1 .. n : f[k] = b}) = IF \E k \in 1 .. n : f[k] = b THEN 1 ELSE 0
<1>1. CASE \E k \in 1 .. n : f[k] = b
  <2>1. PICK k \in 1 .. n : f[k] = b
    BY <1>1
  <2>2. {j \in 1 .. n : f[j] = b} = {k}
    BY <2>1
  <2> QED BY <1>1, <2>2, FS_Singleton
<1>2. CASE ~ \E k \in 1 .. n : f[k] = b
  <2>1. {j \in 1 .. n : f[j] = b} = {}
    BY <1>2
  <2> QED BY <1>2, <2>1, FS_EmptySet
<1> QED BY <1>1, <1>2

LEMMA PoolSaysIt == PoolInv => OnlyInterruptsCorrupt
<1> SUFFICES ASSUME PoolInv PROVE OnlyInterruptsCorrupt
  OBVIOUS
<1> USE SysArchAssumption, NetAssumption
<1>1. PoolShape /\ Len(mbox) \in Nat /\ DOMAIN mbox = 1 .. Len(mbox)
  BY LenProperties DEF PoolInv, PoolShape
<1>2. ASSUME ~bitten, NEW b \in Buffers PROVE InUse(b) + Listed(b) = 1
  <2>1. PICK s : Whole(s)
    BY <1>2 DEF PoolInv
  <2>2. /\ s \in Seq(Buffers) /\ Len(s) \in Nat /\ \A j, k \in 1 .. Len(s) : s[j] = s[k] => j = k
        /\ IsList(s, tab, next)
    BY <2>1, LenProperties DEF Whole, IsList
  <2>3. Free = Append(s, Null)
    BY <2>2, FreeIsList
  <2>4. /\ DOMAIN Free = 1 .. Len(s) + 1 /\ \A k \in 1 .. Len(s) : Free[k] = s[k]
        /\ Free[Len(s) + 1] = Null
    <3>1. s \in Seq(Buffers \cup {Null})
      BY <2>2
    <3> QED BY <3>1, <2>2, <2>3, AppendProperties, LenProperties
  <2>5. {k \in DOMAIN Free : Free[k] = b} = {k \in 1 .. Len(s) : s[k] = b}
    <3>1. Null # b
      OBVIOUS
    <3> QED BY <2>2, <2>4, <3>1
  <2>6. Listed(b) = IF InList(s, b) THEN 1 ELSE 0
    <3>1. \A j, k \in 1 .. Len(s) : s[j] = b /\ s[k] = b => j = k
      BY <2>2
    <3>2. Cardinality({k \in 1 .. Len(s) : s[k] = b}) = IF \E k \in 1 .. Len(s) : s[k] = b THEN 1 ELSE 0
      BY <2>2, <3>1, OneOrNone
    <3> QED BY <2>5, <3>2 DEF Listed, InList
  <2>7. Cardinality({k \in DOMAIN mbox : mbox[k] = b}) = IF Queued(b) THEN 1 ELSE 0
    <3>1. \A j, k \in 1 .. Len(mbox) : mbox[j] = b /\ mbox[k] = b => j = k
      BY <2>1 DEF Whole
    <3>2. Cardinality({k \in 1 .. Len(mbox) : mbox[k] = b}) = IF \E k \in 1 .. Len(mbox) : mbox[k] = b THEN 1 ELSE 0
      BY <3>1, <1>1, OneOrNone
    <3> QED BY <3>2, <1>1 DEF Queued
  <2>8. /\ InList(s, b) \/ Queued(b) \/ held = b
        /\ ~(InList(s, b) /\ Queued(b))
        /\ held = b => ~InList(s, b) /\ ~Queued(b)
    BY <2>1 DEF Whole
  <2> QED BY <2>6, <2>7, <2>8 DEF InUse
<1> QED BY <1>1, <1>2 DEF OnlyInterruptsCorrupt, PoolShape

\* Whatever the threads and the interrupts do, and however many buffers there are, a
\* buffer is lost or handed out twice only after an interrupt came while a thread was
\* between linking a buffer and storing it (sys_arch.c:448).
THEOREM PoolSound == Spec => []OnlyInterruptsCorrupt
<1>1. Init => PoolInv
  BY PoolInitially
<1>2. PoolInv /\ [Next]_vars => PoolInv'
  BY PoolStep
<1>3. PoolInv => OnlyInterruptsCorrupt
  BY PoolSaysIt
<1> QED BY <1>1, <1>2, <1>3, PTL DEF Spec
=============================================================================
