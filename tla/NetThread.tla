------------------------------- MODULE NetThread -------------------------------
(***************************************************************************)
(* The TCP/IP thread of the M4 core and those who keep it busy: the link   *)
(* thread calls it back every half second to look at the cable, the        *)
(* Ethernet interrupt posts frames, and a frame may ask the web server for *)
(* the capture log. The thread does one thing at a time; the interrupts of *)
(* TIM2 and of the Ethernet come at any step.                              *)
(***************************************************************************)
EXTENDS LinkPoll, TsLog, SysArch

CONSTANTS Poll,        \* the message that calls fetch_link_properties back
          Tcpip, Phy   \* the two threads

ASSUME NetAssumption == Poll \notin Buffers /\ Nobody \notin {Tcpip, Phy} /\ Tcpip # Phy

VARIABLES
  job,     \* what the TCP/IP thread is at
  phyPc    \* phy_thread

vars == <<linkVars, logVars, archVars, job, phyPc>>

Init ==
  /\ LinkInit /\ LogInit /\ ArchInit
  /\ job = "fetch" /\ phyPc = "callback"

-----------------------------------------------------------------------------
(* phy_thread. tcpip_callback takes its message from another pool, under the same
   mutex, and then posts it. *)
PhyEnter ==
  /\ phyPc = "callback" /\ Protect(Phy)
  /\ phyPc' = "alloc"
  /\ UNCHANGED <<linkVars, logVars, poolVars, mbox, job>>

PhyLeave ==
  /\ phyPc = "alloc" /\ Unprotect
  /\ phyPc' = "post"
  /\ UNCHANGED <<linkVars, logVars, poolVars, mbox, job>>

PhyPost ==
  /\ phyPc = "post" /\ Post(Poll)
  /\ phyPc' = "delay"
  /\ UNCHANGED <<linkVars, logVars, poolVars, mutex, job>>

(* osDelay(500): the thread has polled by then. *)
PhyWake ==
  /\ phyPc = "delay"
  /\ phyPc' = "callback"
  /\ UNCHANGED <<linkVars, logVars, archVars, job>>

PhyThread == PhyEnter \/ PhyLeave \/ PhyPost \/ PhyWake

-----------------------------------------------------------------------------
(* The TCP/IP thread. *)
FetchPoll ==
  /\ job = "fetch" /\ Fetch /\ Head(mbox) = Poll
  /\ job' = "mode"
  /\ UNCHANGED <<linkVars, logVars, poolVars, mutex, phyPc>>

FetchFrame(use) ==
  /\ job = "fetch" /\ Fetch /\ Head(mbox) # Poll
  /\ held' = Head(mbox)
  /\ job' = use
  /\ UNCHANGED <<linkVars, logVars, tab, next, section, bitten, mutex, phyPc>>

PollLink ==
  /\ \/ job = "mode" /\ ReadMode /\ job' = "link"
     \/ job = "link" /\ ReadLink /\ job' = "apply"
     \/ job = "apply" /\ Apply /\ job' = "fetch"
  /\ UNCHANGED <<logVars, archVars, phyPc>>

PrintLog ==
  /\ job = "page"
  /\ \/ ~PageDone /\ (FindLine \/ FirstHalf \/ SecondHalf) /\ UNCHANGED job
     \/ Send /\ job' = "free"
  /\ UNCHANGED <<linkVars, archVars, phyPc>>

FreeFrame ==
  /\ job = "free"
  /\ \/ (FreeEnter(Tcpip) \/ FreeLink \/ FreeStore) /\ UNCHANGED job
     \/ FreeLeave /\ job' = "fetch"
  /\ UNCHANGED <<linkVars, logVars, phyPc>>

TcpipThread ==
  \/ FetchPoll \/ \E j \in {"page", "free"} : FetchFrame(j)
  \/ PollLink \/ PrintLog \/ FreeFrame

-----------------------------------------------------------------------------
(* Interrupts, and the cable. *)
EthIrq ==
  /\ ~bitten   \* bound: what a corrupted pool leads to is not followed
  /\ Receive \/ Refuse
  /\ UNCHANGED <<linkVars, logVars, job, phyPc>>

Tim2Irq == Capture /\ UNCHANGED <<linkVars, archVars, job, phyPc>>

Cable ==
  /\ LinkDown \/ \E m \in Modes : LinkUp(m)
  /\ UNCHANGED <<logVars, archVars, job, phyPc>>

Next == PhyThread \/ TcpipThread \/ EthIrq \/ Tim2Irq \/ Cable

(* The two threads go on; nobody is assumed to send, to measure or to plug. *)
Spec == Init /\ [][Next]_vars /\ WF_vars(PhyThread) /\ WF_vars(TcpipThread)

-----------------------------------------------------------------------------
(* Properties. *)

\* Between polls, when the interface is up and the link has not been down since it
\* was asked for, the MAC has the PHY's speed and duplex: a link that went down and
\* came up with another mode between two polls, or between the two registers of one
\* poll, is noticed, though only changes of up and down are (eth_drv_lwip.c:68).
MacFits ==
  /\ LinkTypeOK
  /\ job \notin {"mode", "link", "apply"} /\ netifUp /\ phyUp /\ ~latch => mac = phyMode

\* When the cable is left alone and the frames leave room for a poll, the interface
\* follows the cable, and the MAC its mode (eth_drv_lwip.c:64-102).
LinkFollows ==
  <>[][~Cable /\ ~EthIrq]_vars => <>[](netifUp = phyUp /\ (phyUp => mac = phyMode))
=============================================================================
