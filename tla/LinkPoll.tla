------------------------------- MODULE LinkPoll -------------------------------
(***************************************************************************)
(* What the network does about the cable: fetch_link_properties asks the   *)
(* PHY for the negotiated mode and for the link, in this order, and sets   *)
(* up the MAC and the interface when the link changed. The link bit of the *)
(* PHY's status register latches: after the link was down, the first read  *)
(* says so, whatever came since. A mode is speed and duplex.               *)
(***************************************************************************)
EXTENDS Naturals

CONSTANT Modes   \* what can be negotiated

VARIABLES
  phyUp, phyMode, latch,  \* the PHY: the link, its mode, "was down since it was read"
  status,                 \* linkStatus of phy_common.c
  linkState,              \* as in eth_drv_lwip.c; init: a poll was finished
  mac, netifUp            \* MACCR's speed and duplex; the interface's link flag

phyVars  == <<phyUp, phyMode, latch>>
linkVars == <<phyVars, status, linkState, mac, netifUp>>

LinkInit ==
  /\ phyUp \in BOOLEAN /\ phyMode \in Modes /\ latch = TRUE
  /\ mac \in Modes
  /\ status = [up |-> FALSE, mode |-> mac]
  /\ linkState = [up |-> FALSE, init |-> FALSE] /\ netifUp = FALSE

(* The cable, or the other end. A mode is negotiated anew when the link comes up. *)
LinkDown ==
  /\ phyUp
  /\ phyUp' = FALSE /\ latch' = TRUE
  /\ UNCHANGED <<phyMode, status, linkState, mac, netifUp>>

LinkUp(m) ==
  /\ ~phyUp
  /\ phyUp' = TRUE /\ phyMode' = m
  /\ UNCHANGED <<latch, status, linkState, mac, netifUp>>

(* phy_fetch_link_status_LAN8720A. *)
ReadMode ==
  /\ status' = [status EXCEPT !.mode = phyMode]
  /\ UNCHANGED <<phyVars, linkState, mac, netifUp>>

\* Mutant: the status register is read twice, which loses the latched bit.
ReadLinkTwice ==
  /\ status' = [status EXCEPT !.up = phyUp]
  /\ latch' = ~phyUp
  /\ UNCHANGED <<phyUp, phyMode, linkState, mac, netifUp>>

ReadLink ==
  /\ status' = [status EXCEPT !.up = phyUp /\ ~latch]
  /\ latch' = ~phyUp
  /\ UNCHANGED <<phyUp, phyMode, linkState, mac, netifUp>>

\* Mutant: the interface is only ever taken down.
ApplyDown ==
  /\ linkState' = [up |-> status.up, init |-> TRUE]
  /\ IF linkState.up # status.up \/ ~linkState.init
     THEN netifUp' = FALSE /\ mac' = IF status.up THEN status.mode ELSE mac
     ELSE UNCHANGED <<netifUp, mac>>
  /\ UNCHANGED <<phyVars, status>>

(* The rest of fetch_link_properties. *)
Apply ==
  /\ linkState' = [up |-> status.up, init |-> TRUE]
  /\ IF linkState.up # status.up \/ ~linkState.init
     THEN netifUp' = status.up /\ mac' = IF status.up THEN status.mode ELSE mac
     ELSE UNCHANGED <<netifUp, mac>>
  /\ UNCHANGED <<phyVars, status>>

LinkTypeOK ==
  /\ phyUp \in BOOLEAN /\ phyMode \in Modes /\ latch \in BOOLEAN
  /\ status \in [up : BOOLEAN, mode : Modes]
  /\ linkState \in [up : BOOLEAN, init : BOOLEAN]
  /\ mac \in Modes /\ netifUp \in BOOLEAN
=============================================================================
