-------------------------------- MODULE SysArch --------------------------------
(***************************************************************************)
(* The port of lwIP to the RTOS as the receive path uses it: the pool of   *)
(* packet buffers, which lwIP keeps in a linked list and guards with       *)
(* sys_arch_protect, and the mailbox of the TCP/IP thread. The Ethernet    *)
(* interrupt takes buffers, and gives one back when the mailbox is full;   *)
(* threads give buffers back. In an interrupt osMutexAcquire returns an    *)
(* error that sys_arch_protect ignores.                                    *)
(***************************************************************************)
EXTENDS Naturals, FiniteSets, Sequences

CONSTANTS Buffers,   \* PBUF_POOL's buffers
          Null, MboxSize

ASSUME SysArchAssumption ==
  /\ IsFiniteSet(Buffers) /\ Buffers # {} /\ Null \notin Buffers
  /\ MboxSize \in Nat \ {0}

VARIABLES
  tab, next,  \* the pool: the first free buffer, and the one behind each
  mutex,      \* the holder of lwip_sys_mutex
  mbox,       \* the mailbox of the TCP/IP thread: a buffer, or a callback
  held,       \* the buffer the TCP/IP thread works on
  section,    \* where that thread is between protect and unprotect
  bitten      \* history: an interrupt took a buffer in the middle of a thread's free

poolVars == <<tab, next, held, section, bitten>>
archVars == <<poolVars, mutex, mbox>>

Nobody == "nobody"
Order == CHOOSE s \in [1 .. Cardinality(Buffers) -> Buffers] : \A b \in Buffers : \E k \in DOMAIN s : s[k] = b

ArchInit ==
  /\ tab = Order[1]
  /\ next = [b \in Buffers |->
       LET k == CHOOSE j \in DOMAIN Order : Order[j] = b IN
       IF k = Len(Order) THEN Null ELSE Order[k + 1]]
  /\ mutex = Nobody /\ mbox = <<>> /\ held = Null /\ section = "out" /\ bitten = FALSE

(* sys_arch_protect, sys_arch_unprotect in a thread. *)
Protect(p) == mutex = Nobody /\ mutex' = p

Unprotect == mutex' = Nobody

(* sys_mbox_post waits while the mailbox is full; sys_mbox_trypost does not. *)
Post(m) == Len(mbox) < MboxSize /\ mbox' = Append(mbox, m)

Fetch == mbox # <<>> /\ mbox' = Tail(mbox)

-----------------------------------------------------------------------------
(* ETHHW_ReadCallback: pbuf_alloc and the input function, which tries to post.
   With no buffer the frame stays with the driver (EthMac); one that cannot be
   posted goes back to the pool. *)
Receive ==
  /\ tab # Null /\ Len(mbox) < MboxSize
  /\ tab' = next[tab]
  /\ Post(tab)
  /\ bitten' = (bitten \/ section = "linked")
  /\ UNCHANGED <<next, mutex, held, section>>

\* Mutant: the buffer is not given back when the mailbox is full.
RefuseAndKeep ==
  /\ tab # Null /\ Len(mbox) = MboxSize
  /\ tab' = next[tab]
  /\ UNCHANGED <<next, mutex, mbox, held, section, bitten>>

Refuse ==
  /\ tab # Null /\ Len(mbox) = MboxSize
  /\ UNCHANGED archVars

-----------------------------------------------------------------------------
(* pbuf_free of a buffer of the pool in the TCP/IP thread. *)
FreeEnter(p) ==
  /\ section = "out" /\ held # Null
  /\ Protect(p)
  /\ section' = "in"
  /\ UNCHANGED <<tab, next, mbox, held, bitten>>

FreeLink ==
  /\ section = "in"
  /\ next' = [next EXCEPT ![held] = tab]
  /\ section' = "linked"
  /\ UNCHANGED <<tab, mutex, mbox, held, bitten>>

FreeStore ==
  /\ section = "linked"
  /\ tab' = held /\ held' = Null
  /\ section' = "stored"
  /\ UNCHANGED <<next, mutex, mbox, bitten>>

FreeLeave ==
  /\ section = "stored"
  /\ Unprotect
  /\ section' = "out"
  /\ UNCHANGED <<tab, next, mbox, held, bitten>>

-----------------------------------------------------------------------------
\* The list from tab over n links, up to its end.
Followed[n \in 0 .. Cardinality(Buffers)] ==
  IF n = 0 THEN <<tab>>
  ELSE LET s == Followed[n - 1] IN
       IF s[Len(s)] = Null THEN s ELSE Append(s, next[s[Len(s)]])

\* The buffers reached from tab.
Free == Followed[Cardinality(Buffers)]

InUse(b) ==
  Cardinality({k \in DOMAIN mbox : mbox[k] = b}) + (IF held = b THEN 1 ELSE 0)

Listed(b) == Cardinality({k \in DOMAIN Free : Free[k] = b})

\* Every buffer is in one place: free, in the mailbox, or with the thread. Only an
\* interrupt that touches the pool while a thread is inside sys_arch_protect, which
\* does not keep it out (sys_arch.c:448), can lose a buffer or hand it out twice.
OnlyInterruptsCorrupt ==
  /\ tab \in Buffers \cup {Null} /\ next \in [Buffers -> Buffers \cup {Null}]
  /\ held \in Buffers \cup {Null} /\ Len(mbox) <= MboxSize
  /\ ~bitten => \A b \in Buffers : InUse(b) + Listed(b) = 1
=============================================================================
