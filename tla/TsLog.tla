-------------------------------- MODULE TsLog --------------------------------
(***************************************************************************)
(* The log of the last captures: TIM2's interrupt overwrites the oldest    *)
(* line, the web server prints the lines from the oldest on and loads the  *)
(* head anew for each. Captures are numbered; 0 is a line never written.   *)
(* A line is copied in two halves.                                         *)
(***************************************************************************)
EXTENDS Integers, Sequences

CONSTANTS LogSize,      \* TSLOG_SIZE
          Room,         \* lines that fit into the server's insertion buffer
          MaxCaptures   \* bound: captures

ASSUME TsLogAssumption ==
  LogSize \in Nat \ {0} /\ Room \in 1 .. LogSize /\ MaxCaptures \in Nat

VARIABLES
  log, head,   \* timestampLog, tslog_head
  captures,    \* captures so far
  line,        \* the page's line being printed: its slot, its first half, ...
  page         \* the lines printed; lapped (history): the captures caught up with it

logVars == <<log, head, captures, line, page>>

NoLine == [slot |-> -1, first |-> 0, since |-> 0]

LogInit ==
  /\ log = [k \in 0 .. LogSize - 1 |-> 0] /\ head = 0 /\ captures = 0
  /\ line = NoLine /\ page = <<>>

(* tslog_add, in the interrupt. *)
Capture ==
  /\ captures < MaxCaptures
  /\ captures' = captures + 1
  /\ log' = [log EXCEPT ![head] = captures + 1]
  /\ head' = (head + 1) % LogSize
  /\ UNCHANGED <<line, page>>

\* Mutant: from the newest line back.
FindLineBackwards ==
  /\ line = NoLine
  /\ line' = [slot |-> (head + LogSize - 1 - Len(page)) % LogSize, first |-> -1, since |-> captures]
  /\ UNCHANGED <<log, head, captures, page>>

(* ssi_handler, tag tslog: one turn of its loop. *)
FindLine ==
  /\ line = NoLine
  /\ line' = [slot |-> (head + Len(page)) % LogSize, first |-> -1, since |-> captures]
  /\ UNCHANGED <<log, head, captures, page>>

FirstHalf ==
  /\ line # NoLine /\ line.first = -1
  /\ line' = [line EXCEPT !.first = log[line.slot]]
  /\ UNCHANGED <<log, head, captures, page>>

SecondHalf ==
  /\ line.first # -1 /\ line # NoLine
  /\ page' = Append(page, [first  |-> line.first, second |-> log[line.slot],
                           lapped |-> captures - line.since > Len(page)])
  /\ line' = NoLine
  /\ UNCHANGED <<log, head, captures>>

PageDone == Len(page) = Room

Send ==
  /\ PageDone
  /\ page' = <<>>
  /\ UNCHANGED <<log, head, captures, line>>

LogTypeOK ==
  /\ log \in [0 .. LogSize - 1 -> 0 .. MaxCaptures] /\ head \in 0 .. LogSize - 1
  /\ captures \in 0 .. MaxCaptures
  /\ line.slot \in -1 .. LogSize - 1 /\ Len(page) <= Room

\* The page shows the log in the order of time: whatever captures come while it is
\* printed, lines may be skipped, none comes twice or before an older one, and a
\* line is of one piece, unless so many captures came while it was printed that
\* they reached it: more than the lines above it (timersync.c:24, http_sever.c:54).
PageIsLog ==
  /\ LogTypeOK
  /\ \A k \in DOMAIN page : ~page[k].lapped => page[k].first = page[k].second
  /\ \A j, k \in DOMAIN page : j < k /\ ~page[j].lapped /\ ~page[k].lapped /\ page[j].first # 0 =>
       page[j].first < page[k].first
=============================================================================
