---------------------------- MODULE BlockingFifo ----------------------------
(***************************************************************************)
(* The byte ring under the serial output of the M7 core and the command    *)
(* line of the M4 core (blocking_fifo.c, the same file on both cores): its *)
(* index arithmetic and its two semaphores. readIdx = writeIdx means empty,*)
(* and nothing keeps a push from making them equal by filling the ring.    *)
(***************************************************************************)
EXTENDS Integers, Sequences

CONSTANT Size

ASSUME FifoAssumption == Size \in Nat \ {0}

Indices == 0 .. Size - 1

\* bfifo_get_used, with the two loads of writeIdx the -O0 build makes: one for
\* the comparison, one for the value.
Used(r, w1, w2) == (IF r > w1 THEN w2 + Size ELSE w2) - r

Smaller(a, b) == IF a < b THEN a ELSE b

\* Mutant: the index sticks at the end of the ring.
AdvanceNoRoll(i, n) == Smaller(i + n, Size - 1)

\* Moving an index on by n.
Advance(i, n) == IF i + n >= Size THEN i + n - Size ELSE i + n

\* The memory after data is copied to it from index w on, in two blocks if it
\* runs over the end.
Written(mem, w, data) ==
  [i \in Indices |-> LET k == (i - w) % Size
                     IN  IF k < Len(data) THEN data[k + 1] ELSE mem[i]]

\* n bytes of the memory from index r on.
Bytes(mem, r, n) == [k \in 1 .. n |-> mem[(r + k - 1) % Size]]
=============================================================================
