---------------------------- MODULE MCIccNotify ----------------------------
(* An instance of IccNotify for TLC: the pipes of the link to the M7 core.  *)
(* With Gated the behaviours of a receiver that is ready from the start are *)
(* among those checked (SetReady may come first), and those of the link to  *)
(* the M4 core, which has only the byte pipe.                               *)
EXTENDS IccNotify
CONSTANTS task, isr

LinkPipes == <<"bytes", "values">>
LinkPipe == [w \in Writers |-> IF w = isr THEN "values" ELSE "bytes"]
LinkCapacity == [p \in {"bytes", "values"} |-> IF p = "bytes" THEN 2 ELSE 1]
=============================================================================
