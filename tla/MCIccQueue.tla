---------------------------- MODULE MCIccQueue ----------------------------
(* Instances of IccQueue for TLC. *)
EXTENDS IccQueue
CONSTANTS task, isr
===========================================================================
