----------------------------- MODULE MCSerialIo -----------------------------
(* Instances of SerialIo for TLC: the lengths of what task_startup prints.  *)
EXTENDS SerialIo
PrintsNothing == <<>>
PrintsTwice == <<1, 2>>
=============================================================================
