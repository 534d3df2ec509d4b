---------------------------- MODULE MCTimerSync ----------------------------
(* An instance of TimerSync for TLC: a second of 21000 ticks with the code's *)
(* own tolerance, gains and rate errors, a signal of one second with edges   *)
(* near the second's end, and one of 1.4 seconds.                            *)
EXTENDS TimerSync

Edges == {<<21000, 20570>>, <<28000, 6940>>}
RateErrors == {-6, 1}
=============================================================================
