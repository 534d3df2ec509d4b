------------------------------- MODULE Display -------------------------------
(***************************************************************************)
(* The round display of the M7 core: the link interrupt stores measured    *)
(* frequencies, the start-up task redraws the screen when it sees a change *)
(* and remembers what it saw (task_startup). A measurement is any value,   *)
(* one that was there before included. Drawing is blocking (USE_DMA is 0), *)
(* so one redraw is one step; lcdMutex has no other user.                  *)
(***************************************************************************)
EXTENDS Integers

CONSTANTS
  Channels,   \* 0 .. 3
  Measured,   \* the channels the interrupt stores into
  MaxValue    \* bound: the frequencies are 0 .. MaxValue, 0 before any measurement

ASSUME DisplayAssumption ==
  /\ Channels = 0 .. 3 /\ Measured \subseteq Channels
  /\ MaxValue \in Nat

VARIABLES
  channels, prevChannels,  \* as in main.c
  args,    \* what the running GC9A01_DisplayUpdate was called with
  shown,   \* what the screen shows
  displayPc, channel,  \* the task, and its loop variable i
  raced,   \* history: channels stored between the load of args and of prevChannels
  repeats  \* history: channels that went back to prevChannels under another screen

displayVars == <<channels, prevChannels, args, shown, displayPc, channel, raced, repeats>>

Zero == [c \in Channels |-> 0]

DisplayInit ==
  /\ channels = Zero /\ prevChannels = Zero /\ args = Zero /\ shown = Zero
  /\ displayPc = "first" /\ channel = 0
  /\ raced = {} /\ repeats = {}

(* icc_recv_variable_cb. *)
Measure(c, freq) ==
  /\ channels' = [channels EXCEPT ![c] = freq]
  /\ raced' = IF displayPc \in {"redraw", "remember"} THEN raced \cup {c} ELSE raced
  /\ repeats' = IF freq = prevChannels[c] /\ shown[c] # freq THEN repeats \cup {c} ELSE repeats \ {c}
  /\ UNCHANGED <<prevChannels, args, shown, displayPc, channel>>

(* The first GC9A01_DisplayUpdate, before the loop; it remembers nothing.   *)
First ==
  /\ displayPc = "first"
  /\ shown' = channels
  /\ displayPc' = "check"
  /\ repeats' = {}
  /\ UNCHANGED <<channels, prevChannels, args, channel, raced>>

\* Mutant: the loop starts behind the first channel.
CheckNotFirst ==
  /\ displayPc = "check" /\ channel \in Channels
  /\ IF channel # 0 /\ channels[channel] # prevChannels[channel]
     THEN displayPc' = "load" /\ UNCHANGED channel
     ELSE channel' = channel + 1 /\ UNCHANGED displayPc
  /\ UNCHANGED <<channels, prevChannels, args, shown, raced, repeats>>

CheckChannel ==
  /\ displayPc = "check" /\ channel \in Channels
  /\ IF channels[channel] # prevChannels[channel]
     THEN displayPc' = "load" /\ UNCHANGED channel
     ELSE channel' = channel + 1 /\ UNCHANGED displayPc
  /\ UNCHANGED <<channels, prevChannels, args, shown, raced, repeats>>

(* The arguments of the call. *)
LoadArgs ==
  /\ displayPc = "load"
  /\ args' = channels
  /\ raced' = {} /\ repeats' = {}
  /\ displayPc' = "redraw"
  /\ UNCHANGED <<channels, prevChannels, shown, channel>>

\* Mutant: what was last remembered is drawn.
RedrawPrevious ==
  /\ displayPc = "redraw"
  /\ shown' = prevChannels
  /\ displayPc' = "remember"
  /\ UNCHANGED <<channels, prevChannels, args, channel, raced, repeats>>

Redraw ==
  /\ displayPc = "redraw"
  /\ shown' = args
  /\ displayPc' = "remember"
  /\ UNCHANGED <<channels, prevChannels, args, channel, raced, repeats>>

(* channels[channel] is loaded again, not what was drawn. *)
Remember ==
  /\ displayPc = "remember"
  /\ prevChannels' = [prevChannels EXCEPT ![channel] = channels[channel]]
  /\ channel' = channel + 1
  /\ displayPc' = "check"
  /\ UNCHANGED <<channels, args, shown, raced, repeats>>

(* osDelay(1000). *)
Sleep ==
  /\ displayPc = "check" /\ channel \notin Channels
  /\ displayPc' = "sleep"
  /\ UNCHANGED <<channels, prevChannels, args, shown, channel, raced, repeats>>

Wake ==
  /\ displayPc = "sleep"
  /\ displayPc' = "check" /\ channel' = 0
  /\ UNCHANGED <<channels, prevChannels, args, shown, raced, repeats>>

TaskStep == First \/ CheckChannel \/ LoadArgs \/ Redraw \/ Remember \/ Sleep \/ Wake

DisplayNext == (\E c \in Measured, freq \in 0 .. MaxValue : Measure(c, freq)) \/ TaskStep

(* The task is the only one of its core that is ready most of the time. *)
DisplaySpec == DisplayInit /\ [][DisplayNext]_displayVars /\ WF_displayVars(TaskStep)

-----------------------------------------------------------------------------
(* Properties. *)

\* Type invariant.
DisplayTypeOK ==
  LET Values == [Channels -> 0 .. MaxValue] IN
  /\ channels \in Values /\ prevChannels \in Values /\ args \in Values /\ shown \in Values
  /\ displayPc \in {"first", "check", "load", "redraw", "remember", "sleep"}
  /\ channel \in 0 .. 4 /\ raced \subseteq Channels /\ repeats \subseteq Channels

\* The types hold, and a value that the loop takes for shown is on the screen, with
\* two exceptions: a measurement came in during the redraw (main.c:198-201), or it
\* went back to the remembered value (main.c:198) after the first screen, or the
\* redraw for another channel, had shown a different one.
OnlyTheRaceLoses ==
  /\ DisplayTypeOK
  /\ \A c \in Channels \ (raced \cup repeats) : displayPc \in {"check", "sleep"} =>
       shown[c] = channels[c] \/ channels[c] # prevChannels[c]

\* A measurement that the sleeping task finds reaches the screen, or a newer
\* one arrives meanwhile.
FoundAsleepIsShown ==
  \A c \in Measured : \A v \in 0 .. MaxValue :
    (channels[c] = v /\ displayPc = "sleep" /\ c \notin raced \cup repeats)
      ~> (shown[c] = v \/ channels[c] # v)
=============================================================================
