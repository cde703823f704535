--------------------------- MODULE WaveformPlayer ---------------------------
(***************************************************************************)
(* What the waveform player promises: the words of a file that was loaded  *)
(* are read back in their order, from the first to the last and over       *)
(* again, however often it is stopped and started in between, and nothing  *)
(* is read before the file is there.  A reading brings a burst of words.   *)
(***************************************************************************)
EXTENDS Naturals, Sequences, SequencesExt

CONSTANT Burst    \* words of a burst

VARIABLES
  loaded,   \* words of the file that have been sent
  out       \* the words of the reading made last

Init == loaded = 0 /\ out = <<>>

Load == out = <<>> /\ loaded' = loaded + 1 /\ UNCHANGED out

Before == IF out = <<>> THEN 0 ELSE Last(out)

Read ==
  /\ loaded > 0
  /\ \E n \in 1 .. Burst :
       out' = [i \in 1 .. n |-> ((Before + i - 1) % loaded) + 1]
  /\ UNCHANGED loaded

Safety == Init /\ [][Load \/ Read]_<<loaded, out>>
=============================================================================
