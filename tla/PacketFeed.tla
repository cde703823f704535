------------------------------ MODULE PacketFeed ------------------------------
(***************************************************************************)
(* What the head of the transmit path promises the reader behind it,       *)
(* whatever the FIFOs, counters and resets in between: the host's packets  *)
(* one after the other, and of each its header and then either every other *)
(* word, in order, or, when the reader wants no more of it, none.          *)
(* Packets2Data takes its input to be this.                                *)
(***************************************************************************)
EXTENDS Naturals

CONSTANTS
  SizeFields,  \* the values of the size field of a header
  Length       \* Length[f]: the words of a packet with size field f

VARIABLES
  last,        \* the word the reader got last
  rest         \* words of its packet the reader still gets

Init == last = [pkt |-> 0, idx |-> 0, size |-> 0] /\ rest = 0

Header ==
  /\ rest = 0
  /\ \E f \in SizeFields :
       /\ last' = [pkt |-> last.pkt + 1, idx |-> 1, size |-> f]
       /\ rest' = Length[f] - 1

Drop == rest > 0 /\ last.idx = 1 /\ rest' = 0 /\ UNCHANGED last

Word ==
  /\ rest > 0
  /\ last' = [last EXCEPT !.idx = @ + 1]
  /\ rest' = rest - 1

Next == Header \/ Drop \/ Word
Safety == Init /\ [][Next]_<<last, rest>>
=============================================================================
