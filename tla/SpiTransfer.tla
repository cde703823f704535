----------------------------- MODULE SpiTransfer -----------------------------
(***************************************************************************)
(* What a caller of alt_avalon_spi_command relies on, whatever the polling *)
(* in it: while its call lasts, the slave it names, and no other, is       *)
(* selected once and is sent the bytes of the call and then a zero for     *)
(* each byte to be read; and the caller gets what the slave returned with  *)
(* those zeros.                                                            *)
(*                                                                         *)
(* Bytes are known by their place: the k-th byte of write_data is k, a     *)
(* zero is 0, and what the slave returns with the k-th byte it is sent is  *)
(* k.                                                                      *)
(***************************************************************************)
EXTENDS Integers, Sequences

CONSTANT Calls  \* [slave, write, read]: whom, and how many bytes each way

ASSUME CallsOK ==
  Calls \subseteq [slave : Nat, write : Nat \ {0}, read : Nat]

NoCall == [slave |-> 0, write |-> 0, read |-> 0]

\* The k-th byte sent in a call, and the whole of what is sent and got.
ByteOf(c, k) == IF k <= c.write THEN k ELSE 0
SentIn(c) == [k \in 1 .. c.write + c.read |-> ByteOf(c, k)]
GotIn(c) == [j \in 1 .. c.read |-> c.write + j]

VARIABLES
  call,     \* the arguments of the call under way
  outcome   \* of the last call: the slave selected, what it saw, what was read

Init ==
  /\ call = NoCall
  /\ outcome = [slave |-> 0, sent |-> <<>>, got |-> <<>>]

Call ==
  /\ call = NoCall
  /\ call' \in Calls
  /\ UNCHANGED outcome

Transfer ==
  /\ call # NoCall
  /\ call' = NoCall
  /\ outcome' = [slave |-> call.slave, sent |-> SentIn(call), got |-> GotIn(call)]

Next == Call \/ Transfer
Safety == Init /\ [][Next]_<<call, outcome>>
Spec == Safety /\ WF_<<call, outcome>>(Transfer)
=============================================================================
