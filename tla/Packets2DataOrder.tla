------------------------- MODULE Packets2DataOrder -------------------------
(***************************************************************************)
(* Packets2Data with one history variable, last: the word that left        *)
(* packets2data last.                                                      *)
(***************************************************************************)
EXTENDS Packets2Data

VARIABLE last

OrderInit == Init /\ last = NoWord
OrderNext == \/ Arrive /\ UNCHANGED last
             \/ Clock /\ last' = IF smpl_buff_valid THEN smpl_buff_q ELSE last
OrderSpec == OrderInit /\ [][OrderNext]_<<vars, last>>
FairOrderSpec == OrderSpec /\ Fairness

Last(w) == w = NoWord \/ w.idx = 2 * Payload(stream[w.pkt].size)

\* What leaves packets2data are whole payloads in the order of the packets:
\* the first word of a later packet comes only after the last word of the one
\* before, and no word is lost or repeated when the read side is held by a
\* full sample FIFO or switches to the next buffer.
SamplesInOrder ==
  smpl_buff_valid => IF Last(last) THEN smpl_buff_q.pkt > last.pkt /\ smpl_buff_q.idx = 1
                     ELSE FollowsInPacket(last, smpl_buff_q)
=============================================================================
