--------------------------- MODULE MCPackets2Data ---------------------------
(***************************************************************************)
(* Packets2DataOrder on small streams.                                     *)
(***************************************************************************)
EXTENDS Packets2DataOrder

\* Streams of three packets: a full one and short ones, in time, late and
\* without synchronisation.
H(s, n, d) == [size |-> s, nr |-> n, dis |-> d]
MCStreams == {<<H(0, 12, FALSE), H(1, 13, FALSE), H(2, 20, FALSE)>>,
              <<H(1, 0, TRUE), H(2, 3, FALSE), H(1, 22, FALSE)>>,
              <<H(2, 24, FALSE), H(0, 6, FALSE), H(0, 0, TRUE)>>}
=============================================================================
