----------------------------- MODULE MCSpiCommand -----------------------------
EXTENDS SpiCommand

\* The calls of main.c: registers of the LMS7002M (slave 0) and of the board (1)
\* written and read, the DAC, the ADF4002.
FirmwareCalls ==
  {[slave |-> s, write |-> wr[1], read |-> wr[2]] :
     s \in {0, 1}, wr \in {<<4, 0>>, <<2, 2>>, <<2, 0>>, <<3, 0>>}}
=============================================================================
