----------------------------- MODULE MCRxPackets -----------------------------
EXTENDS RxPackets, TLC

MCPctSize    == [w \in Widths |-> IF w = "16" THEN 10 ELSE IF w = "14" THEN 16 ELSE 11]
MCSmplRdSize == [w \in Widths |-> IF w = "16" THEN 8 ELSE IF w = "14" THEN 16 ELSE 12]
=============================================================================
