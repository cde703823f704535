----------------------------- MODULE MCSlaveFifo -----------------------------
EXTENDS SlaveFifo, TLC

MCHostSizes == (0 :> {7}) @@ (1 :> {4})
MCCapacity  == (0 :> 7) @@ (1 :> 4) @@ (2 :> 7) @@ (3 :> 4)
MCPortion   == (2 :> 7) @@ (3 :> 2)
=============================================================================
