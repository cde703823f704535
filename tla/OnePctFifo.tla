----------------------------- MODULE OnePctFifo -----------------------------
(***************************************************************************)
(* PctSeparate closed by the reader that packets2data puts behind it: when *)
(* a packet is ready it reads the header word, looks at it for a while,    *)
(* and then either clears the FIFO (a late packet) or reads the rest of    *)
(* the packet in consecutive clocks.                                       *)
(***************************************************************************)
EXTENDS PctSeparate

VARIABLES
  phase,  \* what the reader does in this cycle
  left    \* words of the packet it has still to read

vars == <<hostVars, sepVars, fifoVars, pct_data_rdreq, pct_aclr_n, phase, left>>

\* The reader's next step; pct_data_rdreq and pct_aclr_n follow its phase.
Drive(p, l) ==
  /\ phase' = p /\ left' = l
  /\ pct_data_rdreq' = (p \in {"hdr", "read"})
  /\ pct_aclr_n' = (p # "clr")

WaitPacket  == phase \in {"idle", "hold"} /\ Drive(phase, left)
StartPacket == phase = "idle" /\ pct_rdy_reg /\ Drive("hdr", 0)
ReadHeader  == phase = "hdr" /\ Drive("hold", 0)
DropPacket  == phase = "hold" /\ Drive("clr", 0)
TakePacket  == /\ phase = "hold"
               /\ IF Words(pct_q.size) > 1 THEN Drive("read", Words(pct_q.size) - 1)
                                           ELSE Drive("idle", 0)
ReadWord    == /\ phase = "read"
               /\ IF left > 1 THEN Drive("read", left - 1) ELSE Drive("idle", 0)
Cleared     == phase = "clr" /\ Drive("idle", 0)

ReaderMoves == \/ StartPacket \/ ReadHeader \/ DropPacket \/ TakePacket
               \/ ReadWord \/ Cleared
Reader == WaitPacket \/ ReaderMoves

HostStep == HostWrite /\ UNCHANGED <<sepVars, fifoVars, pct_data_rdreq, pct_aclr_n, phase, left>>
Clock    == PctClock /\ Reader

Init == PctInit /\ phase = "idle" /\ left = 0
Next == HostStep \/ Clock
Spec == Init /\ [][Next]_vars

\* tx_clk never stops, the host finishes the packets it started, and
\* p2d_wr_fsm never stays for ever where it could go on.
FairSpec ==
  /\ Spec /\ WF_vars(Clock) /\ WF_vars(PctClock /\ ReaderMoves)
  /\ WF_vars(HostStep /\ ~PacketEnds(host))

-----------------------------------------------------------------------------
(***************************************************************************)
(* Properties.                                                             *)
(***************************************************************************)
HostTypeOK ==
  /\ host \in WordSet
  /\ infifo \in Seq(WordSet) /\ Len(infifo) <= InfifoDepth

SepTypeOK ==
  /\ infifo_q \in WordSet /\ header \in WordSet
  /\ sep_state \in {"idle", "rd_pct", "rd_done"}
  /\ rd_cnt \in 0 .. MaxPctWords /\ wr_cnt \in 0 .. MaxPctWords
  /\ rd_cnt_max \in 0 .. AllOnes
  /\ infifo_data_valid \in BOOLEAN /\ header_valid_reg \in BOOLEAN

FifoTypeOK ==
  /\ rst_sync \in 0 .. SyncStages
  /\ pctFifo \in Seq(WordSet) /\ pct_q \in WordSet
  /\ wptr \in [Side -> Nat] /\ rptr \in [Side -> Nat]
  /\ hdrFifo \in [Side -> WordSet] /\ inst2_q \in WordSet
  /\ pct_words \in 0 .. AllOnes
  /\ pct_header_valid \in BOOLEAN /\ pct_rdy_reg \in BOOLEAN

ReaderTypeOK ==
  /\ phase \in {"idle", "hdr", "hold", "read", "clr"} /\ left \in 0 .. MaxPctWords
  /\ pct_data_rdreq \in BOOLEAN /\ pct_aclr_n \in BOOLEAN

\* Types and ranges.  The counters of pct_separate_fsm stay far from the 16 bits
\* they have: they never exceed the largest packet.
TypeOK == HostTypeOK /\ SepTypeOK /\ FifoTypeOK /\ ReaderTypeOK

\* pct_separate_fsm stops reading exactly at the end of a packet: whenever it is
\* not reading, the last word it took from the stream is the last word of a
\* packet, although it learns the length of a packet only two clocks after its
\* first read and goes on reading meanwhile.
StopsAtPacketEnd == sep_state # "rd_pct" => PacketEnds(infifo_q)

\* The word that follows w in the stream when it is in the same packet.
FollowsInPacket(w, v) == v.pkt = w.pkt /\ v.idx = w.idx + 1
InPacket == phase \in {"hold", "read"}

\* The packet FIFO never holds words of two packets, and what it holds goes on
\* exactly where the reader stopped: no word is lost, repeated or taken from
\* the next packet, whether the packet before was read or cleared away
\* ("FIFO for storing one packet").
OnePacketOnly ==
  /\ \A k \in 1 .. Len(pctFifo) - 1 : FollowsInPacket(pctFifo[k], pctFifo[k + 1])
  /\ pctFifo # <<>> /\ Inst1ResetN =>
       IF InPacket THEN FollowsInPacket(pct_q, pctFifo[1])
       ELSE pctFifo[1].pkt = pct_q.pkt + 1 /\ pctFifo[1].idx = 1

\* When the reader is told that a packet is ready, all of it is in the FIFO.  The
\* run needs no check of it: FeedsPackets fails where it does.
ReadyMeansWhole ==
  phase = "idle" /\ pct_rdy_reg =>
    /\ pctFifo # <<>>
    /\ Len(pctFifo) = Words(pctFifo[1].size)
    /\ PctRdusedw = Len(pctFifo)

\* No word is written while the FIFO is still held in reset after a clear: the
\* first word of the next packet arrives in the very cycle the reset ends.
NoWriteInReset == infifo_data_valid => Inst1ResetN

\* The reader is fed the host's packets in order, each of them whole or, when it
\* clears the FIFO, its header alone: the separator and the FIFO implement
\* PacketFeed.  While the reader has a packet, what it still gets of it is what
\* the FIFO holds.
Feed == INSTANCE PacketFeed
  WITH Length <- [f \in SizeFields |-> Words(f)],
       last <- pct_q,
       rest <- IF InPacket THEN Len(pctFifo) ELSE 0
FeedsPackets == Feed!Safety

\* A packet the host started reaches the reader, whatever happened to the
\* packets before it.
EveryPacketArrives ==
  \A p \in 1 .. MaxPkts : host.pkt = p ~> pct_q.pkt = p
=============================================================================
