------------------------------ MODULE RxPackets ------------------------------
(***************************************************************************)
(* The receive path behind diq2fifo: samples wait in a FIFO, and when there *)
(* are enough of them for a packet data2packets_fsm reads exactly that many *)
(* in consecutive clocks, bit_pack packs them into 64 bit words, and        *)
(* data2packets puts two header words in front and hands the packet to the  *)
(* USB FIFO.  When that FIFO has no room for a packet the samples are read  *)
(* all the same and the whole packet is thrown away.  The second header     *)
(* word is the number of the packet's first sample; it comes from a counter *)
(* of the reads, delayed to match the latency of the packer.  One step of   *)
(* Clock is one rising edge of the receive clock.                           *)
(*                                                                         *)
(* A sample is its number (0, 1, ...), counted in words of the sample FIFO; *)
(* a word of a packet is [kind, a, b]: "h0", "h1" with the number a, or     *)
(* "data" made of the samples a to b.                                       *)
(***************************************************************************)
EXTENDS Naturals, Sequences

CONSTANTS
  Widths,         \* sample widths: a subset of {"16", "14", "12"}
  PctSize,        \* words in a packet, for each width
  SmplRdSize,     \* samples in a packet, for each width
  SmplFifoWords,  \* capacity of the sample FIFO
  PctBuffWords,   \* capacity of the USB FIFO (pct_buff_wrusedw_max_words)
  Lag,            \* clocks until one side of a dcfifo sees the other's pointer
  MaxSmpl         \* bound: samples that arrive

AllWidths == {"16", "14", "12"}
HdrWords == 2

\* The packer makes Group - 1 words of Group samples; "16" is not packed.
Group == [w \in AllWidths |-> IF w = "12" THEN 4 ELSE IF w = "14" THEN 8 ELSE 1]
DataWords(w) == IF w = "16" THEN SmplRdSize[w]
                ELSE (SmplRdSize[w] \div Group[w]) * (Group[w] - 1)

\* Registers of the packer between a sample and its word in the packet.
Latency == [w \in AllWidths |-> IF w = "12" THEN 4 ELSE IF w = "14" THEN 6 ELSE 1]

\* The packets are long enough for the samples that come during one, and during the
\* clocks between two, not to be more than it takes away; and the sample FIFO holds
\* a packet and what comes until its reading is seen.
ASSUME ConstantsOK ==
  /\ Widths \subseteq AllWidths
  /\ \A w \in Widths : /\ PctSize[w] \in Nat /\ SmplRdSize[w] \in Nat
                       /\ SmplRdSize[w] % Group[w] = 0 /\ SmplRdSize[w] >= Latency[w] + 7
                       /\ PctSize[w] = DataWords(w) + HdrWords /\ PctSize[w] <= PctBuffWords
                       /\ SmplFifoWords >= SmplRdSize[w] + Lag + 4
  /\ {SmplFifoWords, PctBuffWords, Lag, MaxSmpl} \subseteq Nat

Side == 0 .. Lag
None == [kind |-> "none", a |-> 0, b |-> 0]
Data(a, b) == [kind |-> "data", a |-> a, b |-> b]
Hdr(n) == [kind |-> IF n = 0 THEN "h0" ELSE "h1", a |-> 0, b |-> 0]

VARIABLES
  width,
  \* diq2fifo and the sample FIFO
  smpl_nr, wrote, smplFifo, sW, sR, smpl_q,
  \* data2packets_top and data2packets_fsm
  rdusedw_reg, smpl_buff_rdy, fsm_state, smpl_buff_rd_cnt, smpl_buff_rd_done,
  pct_buff_wr_dis, pct_buff_rdy, data2packets_done, data_in_valid,
  \* bit_pack: samples of the group, the last one, the word pipeline
  pack_cnt, pack_reg, pack_pipe,
  \* the read counter and its delay chain
  smpl_cnt, delay_chain,
  \* data2packets and the output registers
  d2p_state, pct_data_wr_cnt, pct_end_cnt, reg_0, reg_1, reg_2, pct_wrreq_int,
  pct_buff_wrdata_reg, pct_buff_wrreq_reg,
  \* the USB FIFO: words in it, wrusedw, and the packet being written to it
  pct_used, pct_wusedw, pkt

smplVars == <<smpl_nr, wrote, smplFifo, sW, sR, smpl_q>>
fsmVars  == <<rdusedw_reg, smpl_buff_rdy, fsm_state, smpl_buff_rd_cnt,
              smpl_buff_rd_done, pct_buff_wr_dis, pct_buff_rdy,
              data2packets_done, data_in_valid>>
packVars == <<pack_cnt, pack_reg, pack_pipe, smpl_cnt, delay_chain>>
d2pVars  == <<d2p_state, pct_data_wr_cnt, pct_end_cnt, reg_0, reg_1, reg_2,
              pct_wrreq_int, pct_buff_wrdata_reg, pct_buff_wrreq_reg>>
pctVars  == <<pct_used, pct_wusedw, pkt>>
vars     == <<width, smplVars, fsmVars, packVars, d2pVars, pctVars>>

-----------------------------------------------------------------------------
(***************************************************************************)
(* diq2fifo delivers a sample every other clock at most; when the FIFO is  *)
(* full the sample is lost, but it has its number (iq_smpl_cnt).           *)
(***************************************************************************)
RdReq == fsm_state = "rd_smpl_buff"
Rdusedw == sW[Lag] - sR[0]
SmplRead == RdReq /\ Rdusedw > 0
Wrfull == sW[0] - sR[Lag] >= SmplFifoWords

Shift(ptr, step) ==
  [i \in Side |-> IF i = 0 THEN IF step THEN ptr[0] + 1 ELSE ptr[0] ELSE ptr[i - 1]]

Sample(arrives) ==
  /\ arrives => ~wrote /\ smpl_nr < MaxSmpl
  /\ wrote' = arrives
  /\ smpl_nr' = IF arrives THEN smpl_nr + 1 ELSE smpl_nr
  /\ LET wr == arrives /\ ~Wrfull
     IN /\ smplFifo' = (IF SmplRead THEN Tail(smplFifo) ELSE smplFifo)
                       \o (IF wr THEN <<smpl_nr>> ELSE <<>>)
        /\ sW' = Shift(sW, wr)
  /\ sR' = Shift(sR, SmplRead)
  /\ smpl_q' = IF SmplRead THEN Head(smplFifo) ELSE smpl_q

-----------------------------------------------------------------------------
(***************************************************************************)
(* data2packets_fsm with the flags data2packets_top registers for it.      *)
(***************************************************************************)
PctState == IF d2p_state = "idle" THEN "00"
            ELSE IF d2p_state = "s2" THEN "11" ELSE "01 or 10"

Flags_FewSamples ==
  /\ rdusedw_reg' = Rdusedw
  /\ smpl_buff_rdy' = (rdusedw_reg > SmplRdSize[width] \div 4)
  /\ pct_buff_rdy' = (pct_wusedw < PctBuffWords - PctSize[width])
  /\ data2packets_done' = (PctState = "00")
  /\ data_in_valid' = RdReq
  /\ pct_buff_wr_dis' = IF fsm_state = "check_pct_buff" THEN pct_buff_rdy ELSE pct_buff_wr_dis

Flags ==
  /\ rdusedw_reg' = Rdusedw
  /\ smpl_buff_rdy' = (rdusedw_reg > SmplRdSize[width])
  /\ pct_buff_rdy' = (pct_wusedw < PctBuffWords - PctSize[width])
  /\ data2packets_done' = (PctState = "00")
  /\ data_in_valid' = RdReq
  /\ pct_buff_wr_dis' = IF fsm_state = "check_pct_buff" THEN pct_buff_rdy ELSE pct_buff_wr_dis

RdCount_TwoMore ==
  /\ smpl_buff_rd_cnt' = IF RdReq THEN smpl_buff_rd_cnt + 1 ELSE 0
  /\ smpl_buff_rd_done' = (smpl_buff_rd_cnt >= SmplRdSize[width])

RdCount ==
  /\ smpl_buff_rd_cnt' = IF RdReq THEN smpl_buff_rd_cnt + 1 ELSE 0
  /\ smpl_buff_rd_done' = (smpl_buff_rd_cnt >= SmplRdSize[width] - 2)

Go(from, to) == fsm_state = from /\ fsm_state' = to

Fsm ==
  \/ Go("idle", IF smpl_buff_rdy THEN "check_pct_buff" ELSE "idle")
  \/ Go("check_pct_buff", "rd_smpl_buff")
  \/ Go("rd_smpl_buff", IF smpl_buff_rd_done THEN "wait_data2packets_done" ELSE "rd_smpl_buff")
  \/ Go("wait_data2packets_done", IF data2packets_done THEN "idle" ELSE "wait_data2packets_done")

-----------------------------------------------------------------------------
(***************************************************************************)
(* bit_pack.  From the second sample of a group on, each sample completes  *)
(* a word; Latency[w] registers lie between the packer's input and the     *)
(* packet.  smpl_cnt counts the reads; its value takes cnt_mux and the six *)
(* registers of delay_chain to become the second header word.              *)
(***************************************************************************)
DelayStages_Five == 5
DelayStages == 7

Packed == IF ~data_in_valid THEN None
          ELSE IF width = "16" THEN Data(smpl_q, smpl_q)
          ELSE IF pack_cnt > 0 THEN Data(pack_reg, smpl_q)
          ELSE None

Pack ==
  /\ pack_cnt' = IF data_in_valid /\ width # "16" THEN (pack_cnt + 1) % Group[width] ELSE pack_cnt
  /\ pack_reg' = IF data_in_valid THEN smpl_q ELSE pack_reg
  /\ pack_pipe' = [i \in 1 .. Latency[width] |-> IF i = 1 THEN Packed ELSE pack_pipe[i - 1]]

PctData == pack_pipe[Latency[width]]
PctDataWrreq == PctData # None

CountReads ==
  /\ smpl_cnt' = IF RdReq THEN smpl_cnt + 1 ELSE smpl_cnt
  /\ delay_chain' = [i \in 1 .. DelayStages |-> IF i = 1 THEN smpl_cnt ELSE delay_chain[i - 1]]

-----------------------------------------------------------------------------
(***************************************************************************)
(* data2packets.                                                           *)
(***************************************************************************)
RegLoad == d2p_state = "idle" /\ PctDataWrreq
RegShift == d2p_state = "s2" \/ PctDataWrreq

Registers ==
  /\ reg_0' = IF RegLoad THEN Hdr(0) ELSE IF RegShift THEN reg_1 ELSE reg_0
  /\ reg_1' = IF RegLoad THEN [Hdr(1) EXCEPT !.a = delay_chain[DelayStages]]
              ELSE IF RegShift THEN reg_2 ELSE reg_1
  /\ reg_2' = IF PctDataWrreq THEN PctData ELSE reg_2
  /\ pct_wrreq_int' = RegShift

D2pCounters_NotCleared ==
  /\ pct_data_wr_cnt' = IF PctDataWrreq THEN pct_data_wr_cnt + 1 ELSE pct_data_wr_cnt
  /\ pct_end_cnt' = IF d2p_state = "s2" THEN (pct_end_cnt + 255) % 256 ELSE 1

D2pCounters ==
  /\ pct_data_wr_cnt' = IF d2p_state = "s1" THEN 0
                        ELSE IF PctDataWrreq THEN pct_data_wr_cnt + 1 ELSE pct_data_wr_cnt
  /\ pct_end_cnt' = IF d2p_state = "s2" THEN (pct_end_cnt + 255) % 256 ELSE 1

D2pGo(from, to) == d2p_state = from /\ d2p_state' = to

D2pFsm ==
  \/ D2pGo("idle", IF PctDataWrreq THEN "s0" ELSE "idle")
  \/ D2pGo("s0", IF PctDataWrreq /\ pct_data_wr_cnt = PctSize[width] - 4 THEN "s1" ELSE "s0")
  \/ D2pGo("s1", IF PctDataWrreq THEN "s2" ELSE "s1")
  \/ D2pGo("s2", IF pct_end_cnt = 0 THEN "idle" ELSE "s2")

OutRegs_LiveFlag ==
  /\ pct_buff_wrdata_reg' = reg_0
  /\ pct_buff_wrreq_reg' = (pct_wrreq_int /\ pct_buff_rdy)

OutRegs ==
  /\ pct_buff_wrdata_reg' = reg_0
  /\ pct_buff_wrreq_reg' = (pct_wrreq_int /\ pct_buff_wr_dis)

-----------------------------------------------------------------------------
(***************************************************************************)
(* The USB FIFO.  The host takes words at any time; wrusedw shows a write  *)
(* a clock after the word is in.  pkt keeps the words of one packet.       *)
(***************************************************************************)
PctBuffer(take) ==
  /\ take => pct_used > 0
  /\ pct_used' = (IF take THEN pct_used - 1 ELSE pct_used)
                 + (IF pct_buff_wrreq_reg THEN 1 ELSE 0)
  /\ pct_wusedw' = pct_used
  /\ pkt' = IF ~pct_buff_wrreq_reg THEN pkt
            ELSE IF Len(pkt) = PctSize[width] THEN <<pct_buff_wrdata_reg>>
            ELSE Append(pkt, pct_buff_wrdata_reg)

ClockWith(arrives, take) ==
  /\ Sample(arrives) /\ PctBuffer(take)
  /\ Flags /\ RdCount /\ Fsm /\ Pack /\ CountReads
  /\ Registers /\ D2pCounters /\ D2pFsm /\ OutRegs
  /\ UNCHANGED width

Clock == \E arrives \in BOOLEAN, take \in BOOLEAN : ClockWith(arrives, take)

Init ==
  /\ width \in Widths
  /\ smpl_nr = 0 /\ wrote = FALSE /\ smplFifo = <<>> /\ smpl_q = 0
  /\ sW = [i \in Side |-> 0] /\ sR = [i \in Side |-> 0]
  /\ rdusedw_reg = 0 /\ smpl_buff_rdy = FALSE /\ fsm_state = "idle"
  /\ smpl_buff_rd_cnt = 0 /\ smpl_buff_rd_done = FALSE
  /\ pct_buff_wr_dis = FALSE /\ pct_buff_rdy = FALSE
  /\ data2packets_done = FALSE /\ data_in_valid = FALSE
  /\ pack_cnt = 0 /\ pack_reg = 0 /\ pack_pipe = [i \in 1 .. Latency[width] |-> None]
  /\ smpl_cnt = 0 /\ delay_chain = [i \in 1 .. DelayStages |-> 0]
  /\ d2p_state = "idle" /\ pct_data_wr_cnt = 0 /\ pct_end_cnt = 0
  /\ reg_0 = None /\ reg_1 = None /\ reg_2 = None /\ pct_wrreq_int = FALSE
  /\ pct_buff_wrdata_reg = None /\ pct_buff_wrreq_reg = FALSE
  /\ pct_used = 0 /\ pct_wusedw = 0 /\ pkt = <<>>

Next == Clock
Spec == Init /\ [][Next]_vars

\* The receive clock never stops, samples keep coming, the host keeps reading.
FairSpec ==
  /\ Spec
  /\ WF_vars(Clock)
  /\ SF_vars(\E take \in BOOLEAN : ClockWith(TRUE, take))

\* The host has stopped reading.
HaltSpec == Init /\ [][\E arrives \in BOOLEAN : ClockWith(arrives, FALSE)]_vars

-----------------------------------------------------------------------------
(***************************************************************************)
(* Properties.                                                             *)
(***************************************************************************)
WordSet == [kind : {"none", "h0", "h1", "data"}, a : 0 .. MaxSmpl, b : 0 .. MaxSmpl]

TypeOK ==
  /\ width \in Widths /\ smpl_nr \in 0 .. MaxSmpl
  /\ fsm_state \in {"idle", "check_pct_buff", "rd_smpl_buff", "wait_data2packets_done"}
  /\ d2p_state \in {"idle", "s0", "s1", "s2"}
  /\ smpl_buff_rd_cnt \in 0 .. SmplRdSize[width]
  /\ pct_data_wr_cnt \in 0 .. PctSize[width]
  /\ pct_end_cnt \in {0, 1, 255}
  /\ pack_cnt \in 0 .. Group[width] - 1
  /\ {reg_0, reg_1, reg_2, pct_buff_wrdata_reg} \subseteq WordSet
  /\ pack_pipe \in [1 .. Latency[width] -> WordSet]

\* The number in a packet's header is the number of its first sample:
\* "smpl_cnt has to be delayed 6 cycles" to match the latency from the sample
\* FIFO to packet formation.
HeaderIsFirstSample == Len(pkt) >= 3 => pkt[2].a = pkt[3].a

\* So it is for 12 and 16 bit samples, also when packets before were thrown
\* away and when two packets follow each other as closely as they can.
HeaderNumbersFirstSample == width # "14" => HeaderIsFirstSample

\* What reaches the USB FIFO are whole packets: both headers, then all the
\* samples in order, in groups that do not straddle packets.  A packet that
\* finds no room is left out altogether.  Nor is a word written while the packet
\* before is still shifted out, "Do not assert when pct_state=11".
WholePackets ==
  /\ PctDataWrreq => PctState # "11"
  /\ Len(pkt) >= 1 => pkt[1].kind = "h0"
  /\ Len(pkt) >= 2 => pkt[2].kind = "h1"
  /\ \A k \in 3 .. Len(pkt) : pkt[k].kind = "data" /\ pkt[k].b = pkt[k].a + (IF width = "16" THEN 0 ELSE 1)
  /\ \A k \in 4 .. Len(pkt) :
       pkt[k].a = pkt[k - 1].b + (IF width = "16" \/ (k - 3) % (Group[width] - 1) = 0 THEN 1 ELSE 0)

\* When the host halts, packets are buffered until the FIFO is full: a packet is
\* dropped only if there is no room for it ("four packets are buffered into
\* 16kB buffer, FIFO full condition arises and other packets are dropped").
DropsOnlyWhenFull ==
  fsm_state = "check_pct_buff" /\ ~pct_buff_rdy =>
    pct_used + PctSize[width] > PctBuffWords

\* Reading goes on when the USB FIFO is full, so no sample is ever lost, and
\* a packet is begun only when all its samples are there, so no read of the
\* packet finds the FIFO empty and the count of reads is the count of samples.
\* And a packet that was found to fit does fit, although the fill level it was
\* compared with is two clocks old.
NothingOverflows ==
  /\ pct_used <= PctBuffWords
  /\ RdReq => Rdusedw > 0
  /\ ~Wrfull
  /\ smplFifo # <<>> => smplFifo[1] = smpl_cnt

\* Samples never pile up: in the end fewer than a packet's worth are left.
SamplesLeave ==
  <>[](smpl_nr = MaxSmpl /\ fsm_state = "idle" /\ Len(smplFifo) <= SmplRdSize[width])
=============================================================================
