---------------------------- MODULE Packets2Data ----------------------------
(***************************************************************************)
(* packets2data: p2d_wr_fsm reads the packets that one_pct_fifo announces, *)
(* drops those whose sample number has passed and stores the payload of    *)
(* the others in one of NBuff buffers; p2d_rd takes the buffers in turn,   *)
(* waits until the receive sample counter reaches the packet's number (or  *)
(* clears the buffer when it has passed) and streams the payload into the  *)
(* sample FIFO of packets2data_top.  All of it runs on tx_clk; one step of *)
(* Clock is one rising edge and every process is a conjunct of it.         *)
(*                                                                         *)
(* The FIFO in front is taken at what OnePctFifo shows of it: it holds     *)
(* words of one packet, and says so when it holds all of them.             *)
(*                                                                         *)
(* A word is [pkt, idx]; idx 1 is the header, whose fields are those of    *)
(* stream[pkt]: size of the payload in input words (the size field divided *)
(* by the word size, 0 standing for the maximum), nr its sample number and *)
(* dis its synchronisation-disable bit.  An input word is two words of a   *)
(* buffer's read side.                                                     *)
(***************************************************************************)
EXTENDS Naturals, Sequences

CONSTANTS
  NBuff,        \* g_BUFF_COUNT
  MaxPayload,   \* input words of the payload of a packet whose size field is 0
  Streams,      \* the sequences of packet headers the host may send
  MaxNr,        \* bound: the sample counter stops here
  Lag,          \* clocks until one side of a dcfifo sees the other's pointer
  FifoLimit,    \* fifo_limit: the sample FIFO is almost full above it
  FifoMargin    \* what the sample FIFO holds more than that

\* A header with the size field 0 has the full payload; 65535 is what the size of
\* a buffer's packet is reset to.
HdrSet == [size : 0 .. MaxPayload, nr : Nat, dis : BOOLEAN]

ASSUME ConstantsOK ==
  /\ NBuff \in Nat /\ NBuff >= 2
  /\ MaxPayload \in Nat \ {0} /\ 2 * MaxPayload < 65535
  /\ Streams \subseteq Seq(HdrSet)
  /\ MaxNr \in Nat /\ Lag \in Nat
  /\ FifoLimit \in Nat /\ FifoMargin \in Nat /\ FifoMargin >= 3

Buffers == 0 .. NBuff - 1
Side == 0 .. Lag
NoWord == [pkt |-> 0, idx |-> 0]

VARIABLES
  stream, sample_nr,
  \* the packet FIFO: its packet, the next word of it (0 when empty), its output
  feed_pkt, feed_idx, in_pct_data, in_pct_rdy,
  \* p2d_wr_fsm
  wr_state, current_buff_cnt, next_buff_cnt, current_buff_rdy, next_buff_rdy,
  wr_rd_cnt, wr_rd_cnt_max, pipe_cnt, in_pct_rdreq_int, in_pct_data_valid,
  pct_data_wrreq_cnt, pct_hdr_reg, pct_hdr_valid, pct_data, pct_data_wrreq,
  in_pct_reset_n_req, wr_less,
  \* the buffers
  bufQ, bufW, bufR, instx_q, pct_buff_size, pct_buff_rdy_int,
  \* p2d_rd
  rd_state, pct_hdr_array, rd_cmp, crnt_buff_cnt, crnt_buff_rdy,
  crnt_buff_pct_synch_dis, crnt_buff_cmp, crnt_buff_payload_size,
  rd_cnt, rd_cnt_max,
  \* output registers, bit_unpack_64 and the sample FIFO
  smpl_buff_valid_int, smpl_buff_valid, smpl_buff_q,
  unpack_cnt, unpack_pipe, smpl_used, fifo_full_sig

feedVars == <<feed_pkt, feed_idx, in_pct_data, in_pct_rdy>>
wrVars   == <<wr_state, current_buff_cnt, next_buff_cnt, current_buff_rdy,
              next_buff_rdy, wr_rd_cnt, wr_rd_cnt_max, pipe_cnt, in_pct_rdreq_int,
              in_pct_data_valid, pct_data_wrreq_cnt, pct_hdr_reg, pct_hdr_valid,
              pct_data, pct_data_wrreq, in_pct_reset_n_req, wr_less>>
bufVars  == <<bufQ, bufW, bufR, instx_q, pct_buff_size, pct_buff_rdy_int>>
rdVars   == <<rd_state, pct_hdr_array, rd_cmp, crnt_buff_cnt, crnt_buff_rdy,
              crnt_buff_pct_synch_dis, crnt_buff_cmp, crnt_buff_payload_size,
              rd_cnt, rd_cnt_max>>
outVars  == <<smpl_buff_valid_int, smpl_buff_valid, smpl_buff_q, unpack_cnt,
              unpack_pipe, smpl_used, fifo_full_sig>>
vars     == <<stream, sample_nr, feedVars, wrVars, bufVars, rdVars, outVars>>

\* The header a word would be read as: payload bits are something else.
NoHdr == [size |-> 0, nr |-> 0, dis |-> FALSE]
Hdr(w) == IF w.idx = 1 THEN stream[w.pkt] ELSE NoHdr

Payload(size) == IF size = 0 THEN MaxPayload ELSE size
Words(size) == Payload(size) + 1

-----------------------------------------------------------------------------
(***************************************************************************)
(* The packet FIFO.  A packet turns up in it when the packet before is     *)
(* gone, at any time; pct_rdy is registered, and a clear empties it.       *)
(***************************************************************************)
Arrive ==
  /\ feed_idx = 0 /\ feed_pkt < Len(stream) /\ in_pct_reset_n_req
  /\ feed_pkt' = feed_pkt + 1 /\ feed_idx' = 1
  /\ UNCHANGED <<stream, sample_nr, in_pct_data, in_pct_rdy, wrVars, bufVars, rdVars, outVars>>

FeedRead == in_pct_rdreq_int /\ feed_idx > 0

FeedClock ==
  /\ feed_pkt' = feed_pkt
  /\ feed_idx' = IF ~in_pct_reset_n_req THEN 0
                 ELSE IF ~FeedRead THEN feed_idx
                 ELSE IF feed_idx = Words(stream[feed_pkt].size) THEN 0 ELSE feed_idx + 1
  /\ in_pct_data' = IF FeedRead THEN [pkt |-> feed_pkt, idx |-> feed_idx] ELSE in_pct_data
  /\ in_pct_rdy' = (feed_idx = 1 /\ in_pct_reset_n_req)

-----------------------------------------------------------------------------
(***************************************************************************)
(* The buffers: dcfifo with pointers in read words, as in PctSeparate.     *)
(* pct_buff_clr_n clears a buffer in the cycle in which it is low.         *)
(***************************************************************************)
ClrBuff(i) == rd_state = "clr_buff" /\ crnt_buff_cnt = i
BuffWrempty_NotFull(i) == ClrBuff(i) \/ bufW[i][0] - bufR[i][Lag] < 2 * MaxPayload
BuffWrempty(i) == ClrBuff(i) \/ bufW[i][0] = bufR[i][Lag]
BuffRdusedw(i) == IF ClrBuff(i) THEN 0 ELSE bufW[i][Lag] - bufR[i][0]

RdReqInt_NoHold == rd_state \in {"rd_buff", "rd_hold"}
RdReqInt == rd_state = "rd_buff" /\ ~fifo_full_sig
BuffRead(i) == RdReqInt /\ crnt_buff_cnt = i /\ BuffRdusedw(i) > 0
BuffWrite(i) == pct_data_wrreq = i

Halves(w) == <<[w EXCEPT !.idx = 2 * @ - 3], [w EXCEPT !.idx = 2 * @ - 2]>>

Shift(ptr, n) == [s \in Side |-> IF s = 0 THEN ptr[0] + n ELSE ptr[s - 1]]
Zero == [s \in Side |-> 0]

BufferClock ==
  /\ bufQ' = [i \in Buffers |-> IF ClrBuff(i) THEN <<>>
                ELSE (IF BuffRead(i) THEN Tail(bufQ[i]) ELSE bufQ[i])
                     \o (IF BuffWrite(i) THEN Halves(pct_data) ELSE <<>>)]
  /\ bufW' = [i \in Buffers |-> IF ClrBuff(i) THEN Zero
                ELSE Shift(bufW[i], IF BuffWrite(i) THEN 2 ELSE 0)]
  /\ bufR' = [i \in Buffers |-> IF ClrBuff(i) THEN Zero
                ELSE Shift(bufR[i], IF BuffRead(i) THEN 1 ELSE 0)]
  /\ instx_q' = [i \in Buffers |-> IF BuffRead(i) THEN Head(bufQ[i]) ELSE instx_q[i]]

BuffSizeRdy_MaxInPacketWords ==
  /\ pct_buff_rdy_int' = [i \in Buffers |-> BuffRdusedw(i) = pct_buff_size[i]]
  /\ pct_buff_size' = [i \in Buffers |->
       IF pct_hdr_valid # i THEN pct_buff_size[i]
       ELSE IF Hdr(pct_hdr_reg).size = 0 THEN 2 * MaxPayload + 2
       ELSE 2 * Hdr(in_pct_data).size]

\* The size of a non-empty payload is taken from the packet FIFO's output, one
\* clock after the header left it, and not from the header register.
BuffSizeRdy ==
  /\ pct_buff_rdy_int' = [i \in Buffers |-> BuffRdusedw(i) = pct_buff_size[i]]
  /\ pct_buff_size' = [i \in Buffers |->
       IF pct_hdr_valid # i THEN pct_buff_size[i]
       ELSE IF Hdr(pct_hdr_reg).size = 0 THEN 2 * MaxPayload
       ELSE 2 * Hdr(in_pct_data).size]
-----------------------------------------------------------------------------
(***************************************************************************)
(* p2d_wr_fsm.  No buffer is written when pct_hdr_valid or pct_data_wrreq  *)
(* is NBuff.                                                               *)
(***************************************************************************)
NextBuff(b) == IF b < NBuff - 1 THEN b + 1 ELSE 0

BuffSel ==
  /\ next_buff_cnt' = IF wr_state = "switch_next_buff" THEN NextBuff(next_buff_cnt)
                      ELSE next_buff_cnt
  /\ next_buff_rdy' = BuffWrempty(next_buff_cnt)
  /\ current_buff_cnt' = IF wr_state = "check_next_buf" THEN next_buff_cnt
                         ELSE current_buff_cnt
  /\ current_buff_rdy' = BuffWrempty(current_buff_cnt)

WrCounters ==
  /\ wr_rd_cnt' = IF wr_state \in {"rd_pct", "rd_hdr"} THEN wr_rd_cnt + 1
                  ELSE IF wr_state = "idle" THEN 0 ELSE wr_rd_cnt
  /\ pipe_cnt' = IF wr_state = "wait_cmpr_pipe" THEN pipe_cnt + 1 ELSE 0

PipeWait_Short == 2
PipeWait == 3

\* lpm_compare with three pipeline stages.
WrCompare == wr_less' = <<Hdr(pct_hdr_reg).nr < sample_nr, wr_less[1], wr_less[2]>>

Late == wr_less[3] /\ ~Hdr(pct_hdr_reg).dis

WrGo(from, to) == wr_state = from /\ wr_state' = to

WrFsm ==
  \/ WrGo("idle", IF in_pct_rdy THEN "rd_hdr" ELSE "idle")
  \/ WrGo("rd_hdr", "wait_cmpr_pipe")
  \/ WrGo("wait_cmpr_pipe", IF pipe_cnt > PipeWait THEN "check_smpl_nr" ELSE "wait_cmpr_pipe")
  \/ WrGo("check_smpl_nr", IF Late THEN "clr_fifo"
                           ELSE IF current_buff_rdy THEN "switch_next_buff"
                           ELSE "check_smpl_nr")
  \/ WrGo("clr_fifo", "idle")
  \/ WrGo("switch_next_buff", "rd_pct")
  \/ WrGo("rd_pct", IF wr_rd_cnt < wr_rd_cnt_max - 1 THEN "rd_pct" ELSE "wait_wr_end")
  \/ WrGo("wait_wr_end", IF ~in_pct_data_valid THEN "check_next_buf" ELSE "wait_wr_end")
  \/ WrGo("check_next_buf", IF next_buff_rdy THEN "switch_current_buff" ELSE "check_next_buf")
  \/ WrGo("switch_current_buff", "idle")

WrHdrHere == in_pct_data_valid /\ pct_data_wrreq_cnt = 0
WrDataHere == in_pct_data_valid /\ pct_data_wrreq_cnt > 0

WrOut ==
  /\ in_pct_data_valid' = in_pct_rdreq_int
  /\ pct_data_wrreq_cnt' = IF in_pct_data_valid THEN pct_data_wrreq_cnt + 1
                           ELSE IF wr_state = "idle" THEN 0 ELSE pct_data_wrreq_cnt
  /\ in_pct_rdreq_int' = (wr_state \in {"rd_pct", "rd_hdr"})
  /\ in_pct_reset_n_req' = (wr_state # "clr_fifo")
  /\ pct_hdr_reg' = IF WrHdrHere THEN in_pct_data ELSE pct_hdr_reg
  /\ wr_rd_cnt_max' = IF WrHdrHere THEN Words(Hdr(in_pct_data).size) ELSE wr_rd_cnt_max
  /\ pct_hdr_valid' = IF WrHdrHere THEN current_buff_cnt ELSE NBuff
  /\ pct_data' = IF WrDataHere THEN in_pct_data ELSE pct_data
  /\ pct_data_wrreq' = IF WrDataHere THEN current_buff_cnt ELSE NBuff

WrClock == BuffSel /\ WrCounters /\ WrCompare /\ WrFsm /\ WrOut

-----------------------------------------------------------------------------
(***************************************************************************)
(* p2d_rd.                                                                 *)
(***************************************************************************)
Compare(nr) == IF nr = sample_nr THEN "equal" ELSE IF nr < sample_nr THEN "less" ELSE "more"

RdHeaders ==
  /\ pct_hdr_array' = [i \in Buffers |-> IF pct_hdr_valid = i THEN pct_hdr_reg
                                         ELSE pct_hdr_array[i]]
  /\ rd_cmp' = [i \in Buffers |->
                  <<Compare(Hdr(pct_hdr_array[i]).nr), rd_cmp[i][1], rd_cmp[i][2]>>]

CrntBuffSel ==
  /\ crnt_buff_cnt' = IF rd_state = "switch_next_buff" THEN NextBuff(crnt_buff_cnt)
                      ELSE crnt_buff_cnt
  /\ crnt_buff_rdy' = pct_buff_rdy_int[crnt_buff_cnt]
  /\ crnt_buff_pct_synch_dis' = Hdr(pct_hdr_array[crnt_buff_cnt]).dis
  /\ crnt_buff_cmp' = rd_cmp[crnt_buff_cnt][3]
  /\ crnt_buff_payload_size' = Hdr(pct_hdr_array[crnt_buff_cnt]).size

RdCntProc_NoReset ==
  /\ rd_cnt' = IF RdReqInt THEN rd_cnt + 1 ELSE rd_cnt
  /\ rd_cnt_max' = 2 * Payload(crnt_buff_payload_size)

RdCntProc ==
  /\ rd_cnt' = IF rd_state = "idle" THEN 0 ELSE IF RdReqInt THEN rd_cnt + 1 ELSE rd_cnt
  /\ rd_cnt_max' = 2 * Payload(crnt_buff_payload_size)

RdGo(from, to) == rd_state = from /\ rd_state' = to

RdStart_LateToo ==
  IF crnt_buff_rdy /\ (crnt_buff_pct_synch_dis \/ crnt_buff_cmp # "more") THEN "rd_buff" ELSE "idle"

RdStart ==
  IF ~crnt_buff_rdy THEN "idle"
  ELSE IF crnt_buff_pct_synch_dis \/ crnt_buff_cmp = "equal" THEN "rd_buff"
  ELSE IF crnt_buff_cmp = "less" THEN "clr_buff" ELSE "idle"

RdFsm_FullIgnored ==
  \/ RdGo("idle", RdStart)
  \/ RdGo("clr_buff", "switch_next_buff")
  \/ RdGo("rd_buff", IF rd_cnt < rd_cnt_max - 1 THEN "rd_buff" ELSE "switch_next_buff")
  \/ RdGo("switch_next_buff", "check_next_buf")
  \/ RdGo("check_next_buf", "idle")

RdFsm ==
  \/ RdGo("idle", RdStart)
  \/ RdGo("clr_buff", "switch_next_buff")
  \/ RdGo("rd_buff", IF fifo_full_sig THEN "rd_hold"
                     ELSE IF rd_cnt < rd_cnt_max - 1 THEN "rd_buff" ELSE "switch_next_buff")
  \/ RdGo("rd_hold", IF fifo_full_sig THEN "rd_hold" ELSE "rd_buff")
  \/ RdGo("switch_next_buff", "check_next_buf")
  \/ RdGo("check_next_buf", "idle")

RdClock == RdHeaders /\ CrntBuffSel /\ RdCntProc /\ RdFsm

-----------------------------------------------------------------------------
(***************************************************************************)
(* Output registers of packets2data, bit_unpack_64 in 16 bit mode (two     *)
(* words become one, two registers later) and the sample FIFO, from which  *)
(* the transmit interface takes words at any time.                         *)
(***************************************************************************)
OutClock ==
  /\ smpl_buff_valid_int' = RdReqInt
  /\ smpl_buff_valid' = smpl_buff_valid_int
  /\ smpl_buff_q' = instx_q[crnt_buff_cnt]
  /\ unpack_cnt' = IF smpl_buff_valid THEN 1 - unpack_cnt ELSE unpack_cnt
  /\ unpack_pipe' = <<smpl_buff_valid /\ unpack_cnt = 1, unpack_pipe[1]>>
  /\ fifo_full_sig' = (smpl_used > FifoLimit)

SampleFifo(take) ==
  /\ take \in 0 .. 1 /\ take <= smpl_used
  /\ smpl_used' = smpl_used - take + (IF unpack_pipe[2] THEN 1 ELSE 0)

Tick(n) == n <= 1 /\ sample_nr + n <= MaxNr /\ sample_nr' = sample_nr + n

ClockWith(n, take) ==
  /\ Tick(n) /\ SampleFifo(take)
  /\ FeedClock /\ WrClock /\ BufferClock /\ BuffSizeRdy /\ RdClock /\ OutClock
  /\ UNCHANGED stream

Clock == \E n \in 0 .. 1, take \in 0 .. 1 : ClockWith(n, take)

-----------------------------------------------------------------------------
Init ==
  /\ stream \in Streams /\ sample_nr = 0
  /\ feed_pkt = 0 /\ feed_idx = 0 /\ in_pct_data = NoWord /\ in_pct_rdy = FALSE
  /\ wr_state = "idle" /\ current_buff_cnt = 0 /\ next_buff_cnt = 0
  /\ current_buff_rdy = FALSE /\ next_buff_rdy = FALSE
  /\ wr_rd_cnt = 0 /\ wr_rd_cnt_max = 0 /\ pipe_cnt = 0
  /\ in_pct_rdreq_int = FALSE /\ in_pct_data_valid = FALSE /\ pct_data_wrreq_cnt = 0
  /\ pct_hdr_reg = NoWord /\ pct_hdr_valid = NBuff
  /\ pct_data = NoWord /\ pct_data_wrreq = NBuff
  /\ in_pct_reset_n_req = TRUE /\ wr_less = <<FALSE, FALSE, FALSE>>
  /\ bufQ = [i \in Buffers |-> <<>>]
  /\ bufW = [i \in Buffers |-> Zero] /\ bufR = [i \in Buffers |-> Zero]
  /\ instx_q = [i \in Buffers |-> NoWord]
  /\ pct_buff_size = [i \in Buffers |-> 65535]
  /\ pct_buff_rdy_int = [i \in Buffers |-> FALSE]
  /\ rd_state = "idle" /\ pct_hdr_array = [i \in Buffers |-> NoWord]
  /\ rd_cmp = [i \in Buffers |-> <<"more", "more", "more">>]
  /\ crnt_buff_cnt = 0 /\ crnt_buff_rdy = FALSE /\ crnt_buff_pct_synch_dis = FALSE
  /\ crnt_buff_cmp = "more" /\ crnt_buff_payload_size = 0
  /\ rd_cnt = 0 /\ rd_cnt_max = 0
  /\ smpl_buff_valid_int = FALSE /\ smpl_buff_valid = FALSE /\ smpl_buff_q = NoWord
  /\ unpack_cnt = 0 /\ unpack_pipe = <<FALSE, FALSE>>
  /\ smpl_used = 0 /\ fifo_full_sig = FALSE

Next == Arrive \/ Clock
Spec == Init /\ [][Next]_vars

\* tx_clk and the receive sample counter never stop, packets keep coming, and
\* the transmit interface goes on taking samples.
Fairness ==
  /\ WF_vars(Clock) /\ WF_vars(Arrive)
  /\ WF_vars(\E take \in 0 .. 1 : ClockWith(1, take))
  /\ WF_vars(\E n \in 0 .. 1 : ClockWith(n, 1))

-----------------------------------------------------------------------------
(***************************************************************************)
(* Properties.                                                             *)
(***************************************************************************)
WordSet == [pkt : 0 .. Len(stream), idx : 0 .. 2 * MaxPayload + 1]

TypeOK ==
  /\ sample_nr \in 0 .. MaxNr
  /\ feed_pkt \in 0 .. Len(stream) /\ feed_idx \in 0 .. MaxPayload + 1
  /\ {in_pct_data, pct_hdr_reg, pct_data, smpl_buff_q} \subseteq WordSet
  /\ wr_state \in {"idle", "rd_hdr", "wait_cmpr_pipe", "check_smpl_nr", "clr_fifo",
                   "switch_next_buff", "rd_pct", "wait_wr_end", "check_next_buf",
                   "switch_current_buff"}
  /\ rd_state \in {"idle", "clr_buff", "rd_buff", "rd_hold", "switch_next_buff",
                   "check_next_buf"}
  /\ {current_buff_cnt, next_buff_cnt, crnt_buff_cnt} \subseteq Buffers
  /\ {pct_hdr_valid, pct_data_wrreq} \subseteq 0 .. NBuff
  /\ wr_rd_cnt \in 0 .. MaxPayload + 1 /\ wr_rd_cnt_max \in 0 .. MaxPayload + 1
  /\ pct_data_wrreq_cnt \in 0 .. MaxPayload + 1
  /\ rd_cnt \in 0 .. 2 * MaxPayload /\ rd_cnt_max \in 0 .. 2 * MaxPayload
  /\ bufQ \in [Buffers -> Seq(WordSet)]
  /\ instx_q \in [Buffers -> WordSet] /\ pct_hdr_array \in [Buffers -> WordSet]
  /\ smpl_used \in Nat

FollowsInPacket(w, v) == v.pkt = w.pkt /\ v.idx = w.idx + 1

\* A buffer holds consecutive words of one packet and no more than a packet,
\* although the writer takes the next buffer for empty from a registered flag.
BufferHoldsOnePacket ==
  \A i \in Buffers :
    /\ Len(bufQ[i]) <= 2 * MaxPayload
    /\ \A k \in 1 .. Len(bufQ[i]) - 1 : FollowsInPacket(bufQ[i][k], bufQ[i][k + 1])

\* fifo_full_sig is seen late and words are under way in the unpacker, yet
\* the sample FIFO never gets more than FifoMargin words over its limit.
SampleFifoFits == smpl_used <= FifoLimit + FifoMargin

\* The packet the read side decides about: the whole of it is in the buffer.
Whole(b) == /\ bufQ[b] # <<>> /\ bufQ[b][1].idx = 1
            /\ Len(bufQ[b]) = 2 * Payload(stream[bufQ[b][1].pkt].size)
Front(b) == stream[bufQ[b][1].pkt]

\* Clocks from a value of the sample counter to the state that acts on it:
\* three stages of the comparator, the mux register and the state itself.
RdLatency == 5

\* A packet starts to be read only when all of it is buffered, and, unless
\* synchronisation is off, at its own sample number, up to the latency of the
\* comparator: never from the header of the packet the buffer held before.
StartsOnTime ==
  [][LET b == crnt_buff_cnt IN
     rd_state = "idle" /\ rd_state' = "rd_buff" =>
       /\ Whole(b)
       /\ Front(b).dis \/ (Front(b).nr <= sample_nr /\ sample_nr <= Front(b).nr + RdLatency)]_vars

\* A packet is thrown away, from the packet FIFO or from a buffer, only when
\* its own sample number has passed and it asks for synchronisation.
DropsOnlyLate ==
  [][/\ wr_state' = "clr_fifo" => /\ ~stream[feed_pkt].dis
                                  /\ stream[feed_pkt].nr < sample_nr
     /\ rd_state' = "clr_buff" => /\ Whole(crnt_buff_cnt) /\ ~Front(crnt_buff_cnt).dis
                                  /\ Front(crnt_buff_cnt).nr < sample_nr]_vars

\* Whatever the sample numbers, every packet is in the end streamed out or
\* dropped, and its buffer is free again.
EveryPacketLeaves ==
  <>[](/\ feed_pkt = Len(stream) /\ feed_idx = 0 /\ wr_state = "idle" /\ rd_state = "idle"
       /\ \A i \in Buffers : bufQ[i] = <<>>)
=============================================================================
