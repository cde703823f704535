------------------------ MODULE Packets2DataProofs ------------------------
(***************************************************************************)
(* Proofs about Packets2Data, for all numbers of buffers, sizes of packets *)
(* and delays of the pointers: a buffer holds one packet, packets start on *)
(* time and are dropped only when late, what leaves is in order, and the   *)
(* sample FIFO does not run over.                                          *)
(*                                                                         *)
(* The invariant follows a packet.  In the packet FIFO the state machine   *)
(* of the write side knows how much of it it has asked for (FeedInv,       *)
(* WrStateInv); its header goes to the registers of a buffer, whose        *)
(* comparator knows it stage by stage (HeaderInv); its words go to the     *)
(* buffer, which is Open until it has the last one and was empty before    *)
(* (SelInv, OpenInv); then the buffer is Full, or is being read            *)
(* (StoredInv); and what the read side has registered about the buffer is  *)
(* true of it (ReadInv).  The buffers that hold packets are a part of a    *)
(* ring, from the reader's to the writer's, with the packets in the order  *)
(* they came in (RingInv), and the words read go on from one to the next   *)
(* (OutInv).                                                               *)
(***************************************************************************)
EXTENDS Packets2DataOrder, Integers, TLAPS

-----------------------------------------------------------------------------
(***************************************************************************)
(* Packets and words.                                                      *)
(***************************************************************************)
Num(b) == IF b THEN 1 ELSE 0
PktNo == 1 .. Len(stream)
HdrWord(p) == [pkt |-> p, idx |-> 1]
WordsIn == {NoWord} \cup [pkt : PktNo, idx : 1 .. 2 * MaxPayload + 1]

\* Input words of a packet, with its header and without it.
W(p) == Words(stream[p].size)
PL(p) == Payload(stream[p].size)

\* The ranges of the registers.
BaseInv ==
  /\ stream \in Seq(HdrSet) /\ sample_nr \in 0 .. MaxNr
  /\ feed_pkt \in 0 .. Len(stream) /\ feed_idx \in 0 .. MaxPayload + 1
  /\ feed_idx > 0 => feed_pkt \in PktNo
  /\ in_pct_data \in WordsIn /\ pct_hdr_reg \in WordsIn /\ pct_data \in WordsIn /\ smpl_buff_q \in WordsIn
  /\ wr_state \in {"idle", "rd_hdr", "wait_cmpr_pipe", "check_smpl_nr", "clr_fifo",
                   "switch_next_buff", "rd_pct", "wait_wr_end", "check_next_buf",
                   "switch_current_buff"}
  /\ rd_state \in {"idle", "clr_buff", "rd_buff", "rd_hold", "switch_next_buff",
                   "check_next_buf"}
  /\ current_buff_cnt \in Buffers /\ next_buff_cnt \in Buffers /\ crnt_buff_cnt \in Buffers
  /\ pct_hdr_valid \in 0 .. NBuff /\ pct_data_wrreq \in 0 .. NBuff
  /\ wr_rd_cnt \in 0 .. MaxPayload + 1 /\ wr_rd_cnt_max \in 0 .. MaxPayload + 1 /\ pct_data_wrreq_cnt \in Nat
  /\ pipe_cnt \in Nat
  /\ rd_cnt \in 0 .. 2 * MaxPayload /\ rd_cnt_max \in 0 .. 2 * MaxPayload
  /\ crnt_buff_payload_size \in 0 .. MaxPayload
  /\ bufQ \in [Buffers -> Seq(WordsIn)]
  /\ bufW \in [Buffers -> [Side -> Nat]] /\ bufR \in [Buffers -> [Side -> Nat]]
  /\ instx_q \in [Buffers -> WordsIn] /\ pct_hdr_array \in [Buffers -> WordsIn]
  /\ pct_buff_size \in [Buffers -> Nat \ {0}] /\ pct_buff_rdy_int \in [Buffers -> BOOLEAN]
  /\ in_pct_rdreq_int \in BOOLEAN /\ in_pct_data_valid \in BOOLEAN /\ in_pct_rdy \in BOOLEAN
  /\ in_pct_reset_n_req \in BOOLEAN /\ current_buff_rdy \in BOOLEAN /\ next_buff_rdy \in BOOLEAN
  /\ crnt_buff_rdy \in BOOLEAN /\ crnt_buff_pct_synch_dis \in BOOLEAN

\* Two half words in the unpacker make one word of the sample FIFO; with the almost
\* full flag down one more half word may be asked for.
UnpackInv ==
  /\ smpl_buff_valid_int \in BOOLEAN /\ smpl_buff_valid \in BOOLEAN /\ fifo_full_sig \in BOOLEAN
  /\ smpl_used \in Nat /\ unpack_cnt \in 0 .. 1
  /\ unpack_pipe \in BOOLEAN \X BOOLEAN
  /\ unpack_pipe[1] => unpack_cnt = 0 /\ ~unpack_pipe[2]
  /\ LET halves == 2 * (smpl_used + Num(unpack_pipe[1]) + Num(unpack_pipe[2]))
                   + unpack_cnt + Num(smpl_buff_valid) + Num(smpl_buff_valid_int)
     IN halves <= 2 * FifoLimit + IF fifo_full_sig THEN 7 ELSE 6

-----------------------------------------------------------------------------
(***************************************************************************)
(* The write side: the packet it works on, the words of it that have left  *)
(* the packet FIFO, and those with the one that has been asked for.        *)
(***************************************************************************)
Pkt == IF pct_data_wrreq_cnt = 0 THEN feed_pkt ELSE pct_hdr_reg.pkt
Got == IF in_pct_data_valid THEN pct_data_wrreq_cnt + 1 ELSE pct_data_wrreq_cnt
Asked == IF in_pct_rdreq_int THEN Got + 1 ELSE Got

\* Between packets the packet FIFO is empty or begins with a header; within one it
\* is where the counters say.
FeedInv ==
  /\ Asked = wr_rd_cnt
  /\ ~in_pct_reset_n_req => wr_state = "idle" /\ ~in_pct_rdy
  /\ wr_state = "idle" =>
       /\ ~in_pct_rdreq_int /\ ~in_pct_data_valid
       /\ in_pct_rdy => feed_idx = 1
       /\ in_pct_reset_n_req => feed_idx <= 1
  /\ wr_state # "idle" =>
       /\ Pkt \in PktNo /\ wr_rd_cnt <= W(Pkt)
       /\ IF Got < W(Pkt) THEN feed_pkt = Pkt /\ feed_idx = Got + 1
          ELSE (feed_idx = 0 /\ feed_pkt = Pkt) \/ (feed_idx = 1 /\ feed_pkt = Pkt + 1)
       /\ in_pct_data_valid => in_pct_data = [pkt |-> Pkt, idx |-> pct_data_wrreq_cnt + 1]
       /\ pct_data_wrreq_cnt > 0 => pct_hdr_reg = HdrWord(Pkt) /\ wr_rd_cnt_max = W(Pkt)

\* The header has been read, and nothing more.
HdrDone == wr_rd_cnt = 1 /\ pct_data_wrreq_cnt = 1

WrStateInv ==
  /\ wr_state = "rd_hdr" => wr_rd_cnt = 0
  /\ wr_state = "wait_cmpr_pipe" =>
       /\ wr_rd_cnt = 1 /\ pipe_cnt <= 4
       /\ pipe_cnt = 0 => in_pct_rdreq_int
       /\ pipe_cnt = 1 => in_pct_data_valid
       /\ pipe_cnt = 2 => in_pct_data = HdrWord(Pkt)
       /\ pipe_cnt >= 2 => HdrDone
  /\ wr_state \in {"check_smpl_nr", "clr_fifo", "switch_next_buff"} => HdrDone
  /\ wr_state = "rd_pct" => 1 <= pct_data_wrreq_cnt /\ wr_rd_cnt < wr_rd_cnt_max
  /\ wr_state = "wait_wr_end" => 1 <= pct_data_wrreq_cnt /\ wr_rd_cnt = wr_rd_cnt_max
  /\ wr_state = "check_next_buf" =>
       1 <= pct_data_wrreq_cnt /\ wr_rd_cnt = wr_rd_cnt_max /\ ~in_pct_rdreq_int
  /\ wr_state = "switch_current_buff" =>
       1 <= pct_data_wrreq_cnt /\ wr_rd_cnt = wr_rd_cnt_max /\ pct_data_wrreq_cnt = wr_rd_cnt_max

\* A stage of the write side's comparator that says so is right: the packet is late.
LessOK(k) == wr_less[k] => stream[Pkt].nr < sample_nr

LateInv ==
  /\ wr_state = "wait_cmpr_pipe" /\ pipe_cnt >= 3 => LessOK(1)
  /\ wr_state = "wait_cmpr_pipe" /\ pipe_cnt >= 4 => LessOK(2)
  /\ wr_state = "check_smpl_nr" => LessOK(1) /\ LessOK(2) /\ LessOK(3)
  /\ wr_state = "clr_fifo" => ~stream[Pkt].dis /\ stream[Pkt].nr < sample_nr

-----------------------------------------------------------------------------
(***************************************************************************)
(* The buffers.                                                            *)
(***************************************************************************)
\* Older values of a pointer are smaller, and the read side has not read what it
\* has not seen.
PointerInv ==
  \A i \in Buffers :
    /\ \A s, t \in Side : s <= t => bufW[i][t] <= bufW[i][s] /\ bufR[i][t] <= bufR[i][s]
    /\ bufR[i][0] <= bufW[i][Lag]
    /\ Len(bufQ[i]) = bufW[i][0] - bufR[i][0]

\* The buffer selected is empty until the words of the packet come, and a word or a
\* header on its way into a buffer goes into the one of its packet.
SelInv ==
  /\ wr_state \in {"rd_pct", "wait_wr_end"} => next_buff_cnt = NextBuff(current_buff_cnt)
  /\ wr_state = "check_next_buf" =>
       \/ next_buff_cnt = current_buff_cnt /\ pct_data_wrreq_cnt = wr_rd_cnt_max
       \/ next_buff_cnt = NextBuff(current_buff_cnt)
  /\ wr_state \notin {"rd_pct", "wait_wr_end", "check_next_buf"} => next_buff_cnt = current_buff_cnt
  /\ pct_data_wrreq # NBuff =>
       /\ pct_data_wrreq_cnt >= 2 /\ pct_data = [pkt |-> Pkt, idx |-> pct_data_wrreq_cnt]
       /\ wr_state \in {"rd_pct", "wait_wr_end", "check_next_buf", "switch_current_buff"}
       /\ pct_data_wrreq # next_buff_cnt
       /\ wr_state \in {"rd_pct", "wait_wr_end"} => pct_data_wrreq = current_buff_cnt
       /\ wr_state \in {"check_next_buf"} /\ pct_data_wrreq_cnt < wr_rd_cnt_max => pct_data_wrreq = current_buff_cnt
  /\ pct_hdr_valid # NBuff =>
       wr_state = "wait_cmpr_pipe" /\ pipe_cnt = 2 /\ pct_hdr_valid = current_buff_cnt
  /\ wr_state = "wait_cmpr_pipe" /\ pipe_cnt = 2 => pct_hdr_valid = current_buff_cnt
  /\ wr_state \in {"switch_current_buff", "idle", "rd_hdr", "wait_cmpr_pipe", "check_smpl_nr",
                   "clr_fifo", "switch_next_buff"} => bufQ[current_buff_cnt] = <<>>
  /\ wr_state = "check_next_buf" /\ next_buff_rdy => bufQ[next_buff_cnt] = <<>>

\* A verdict of the comparator on nr that is d clocks old; its "more" is not used.
CmpOK(c, nr, d, s) == /\ c = "equal" => nr <= s /\ s <= nr + d
                      /\ c = "less" => nr < s

\* Buffer i has the header of packet p, and k stages of its comparator have seen it.
HdrIn(i, p) == pct_hdr_array[i] = HdrWord(p) /\ pct_buff_size[i] = 2 * PL(p)
HdrFor(i, p, k) == /\ p \in PktNo /\ HdrIn(i, p)
                   /\ \A j \in 1 .. k : CmpOK(rd_cmp[i][j], stream[p].nr, j, sample_nr)

\* Words of packet p up to e.
Seg(q, p, e) == /\ Len(q) <= e
                /\ \A k \in 1 .. Len(q) : q[k] = [pkt |-> p, idx |-> e - Len(q) + k]

\* Buffer i is being written; so many words have been stored.
Open(i) == \/ pct_data_wrreq = i
           \/ /\ i = current_buff_cnt /\ wr_state \in {"switch_next_buff", "rd_pct", "wait_wr_end", "check_next_buf"}
              /\ pct_data_wrreq_cnt < wr_rd_cnt_max
Stored(i) == 2 * IF pct_data_wrreq = i THEN pct_data_wrreq_cnt - 2 ELSE pct_data_wrreq_cnt - 1

\* Before the write side decides, the buffer selected knows the packet's header.
HeaderInv ==
  /\ wr_state = "wait_cmpr_pipe" /\ pipe_cnt >= 3 => HdrFor(current_buff_cnt, Pkt, pipe_cnt - 3)
  /\ wr_state = "check_smpl_nr" => HdrFor(current_buff_cnt, Pkt, 2)

\* The packet of a buffer by its header; all of it is there; it is being read; all
\* that is there has come to the read side.
BP(i) == pct_hdr_array[i].pkt
Full(i) == HdrFor(i, BP(i), 3) /\ Seg(bufQ[i], BP(i), 2 * PL(BP(i))) /\ Len(bufQ[i]) = 2 * PL(BP(i))
Reading == rd_state \in {"rd_buff", "rd_hold"}
AllIn(i) == bufW[i][Lag] = bufW[i][0]

OpenInv == \A i \in Buffers : Open(i) =>
  HdrFor(i, Pkt, 3) /\ Seg(bufQ[i], Pkt, Stored(i)) /\ Len(bufQ[i]) = Stored(i)

StoredInv == \A i \in Buffers : ~Open(i) /\ bufQ[i] # <<>> =>
  Full(i) \/ (Reading /\ i = crnt_buff_cnt)

\* A buffer that holds its packet and waits to be read, the pointer of the last
\* word having come to the read side.
Ready(i) == Full(i) /\ AllIn(i) /\ ~Open(i)

\* The rest of its packet, as rd_cnt says.
BeingRead(c) ==
  /\ ~Open(c) /\ AllIn(c)
  /\ BP(c) \in PktNo /\ HdrIn(c, BP(c)) /\ Seg(bufQ[c], BP(c), 2 * PL(BP(c)))
  /\ rd_cnt < 2 * PL(BP(c)) /\ Len(bufQ[c]) = 2 * PL(BP(c)) - rd_cnt
  /\ rd_cnt_max = 2 * PL(BP(c)) /\ crnt_buff_payload_size = stream[BP(c)].size

\* What has been registered of the buffer in idle, and what a cleared one is.
MayStart(c) ==
  /\ Ready(c)
  /\ crnt_buff_payload_size = stream[BP(c)].size
  /\ crnt_buff_pct_synch_dis = stream[BP(c)].dis
  /\ CmpOK(crnt_buff_cmp, stream[BP(c)].nr, 4, sample_nr)

IsLate(c) == Full(c) /\ ~Open(c) /\ ~stream[BP(c)].dis /\ stream[BP(c)].nr < sample_nr

\* The ready flag may be old for the buffer that is being read, for no other.
ReadInv ==
  \A i \in Buffers :
    /\ pct_buff_rdy_int[i] => Ready(i) \/ (Reading /\ i = crnt_buff_cnt)
    /\ i = crnt_buff_cnt => /\ Reading => BeingRead(i)
                            /\ rd_state = "idle" /\ crnt_buff_rdy => MayStart(i)
                            /\ rd_state = "clr_buff" => IsLate(i)

IInv == /\ BaseInv /\ UnpackInv /\ FeedInv /\ WrStateInv /\ LateInv /\ PointerInv
        /\ SelInv /\ HeaderInv /\ OpenInv /\ StoredInv /\ ReadInv

-----------------------------------------------------------------------------
\* A packet has a payload of 1 to MaxPayload input words and one more with its header.
LEMMA Sizes ==
  ASSUME stream \in Seq(HdrSet), NEW p \in PktNo
  PROVE  /\ stream[p] \in HdrSet /\ PL(p) \in 1 .. MaxPayload
         /\ W(p) = PL(p) + 1 /\ W(p) \in 2 .. MaxPayload + 1
<1>1. stream[p] \in HdrSet
  BY DEF PktNo
<1>2. stream[p].size \in 0 .. MaxPayload
  BY <1>1 DEF HdrSet
<1> QED
  BY <1>1, <1>2, ConstantsOK DEF PL, W, Words, Payload

\* What any word would be read as when it is taken for a header.
LEMMA HdrSize ==
  ASSUME stream \in Seq(HdrSet), NEW w \in WordsIn
  PROVE  Hdr(w).size \in 0 .. MaxPayload /\ Hdr(w).dis \in BOOLEAN /\ Hdr(w).nr \in Nat
<1>1. CASE w.idx = 1
  <2>1. w.pkt \in PktNo
    BY <1>1 DEF WordsIn, NoWord
  <2>2. stream[w.pkt] \in HdrSet
    BY <2>1, Sizes
  <2> QED
    BY <1>1, <2>2 DEF Hdr, HdrSet
<1>2. CASE w.idx # 1
  BY <1>2, ConstantsOK DEF Hdr, NoHdr
<1> QED
  BY <1>1, <1>2

\* Words that were asked for before the almost full flag was seen: the half words on
\* their way into the sample FIFO are counted with those in it.
LEMMA UnpackStep ==
  ASSUME UnpackInv, NEW n \in 0 .. 1, NEW take \in 0 .. 1, ClockWith(n, take)
  PROVE  UnpackInv'
<1> USE DEF UnpackInv, Num
<1> DEFINE halves == 2 * (smpl_used + Num(unpack_pipe[1]) + Num(unpack_pipe[2]))
                     + unpack_cnt + Num(smpl_buff_valid) + Num(smpl_buff_valid_int)
<1>1. /\ take \in 0 .. 1 /\ take <= smpl_used
      /\ smpl_used' = smpl_used - take + Num(unpack_pipe[2])
  BY DEF ClockWith, SampleFifo
<1>2. /\ smpl_buff_valid_int' = RdReqInt /\ smpl_buff_valid' = smpl_buff_valid_int
      /\ unpack_cnt' = IF smpl_buff_valid THEN 1 - unpack_cnt ELSE unpack_cnt
      /\ unpack_pipe' = <<smpl_buff_valid /\ unpack_cnt = 1, unpack_pipe[1]>>
      /\ fifo_full_sig' = (smpl_used > FifoLimit)
  BY DEF ClockWith, OutClock
<1>3. RdReqInt \in BOOLEAN /\ (RdReqInt => ~fifo_full_sig)
  BY DEF RdReqInt
<1>4. /\ unpack_pipe[1] \in BOOLEAN /\ unpack_pipe[2] \in BOOLEAN
      /\ unpack_pipe'[1] = (smpl_buff_valid /\ unpack_cnt = 1)
      /\ unpack_pipe'[2] = unpack_pipe[1]
  BY <1>2
<1>5. /\ smpl_used' \in Nat /\ unpack_cnt' \in 0 .. 1 /\ unpack_pipe' \in BOOLEAN \X BOOLEAN
      /\ smpl_buff_valid_int' \in BOOLEAN /\ smpl_buff_valid' \in BOOLEAN
      /\ fifo_full_sig' \in BOOLEAN
  BY <1>1, <1>2, <1>3, <1>4
<1>6. unpack_pipe'[1] => unpack_cnt' = 0 /\ ~unpack_pipe'[2]
  BY <1>2, <1>4
<1>7. halves' <= halves + Num(RdReqInt)
  BY <1>1, <1>2, <1>3, <1>4
<1>8. smpl_used <= FifoLimit => halves <= 2 * FifoLimit + 5
  BY <1>4, ConstantsOK
<1>9. halves' <= 2 * FifoLimit + IF fifo_full_sig' THEN 7 ELSE 6
  <2> HIDE DEF halves
  <2>1. halves <= 2 * FifoLimit + IF fifo_full_sig THEN 7 ELSE 6
    BY DEF halves
  <2>2. halves \in Int /\ halves' \in Int
    BY <1>4, <1>5 DEF halves
  <2> QED
    BY <1>2, <1>3, <1>7, <1>8, <2>1, <2>2, ConstantsOK
<1> QED
  BY <1>5, <1>6, <1>9

\* With what is under way counted, the FIFO has FifoMargin words over its limit at most.
LEMMA SampleFifoBound ==
  ASSUME UnpackInv
  PROVE  SampleFifoFits
BY ConstantsOK DEF UnpackInv, SampleFifoFits, Num

-----------------------------------------------------------------------------
\* While p2d_wr_fsm works on a packet, it is the same packet.
LEMMA PktStays ==
  ASSUME BaseInv, FeedInv, NEW m \in 0 .. 1, NEW take \in 0 .. 1, ClockWith(m, take), wr_state # "idle"
  PROVE  Pkt' = Pkt /\ Pkt \in PktNo /\ stream' = stream /\ PktNo' = PktNo
<1>1. /\ feed_pkt' = feed_pkt /\ stream' = stream
      /\ pct_data_wrreq_cnt' = IF in_pct_data_valid THEN pct_data_wrreq_cnt + 1
                               ELSE pct_data_wrreq_cnt
      /\ pct_hdr_reg' = IF WrHdrHere THEN in_pct_data ELSE pct_hdr_reg
  BY DEF ClockWith, FeedClock, WrClock, WrOut
<1>2. /\ pct_data_wrreq_cnt \in Nat /\ Pkt \in PktNo
      /\ in_pct_data_valid => in_pct_data = [pkt |-> Pkt, idx |-> pct_data_wrreq_cnt + 1]
  BY DEF BaseInv, FeedInv
<1>3. CASE in_pct_data_valid /\ pct_data_wrreq_cnt = 0
  BY <1>1, <1>2, <1>3 DEF Pkt, WrHdrHere, PktNo
<1>4. CASE ~in_pct_data_valid \/ pct_data_wrreq_cnt > 0
  BY <1>1, <1>2, <1>4 DEF Pkt, WrHdrHere, PktNo
<1> QED
  BY <1>1, <1>2, <1>3, <1>4 DEF PktNo

\* The packet FIFO and p2d_wr_fsm agree on how much of the packet has been asked for,
\* has left the FIFO and has been counted.
LEMMA FeedStep ==
  ASSUME BaseInv, FeedInv, WrStateInv, NEW m \in 0 .. 1, NEW take \in 0 .. 1, ClockWith(m, take)
  PROVE  FeedInv'
<1>1. /\ feed_pkt' = feed_pkt /\ stream' = stream
      /\ feed_idx' = IF ~in_pct_reset_n_req THEN 0 ELSE IF ~FeedRead THEN feed_idx
                     ELSE IF feed_idx = W(feed_pkt) THEN 0 ELSE feed_idx + 1
      /\ in_pct_data' = IF FeedRead THEN [pkt |-> feed_pkt, idx |-> feed_idx] ELSE in_pct_data
      /\ in_pct_rdy' = (feed_idx = 1 /\ in_pct_reset_n_req)
  BY DEF ClockWith, FeedClock, W
<1>2. /\ in_pct_data_valid' = in_pct_rdreq_int
      /\ pct_data_wrreq_cnt' = IF in_pct_data_valid THEN pct_data_wrreq_cnt + 1
                               ELSE IF wr_state = "idle" THEN 0 ELSE pct_data_wrreq_cnt
      /\ in_pct_rdreq_int' = (wr_state \in {"rd_pct", "rd_hdr"})
      /\ in_pct_reset_n_req' = (wr_state # "clr_fifo")
      /\ pct_hdr_reg' = IF WrHdrHere THEN in_pct_data ELSE pct_hdr_reg
      /\ wr_rd_cnt_max' = IF WrHdrHere THEN Words(Hdr(in_pct_data).size) ELSE wr_rd_cnt_max
      /\ wr_rd_cnt' = IF wr_state \in {"rd_pct", "rd_hdr"} THEN wr_rd_cnt + 1
                      ELSE IF wr_state = "idle" THEN 0 ELSE wr_rd_cnt
      /\ WrFsm
  BY DEF ClockWith, WrClock, WrOut, WrCounters
<1>3. /\ feed_pkt \in 0 .. Len(stream) /\ feed_idx \in Nat /\ pct_data_wrreq_cnt \in Nat
      /\ feed_idx > 0 => feed_pkt \in PktNo
      /\ in_pct_rdreq_int \in BOOLEAN /\ in_pct_data_valid \in BOOLEAN /\ in_pct_rdy \in BOOLEAN
      /\ in_pct_reset_n_req \in BOOLEAN /\ wr_rd_cnt \in Nat /\ pipe_cnt \in Nat
      /\ stream \in Seq(HdrSet)
  BY DEF BaseInv
<1>4. CASE wr_state = "idle"
  <2>1. /\ ~in_pct_rdreq_int /\ ~in_pct_data_valid /\ (in_pct_rdy => feed_idx = 1)
        /\ in_pct_reset_n_req => feed_idx <= 1
        /\ ~in_pct_reset_n_req => ~in_pct_rdy
    BY <1>4 DEF FeedInv
  <2>2. /\ Got' = 0 /\ ~in_pct_rdreq_int' /\ wr_rd_cnt' = 0 /\ ~in_pct_data_valid'
        /\ pct_data_wrreq_cnt' = 0
    BY <1>2, <1>4, <2>1 DEF Got, Asked
  <2>3. /\ ~FeedRead /\ in_pct_reset_n_req'
    BY <1>2, <1>4, <2>1 DEF FeedRead
  <2>4. wr_state' = IF in_pct_rdy THEN "rd_hdr" ELSE "idle"
    BY <1>2, <1>4 DEF WrFsm, WrGo
  <2>5. CASE in_pct_rdy
    <3>1. feed_idx' = 1 /\ feed_pkt' \in PktNo' /\ Pkt' = feed_pkt'
      BY <1>1, <1>3, <2>1, <2>2, <2>3, <2>5 DEF Pkt, PktNo
    <3>2. W(feed_pkt)' = W(feed_pkt) /\ W(feed_pkt) \in Nat /\ W(feed_pkt) >= 2
      <4>1. feed_pkt \in PktNo
        BY <1>1, <3>1 DEF PktNo
      <4> QED
        BY <1>1, <1>3, <4>1, Sizes, ConstantsOK DEF W, Words, Payload
    <3> QED
      BY <2>2, <2>3, <2>4, <2>5, <3>1, <3>2, <1>1, <1>3 DEF FeedInv, Asked
  <2>6. CASE ~in_pct_rdy
    BY <1>1, <1>2, <1>3, <2>1, <2>2, <2>3, <2>4, <2>6 DEF FeedInv, Asked
  <2> QED
    BY <2>5, <2>6
<1>5. CASE wr_state # "idle"
  <2>1. Pkt' = Pkt /\ Pkt \in PktNo /\ PktNo' = PktNo
    BY <1>5, PktStays
  <2>2. W(Pkt)' = W(Pkt) /\ W(Pkt) \in 2 .. MaxPayload + 1
    BY <1>1, <1>3, <2>1, Sizes DEF W, Words, Payload
  <2> DEFINE w == W(Pkt)
  <2>3. /\ Asked = wr_rd_cnt /\ wr_rd_cnt <= w /\ in_pct_reset_n_req
        /\ IF Got < w THEN feed_pkt = Pkt /\ feed_idx = Got + 1
           ELSE (feed_idx = 0 /\ feed_pkt = Pkt) \/ (feed_idx = 1 /\ feed_pkt = Pkt + 1)
        /\ in_pct_data_valid => in_pct_data = [pkt |-> Pkt, idx |-> pct_data_wrreq_cnt + 1]
        /\ pct_data_wrreq_cnt > 0 => pct_hdr_reg = HdrWord(Pkt) /\ wr_rd_cnt_max = w
    BY <1>5 DEF FeedInv
  <2>4. Got' = Asked /\ Got \in Nat /\ Asked' = wr_rd_cnt'
    <3>1. Got \in Nat /\ pct_data_wrreq_cnt' = Got
      BY <1>2, <1>3, <1>5 DEF Got
    <3>2. Got' = Asked
      BY <1>2, <1>3, <3>1 DEF Got, Asked
    <3>3. Asked' = wr_rd_cnt'
      BY <1>2, <1>3, <1>5, <2>3, <3>1, <3>2 DEF Asked
    <3> QED
      BY <3>1, <3>2, <3>3
  <2>5. /\ in_pct_rdreq_int => FeedRead /\ Got < w
        /\ ~in_pct_rdreq_int => ~FeedRead
    BY <1>3, <2>2, <2>3, <2>4 DEF FeedRead, Asked
  <2>6. /\ IF Got' < w THEN feed_pkt' = Pkt /\ feed_idx' = Got' + 1
           ELSE (feed_idx' = 0 /\ feed_pkt' = Pkt) \/ (feed_idx' = 1 /\ feed_pkt' = Pkt + 1)
        /\ in_pct_data_valid' =>
             in_pct_data' = [pkt |-> Pkt, idx |-> pct_data_wrreq_cnt' + 1]
    <3>1. CASE in_pct_rdreq_int
      <4>1. feed_pkt = Pkt /\ feed_idx = Got + 1 /\ Got' = Got + 1 /\ pct_data_wrreq_cnt' = Got
        BY <1>2, <1>3, <1>5, <2>3, <2>4, <2>5, <3>1 DEF Got, Asked
      <4> QED
        BY <1>1, <1>2, <2>2, <2>3, <2>4, <2>5, <3>1, <4>1
    <3>2. CASE ~in_pct_rdreq_int
      BY <1>1, <1>2, <2>2, <2>3, <2>4, <2>5, <3>2 DEF Asked
    <3> QED
      BY <1>3, <3>1, <3>2
  <2>7. pct_data_wrreq_cnt' > 0 => pct_hdr_reg' = HdrWord(Pkt) /\ wr_rd_cnt_max' = w
    <3>1. CASE in_pct_data_valid /\ pct_data_wrreq_cnt = 0
      <4>1. in_pct_data = HdrWord(Pkt)
        BY <2>3, <3>1 DEF HdrWord
      <4>2. Words(Hdr(in_pct_data).size) = w
        BY <4>1 DEF Hdr, HdrWord, W
      <4> QED
        BY <1>2, <3>1, <4>1, <4>2 DEF WrHdrHere
    <3>2. CASE ~in_pct_data_valid \/ pct_data_wrreq_cnt > 0
      BY <1>2, <1>3, <1>5, <2>3, <3>2 DEF WrHdrHere
    <3> QED
      BY <1>3, <3>1, <3>2
  <2>8. wr_rd_cnt' <= w
    <3>1. CASE wr_state = "rd_hdr"
      BY <1>2, <2>2, <3>1 DEF WrStateInv
    <3>2. CASE wr_state = "rd_pct"
      BY <1>2, <1>3, <2>2, <2>3, <3>2 DEF WrStateInv
    <3>3. CASE wr_state \notin {"rd_pct", "rd_hdr"}
      BY <1>2, <1>5, <2>3, <3>3
    <3> QED
      BY <3>1, <3>2, <3>3
  <2>9. ~in_pct_reset_n_req' => wr_state' = "idle" /\ ~in_pct_rdy'
    <3>1. SUFFICES ASSUME wr_state = "clr_fifo" PROVE wr_state' = "idle" /\ feed_idx # 1
      BY <1>1, <1>2
    <3>2. Got = 1
      BY <3>1, <2>3, <1>3 DEF WrStateInv, HdrDone, Got, Asked
    <3>3. feed_idx # 1
      BY <2>2, <2>3, <3>2
    <3> QED
      BY <1>2, <3>1, <3>3 DEF WrFsm, WrGo
  <2>10. wr_state' = "idle" => /\ ~in_pct_rdreq_int' /\ ~in_pct_data_valid'
                               /\ in_pct_rdy' => feed_idx' = 1
                               /\ in_pct_reset_n_req' => feed_idx' <= 1
    <3>1. SUFFICES ASSUME wr_state' = "idle"
                   PROVE  /\ ~in_pct_rdreq_int' /\ ~in_pct_data_valid'
                          /\ in_pct_rdy' => feed_idx' = 1
                          /\ in_pct_reset_n_req' => feed_idx' <= 1
      OBVIOUS
    <3>2. wr_state \in {"clr_fifo", "switch_current_buff"}
      BY <1>2, <1>5, <3>1 DEF WrFsm, WrGo
    <3>3. ~in_pct_rdreq_int
      BY <3>2, <2>3, <1>3 DEF WrStateInv, HdrDone, Got, Asked
    <3>4. CASE wr_state = "clr_fifo"
      BY <1>1, <1>2, <3>3, <3>4, <2>9
    <3>5. CASE wr_state = "switch_current_buff"
      <4>1. Got = w
        BY <1>3, <2>2, <2>3, <2>4, <3>3, <3>5 DEF WrStateInv, Got, Asked
      <4> QED
        BY <1>1, <1>2, <1>3, <2>1, <2>2, <2>3, <2>4, <3>3, <3>5, <4>1, <2>5 DEF Asked, PktNo
    <3> QED
      BY <3>2, <3>4, <3>5
  <2> HIDE DEF w
  <2>11. W(Pkt)' = w
    BY <2>2 DEF w
  <2> QED
    BY <2>1, <2>11, <2>4, <2>6, <2>7, <2>8, <2>9, <2>10 DEF FeedInv, HdrWord
<1> QED
  BY <1>4, <1>5

\* What the counters say in each state of p2d_wr_fsm.
LEMMA WrStateStep ==
  ASSUME BaseInv, FeedInv, WrStateInv, NEW m \in 0 .. 1, NEW take \in 0 .. 1, ClockWith(m, take)
  PROVE  WrStateInv'
<1>1. /\ in_pct_data' = IF FeedRead THEN [pkt |-> feed_pkt, idx |-> feed_idx] ELSE in_pct_data
      /\ in_pct_data_valid' = in_pct_rdreq_int
      /\ pct_data_wrreq_cnt' = IF in_pct_data_valid THEN pct_data_wrreq_cnt + 1
                               ELSE IF wr_state = "idle" THEN 0 ELSE pct_data_wrreq_cnt
      /\ in_pct_rdreq_int' = (wr_state \in {"rd_pct", "rd_hdr"})
      /\ wr_rd_cnt_max' = IF WrHdrHere THEN Words(Hdr(in_pct_data).size) ELSE wr_rd_cnt_max
      /\ wr_rd_cnt' = IF wr_state \in {"rd_pct", "rd_hdr"} THEN wr_rd_cnt + 1
                      ELSE IF wr_state = "idle" THEN 0 ELSE wr_rd_cnt
      /\ pipe_cnt' = IF wr_state = "wait_cmpr_pipe" THEN pipe_cnt + 1 ELSE 0
      /\ WrFsm
  BY DEF ClockWith, FeedClock, WrClock, WrOut, WrCounters
<1>2. /\ pct_data_wrreq_cnt \in Nat /\ wr_rd_cnt \in Nat /\ wr_rd_cnt_max \in Nat
      /\ pipe_cnt \in Nat /\ in_pct_rdreq_int \in BOOLEAN /\ in_pct_data_valid \in BOOLEAN
  BY DEF BaseInv
<1>3. WrHdrHere <=> in_pct_data_valid /\ pct_data_wrreq_cnt = 0
  BY DEF WrHdrHere
<1>4. /\ wr_rd_cnt = IF in_pct_rdreq_int THEN Got + 1 ELSE Got
      /\ Got = IF in_pct_data_valid THEN pct_data_wrreq_cnt + 1 ELSE pct_data_wrreq_cnt
  BY DEF FeedInv, Asked, Got
<1>5. CASE wr_state = "idle"
  BY <1>1, <1>2, <1>5 DEF WrFsm, WrGo, WrStateInv
<1>6. CASE wr_state = "rd_hdr"
  <2>1. wr_rd_cnt = 0
    BY <1>6 DEF WrStateInv
  <2>2. /\ wr_state' = "wait_cmpr_pipe" /\ wr_rd_cnt' = 1 /\ pipe_cnt' = 0 /\ in_pct_rdreq_int'
    <3>1. wr_rd_cnt' = 1 /\ pipe_cnt' = 0
      BY <1>1, <1>6, <2>1
    <3>2. in_pct_rdreq_int'
      BY <1>1, <1>6
    <3>3. wr_state' = "wait_cmpr_pipe"
      BY <1>1, <1>6 DEF WrFsm, WrGo
    <3> QED
      BY <3>1, <3>2, <3>3
  <2> QED
    BY <2>2 DEF WrStateInv
<1>7. CASE wr_state = "wait_cmpr_pipe"
  <2>1. /\ wr_rd_cnt = 1 /\ pipe_cnt <= 4
        /\ pipe_cnt = 0 => in_pct_rdreq_int
        /\ pipe_cnt = 1 => in_pct_data_valid
        /\ pipe_cnt >= 2 => pct_data_wrreq_cnt = 1
    BY <1>7 DEF WrStateInv, HdrDone
  <2>2. wr_rd_cnt' = 1 /\ pipe_cnt' = pipe_cnt + 1
    BY <1>1, <1>7, <2>1
  <2>3. wr_state' = IF pipe_cnt > 3 THEN "check_smpl_nr" ELSE "wait_cmpr_pipe"
    BY <1>1, <1>7 DEF WrFsm, WrGo, PipeWait
  <2>4. CASE pipe_cnt = 0
    BY <1>1, <2>1, <2>2, <2>3, <2>4 DEF WrStateInv
  <2>5. CASE pipe_cnt = 1
    <3>1. pct_data_wrreq_cnt = 0 /\ ~in_pct_rdreq_int /\ in_pct_data_valid
      BY <1>2, <1>4, <2>1, <2>5
    <3>2. HdrDone'
      BY <1>1, <2>2, <3>1 DEF HdrDone
    <3>3. in_pct_data' = HdrWord(Pkt)
      BY <1>1, <1>7, <3>1 DEF FeedRead, FeedInv, HdrWord
    <3>4. Pkt' = Pkt
      BY <1>7, PktStays
    <3> QED
      BY <2>2, <2>3, <2>5, <3>2, <3>3, <3>4 DEF WrStateInv, HdrWord
  <2>6. CASE pipe_cnt >= 2
    <3>1. ~in_pct_data_valid /\ pct_data_wrreq_cnt = 1
      BY <1>2, <1>4, <2>1, <2>6
    <3>2. HdrDone'
      BY <1>1, <1>7, <2>2, <3>1 DEF HdrDone
    <3> QED
      BY <1>2, <2>1, <2>2, <2>3, <2>6, <3>2 DEF WrStateInv
  <2> QED
    BY <1>2, <2>4, <2>5, <2>6
<1>8. CASE wr_state \in {"check_smpl_nr", "clr_fifo", "switch_next_buff"}
  <2>1. /\ wr_rd_cnt = 1 /\ pct_data_wrreq_cnt = 1 /\ ~in_pct_data_valid
    BY <1>2, <1>4, <1>8 DEF WrStateInv, HdrDone
  <2>2. /\ HdrDone' /\ wr_rd_cnt' = 1 /\ pct_data_wrreq_cnt' = 1
        /\ wr_rd_cnt_max' = wr_rd_cnt_max
    BY <1>1, <1>3, <1>8, <2>1 DEF HdrDone
  <2>3. wr_state' \in {"check_smpl_nr", "clr_fifo", "switch_next_buff", "idle", "rd_pct"}
    BY <1>1, <1>8 DEF WrFsm, WrGo
  <2>4. wr_rd_cnt_max >= 2
    <3>1. wr_rd_cnt_max = W(Pkt) /\ Pkt \in PktNo
      BY <1>8, <2>1 DEF FeedInv
    <3>2. stream \in Seq(HdrSet)
      BY DEF BaseInv
    <3>3. PICK n \in 2 .. MaxPayload + 1 : n = W(Pkt)
      BY <3>1, <3>2, Sizes
    <3> QED
      BY <3>1, <3>3
  <2> QED
    BY <1>2, <2>2, <2>3, <2>4 DEF WrStateInv
<1>9. CASE wr_state = "rd_pct"
  <2>1. /\ 1 <= pct_data_wrreq_cnt /\ wr_rd_cnt < wr_rd_cnt_max
    BY <1>9 DEF WrStateInv
  <2>2. /\ 1 <= pct_data_wrreq_cnt' /\ wr_rd_cnt_max' = wr_rd_cnt_max
        /\ wr_rd_cnt' = wr_rd_cnt + 1
    BY <1>1, <1>2, <1>3, <1>9, <2>1
  <2>3. wr_state' = IF wr_rd_cnt < wr_rd_cnt_max - 1 THEN "rd_pct" ELSE "wait_wr_end"
    BY <1>1, <1>9 DEF WrFsm, WrGo
  <2> QED
    BY <1>2, <2>1, <2>2, <2>3 DEF WrStateInv
<1>10. CASE wr_state \in {"wait_wr_end", "check_next_buf", "switch_current_buff"}
  <2>1. 1 <= pct_data_wrreq_cnt /\ wr_rd_cnt = wr_rd_cnt_max
    BY <1>2, <1>10 DEF WrStateInv
  <2>2. /\ 1 <= pct_data_wrreq_cnt' /\ wr_rd_cnt' = wr_rd_cnt /\ wr_rd_cnt_max' = wr_rd_cnt_max
        /\ ~in_pct_rdreq_int'
    <3>1. 1 <= pct_data_wrreq_cnt'
      BY <1>1, <1>2, <1>10, <2>1
    <3>2. wr_rd_cnt' = wr_rd_cnt /\ ~in_pct_rdreq_int'
      BY <1>1, <1>10
    <3>3. wr_rd_cnt_max' = wr_rd_cnt_max
      BY <1>1, <1>2, <1>3, <2>1
    <3> QED
      BY <3>1, <3>2, <3>3
  <2>3. CASE wr_state = "wait_wr_end"
    BY <1>1, <2>1, <2>2, <2>3 DEF WrStateInv, WrFsm, WrGo
  <2>4. CASE wr_state = "check_next_buf"
    <3>1. ~in_pct_rdreq_int
      BY <2>4 DEF WrStateInv
    <3>2. pct_data_wrreq_cnt' = wr_rd_cnt
      BY <1>1, <1>2, <1>4, <2>4, <3>1
    <3>3. wr_state' \in {"check_next_buf", "switch_current_buff"}
      BY <1>1, <2>4 DEF WrFsm, WrGo
    <3> QED
      BY <2>1, <2>2, <3>2, <3>3 DEF WrStateInv
  <2>5. CASE wr_state = "switch_current_buff"
    BY <1>1, <2>5 DEF WrStateInv, WrFsm, WrGo
  <2> QED
    BY <1>10, <2>3, <2>4, <2>5
<1> QED
  BY <1>5, <1>6, <1>7, <1>8, <1>9, <1>10 DEF BaseInv

\* The comparator of the write side has compared this packet when its verdict is read.
LEMMA LateStep ==
  ASSUME BaseInv, FeedInv, WrStateInv, LateInv, NEW m \in 0 .. 1, NEW take \in 0 .. 1, ClockWith(m, take)
  PROVE  LateInv'
<1>1. /\ stream' = stream /\ sample_nr \in Nat /\ sample_nr' \in Nat /\ sample_nr <= sample_nr'
      /\ wr_less' = <<Hdr(pct_hdr_reg).nr < sample_nr, wr_less[1], wr_less[2]>>
      /\ pipe_cnt' = IF wr_state = "wait_cmpr_pipe" THEN pipe_cnt + 1 ELSE 0
      /\ WrFsm /\ pipe_cnt \in Nat
  <2>1. sample_nr \in 0 .. MaxNr /\ pipe_cnt \in Nat
    BY DEF BaseInv
  <2>2. stream' = stream /\ sample_nr' = sample_nr + m
    BY DEF ClockWith, Tick
  <2>3. WrCompare /\ WrCounters /\ WrFsm
    BY DEF ClockWith, WrClock
  <2>4. sample_nr \in Nat /\ sample_nr' \in Nat /\ sample_nr <= sample_nr'
    BY <2>1, <2>2
  <2> QED
    BY <2>1, <2>2, <2>3, <2>4 DEF WrCompare, WrCounters
<1>2. wr_state' \in {"wait_cmpr_pipe", "check_smpl_nr", "clr_fifo"} /\ (wr_state' # "wait_cmpr_pipe" \/ pipe_cnt' # 0)
        => wr_state \in {"wait_cmpr_pipe", "check_smpl_nr"}
  BY <1>1 DEF WrFsm, WrGo, BaseInv
<1>3. CASE wr_state \notin {"wait_cmpr_pipe", "check_smpl_nr"}
  BY <1>1, <1>2, <1>3 DEF LateInv
<1>4. CASE wr_state \in {"wait_cmpr_pipe", "check_smpl_nr"}
  <2>1. Pkt' = Pkt /\ Pkt \in PktNo
    BY <1>4, PktStays
  <2>2. stream[Pkt].nr \in Nat
    BY <2>1, Sizes DEF BaseInv, HdrSet
  <2> DEFINE late == stream[Pkt].nr < sample_nr
  <2>3. /\ stream'[Pkt'] = stream[Pkt] /\ (late => stream[Pkt].nr < sample_nr')
    BY <1>1, <2>1, <2>2
  <2>4. /\ wr_less'[1] = (Hdr(pct_hdr_reg).nr < sample_nr)
        /\ wr_less'[2] = wr_less[1] /\ wr_less'[3] = wr_less[2]
    BY <1>1
  <2>5. /\ LessOK(1) <=> (wr_less[1] => late)
        /\ LessOK(2) <=> (wr_less[2] => late)
        /\ LessOK(3) <=> (wr_less[3] => late)
    BY DEF LessOK
  <2>6. /\ LessOK(1) => LessOK(2)'
        /\ LessOK(2) => LessOK(3)'
    BY <2>3, <2>4, <2>5 DEF LessOK
  <2>7. pct_data_wrreq_cnt = 1 => Hdr(pct_hdr_reg) = stream[Pkt] /\ LessOK(1)'
    <3>1. SUFFICES ASSUME pct_data_wrreq_cnt = 1 PROVE Hdr(pct_hdr_reg) = stream[Pkt] /\ LessOK(1)'
      OBVIOUS
    <3>2. pct_hdr_reg = HdrWord(Pkt)
      BY <1>4, <3>1 DEF FeedInv
    <3>3. Hdr(pct_hdr_reg) = stream[Pkt]
      BY <3>2 DEF Hdr, HdrWord
    <3> QED
      BY <2>3, <2>4, <3>3 DEF LessOK
  <2>8. CASE wr_state = "wait_cmpr_pipe"
    <3>1. /\ pipe_cnt >= 2 => pct_data_wrreq_cnt = 1
          /\ pipe_cnt >= 3 => LessOK(1)
          /\ pipe_cnt >= 4 => LessOK(2)
      BY <2>8 DEF WrStateInv, HdrDone, LateInv
    <3>2. /\ wr_state' = IF pipe_cnt > 3 THEN "check_smpl_nr" ELSE "wait_cmpr_pipe"
          /\ pipe_cnt' = pipe_cnt + 1
      BY <1>1, <2>8 DEF WrFsm, WrGo, PipeWait
    <3> QED
      BY <1>1, <2>6, <2>7, <3>1, <3>2 DEF LateInv
  <2>9. CASE wr_state = "check_smpl_nr"
    <3>1. /\ pct_data_wrreq_cnt = 1 /\ LessOK(1) /\ LessOK(2) /\ LessOK(3)
      BY <2>9 DEF WrStateInv, HdrDone, LateInv
    <3>2. CASE wr_state' = "clr_fifo"
      <4>1. Late
        BY <1>1, <2>9, <3>2 DEF WrFsm, WrGo
      <4> QED
        BY <2>3, <2>5, <2>7, <3>1, <3>2, <4>1 DEF Late, LateInv
    <3>3. CASE wr_state' \in {"check_smpl_nr", "switch_next_buff"}
      BY <2>6, <2>7, <3>1, <3>3 DEF LateInv
    <3> QED
      BY <1>1, <2>9, <3>2, <3>3 DEF WrFsm, WrGo
  <2> QED
    BY <1>4, <2>8, <2>9
<1> QED
  BY <1>3, <1>4

-----------------------------------------------------------------------------
\* The two words of a read side that an input word becomes.
LEMMA HalvesType ==
  ASSUME NEW w, w.pkt \in PktNo, w.idx \in 2 .. MaxPayload + 1,
         w = [pkt |-> w.pkt, idx |-> w.idx]
  PROVE  /\ Halves(w) = <<[pkt |-> w.pkt, idx |-> 2 * w.idx - 3],
                          [pkt |-> w.pkt, idx |-> 2 * w.idx - 2]>>
         /\ Halves(w) \in Seq(WordsIn) /\ Len(Halves(w)) = 2
<1>1. Halves(w) = <<[pkt |-> w.pkt, idx |-> 2 * w.idx - 3],
                    [pkt |-> w.pkt, idx |-> 2 * w.idx - 2]>>
  BY DEF Halves
<1>2. 2 * w.idx - 3 \in 1 .. 2 * MaxPayload + 1 /\ 2 * w.idx - 2 \in 1 .. 2 * MaxPayload + 1
  BY ConstantsOK
<1>3. /\ [pkt |-> w.pkt, idx |-> 2 * w.idx - 3] \in WordsIn
      /\ [pkt |-> w.pkt, idx |-> 2 * w.idx - 2] \in WordsIn
  BY <1>2 DEF WordsIn
<1> QED
  BY <1>1, <1>3

\* What a write adds is what the invariants say.
LEMMA WrittenWord ==
  ASSUME BaseInv, FeedInv, SelInv, pct_data_wrreq # NBuff
  PROVE  /\ pct_data_wrreq \in Buffers /\ Pkt \in PktNo
         /\ pct_data_wrreq_cnt \in 2 .. W(Pkt) /\ W(Pkt) = PL(Pkt) + 1 /\ PL(Pkt) \in 1 .. MaxPayload
         /\ Halves(pct_data) = <<[pkt |-> Pkt, idx |-> 2 * pct_data_wrreq_cnt - 3],
                                 [pkt |-> Pkt, idx |-> 2 * pct_data_wrreq_cnt - 2]>>
         /\ Halves(pct_data) \in Seq(WordsIn) /\ Len(Halves(pct_data)) = 2
<1>1. /\ pct_data_wrreq_cnt >= 2 /\ pct_data = [pkt |-> Pkt, idx |-> pct_data_wrreq_cnt]
      /\ wr_state # "idle"
  BY DEF SelInv
<1>2. Pkt \in PktNo /\ wr_rd_cnt <= W(Pkt) /\ Asked = wr_rd_cnt
  BY <1>1 DEF FeedInv
<1>3. W(Pkt) = PL(Pkt) + 1 /\ PL(Pkt) \in 1 .. MaxPayload
  BY <1>2, Sizes DEF BaseInv
<1>4. pct_data_wrreq_cnt \in 2 .. W(Pkt)
  <2>1. pct_data_wrreq_cnt \in Nat /\ wr_rd_cnt \in Nat
    BY DEF BaseInv
  <2>2. pct_data_wrreq_cnt <= wr_rd_cnt
    BY <1>2, <2>1 DEF Asked, Got
  <2>3. PICK n \in Nat : n = W(Pkt)
    BY <1>3
  <2> QED
    BY <1>1, <1>2, <2>1, <2>2, <2>3
<1>5. pct_data_wrreq \in Buffers
  BY ConstantsOK DEF BaseInv, Buffers
<1>6. pct_data.idx \in 2 .. MaxPayload + 1 /\ pct_data.pkt \in PktNo
      /\ pct_data = [pkt |-> pct_data.pkt, idx |-> pct_data.idx]
      /\ pct_data.idx = pct_data_wrreq_cnt /\ pct_data.pkt = Pkt
  BY <1>1, <1>2, <1>3, <1>4, ConstantsOK
<1> QED
  BY <1>2, <1>3, <1>4, <1>5, <1>6, HalvesType

\* A buffer and its pointers after a clock: a word is read only from what is there.
LEMMA BufferStep ==
  ASSUME BaseInv, FeedInv, SelInv, PointerInv, NEW m \in 0 .. 1, NEW take \in 0 .. 1, ClockWith(m, take), NEW i \in Buffers
  PROVE  /\ bufQ'[i] \in Seq(WordsIn) /\ bufQ[i] \in Seq(WordsIn)
         /\ bufW'[i] \in [Side -> Nat] /\ bufR'[i] \in [Side -> Nat]
         /\ ClrBuff(i) => bufQ'[i] = <<>> /\ bufW'[i] = Zero /\ bufR'[i] = Zero
         /\ ~ClrBuff(i) =>
              /\ bufQ'[i] = (IF BuffRead(i) THEN Tail(bufQ[i]) ELSE bufQ[i])
                            \o (IF BuffWrite(i) THEN Halves(pct_data) ELSE <<>>)
              /\ bufW'[i] = Shift(bufW[i], IF BuffWrite(i) THEN 2 ELSE 0)
              /\ bufR'[i] = Shift(bufR[i], IF BuffRead(i) THEN 1 ELSE 0)
              /\ BuffRead(i) => bufQ[i] # <<>> /\ bufW[i][Lag] > bufR[i][0]
<1>1. /\ bufQ[i] \in Seq(WordsIn) /\ bufW[i] \in [Side -> Nat] /\ bufR[i] \in [Side -> Nat]
      /\ 0 \in Side /\ Lag \in Side
  <2>1. 0 \in Side /\ Lag \in Side
    BY ConstantsOK DEF Side
  <2> QED
    BY <2>1 DEF BaseInv
<1>2. /\ bufQ'[i] = IF ClrBuff(i) THEN <<>>
                    ELSE (IF BuffRead(i) THEN Tail(bufQ[i]) ELSE bufQ[i])
                         \o (IF BuffWrite(i) THEN Halves(pct_data) ELSE <<>>)
      /\ bufW'[i] = IF ClrBuff(i) THEN Zero ELSE Shift(bufW[i], IF BuffWrite(i) THEN 2 ELSE 0)
      /\ bufR'[i] = IF ClrBuff(i) THEN Zero ELSE Shift(bufR[i], IF BuffRead(i) THEN 1 ELSE 0)
  BY DEF ClockWith, BufferClock
<1>3. BuffRead(i) => bufQ[i] # <<>> /\ bufW[i][Lag] > bufR[i][0]
  <2>1. SUFFICES ASSUME BuffRead(i) PROVE bufQ[i] # <<>> /\ bufW[i][Lag] > bufR[i][0]
    OBVIOUS
  <2>2. rd_state = "rd_buff" /\ BuffRdusedw(i) > 0
    BY <2>1 DEF BuffRead, RdReqInt
  <2>3. bufW[i][Lag] - bufR[i][0] > 0
    BY <2>2 DEF BuffRdusedw, ClrBuff
  <2>4. bufW[i][0] >= bufW[i][Lag] /\ Len(bufQ[i]) = bufW[i][0] - bufR[i][0]
    BY <1>1, ConstantsOK DEF PointerInv, Side
  <2>5. Len(bufQ[i]) > 0
    BY <1>1, <2>3, <2>4
  <2> QED
    BY <1>1, <2>3, <2>5
<1>4. BuffWrite(i) => Halves(pct_data) \in Seq(WordsIn)
  <2>1. BuffWrite(i) => pct_data_wrreq # NBuff
    BY ConstantsOK DEF BuffWrite, Buffers
  <2> QED
    BY <2>1, WrittenWord
<1>5. /\ BuffRead(i) => Tail(bufQ[i]) \in Seq(WordsIn)
      /\ <<>> \in Seq(WordsIn)
  BY <1>1, <1>3
<1>6. bufQ'[i] \in Seq(WordsIn)
  <2> DEFINE old == IF BuffRead(i) THEN Tail(bufQ[i]) ELSE bufQ[i]
             new == IF BuffWrite(i) THEN Halves(pct_data) ELSE <<>>
  <2>1. old \in Seq(WordsIn) /\ new \in Seq(WordsIn)
    BY <1>1, <1>4, <1>5
  <2>2. bufQ'[i] = IF ClrBuff(i) THEN <<>> ELSE old \o new
    BY <1>2
  <2> HIDE DEF old, new
  <2> QED
    BY <1>5, <2>1, <2>2
<1>7. bufW'[i] \in [Side -> Nat] /\ bufR'[i] \in [Side -> Nat]
  <2>1. ASSUME NEW ptr \in [Side -> Nat], NEW n \in Nat
        PROVE  Shift(ptr, n) \in [Side -> Nat]
    BY ConstantsOK DEF Shift, Side
  <2>2. Zero \in [Side -> Nat]
    BY DEF Zero
  <2> QED
    BY <1>1, <1>2, <2>1, <2>2
<1> QED
  BY <1>1, <1>2, <1>3, <1>6, <1>7

\* A pointer is seen late, never ahead: neither side sees more than there is.
LEMMA PointerStep ==
  ASSUME BaseInv, FeedInv, SelInv, PointerInv, NEW m \in 0 .. 1, NEW take \in 0 .. 1, ClockWith(m, take)
  PROVE  PointerInv'
<1>1. SUFFICES ASSUME NEW i \in Buffers
               PROVE  /\ \A s, t \in Side : s <= t => /\ bufW'[i][t] <= bufW'[i][s]
                                                      /\ bufR'[i][t] <= bufR'[i][s]
                      /\ bufR'[i][0] <= bufW'[i][Lag]
                      /\ Len(bufQ'[i]) = bufW'[i][0] - bufR'[i][0]
  BY DEF PointerInv, Buffers, Side
<1>2. 0 \in Side /\ Lag \in Side /\ Lag \in Nat
  BY ConstantsOK DEF Side
<1>3. CASE ClrBuff(i)
  <2>1. bufQ'[i] = <<>> /\ bufW'[i] = Zero /\ bufR'[i] = Zero
    BY <1>3, BufferStep
  <2> QED
    BY <1>2, <2>1 DEF Zero
<1>4. CASE ~ClrBuff(i)
  <2> DEFINE x == IF BuffWrite(i) THEN 2 ELSE 0
             y == IF BuffRead(i) THEN 1 ELSE 0
             old == IF BuffRead(i) THEN Tail(bufQ[i]) ELSE bufQ[i]
             new == IF BuffWrite(i) THEN Halves(pct_data) ELSE <<>>
             w == bufW[i]
             r == bufR[i]
  <2>1. /\ bufQ'[i] = old \o new
        /\ bufW'[i] = Shift(w, x)
        /\ bufR'[i] = Shift(r, y)
        /\ bufQ[i] \in Seq(WordsIn)
        /\ BuffRead(i) => bufQ[i] # <<>> /\ w[Lag] > r[0]
    BY <1>4, BufferStep
  <2>2. /\ w \in [Side -> Nat] /\ r \in [Side -> Nat]
        /\ \A s, t \in Side : s <= t => w[t] <= w[s] /\ r[t] <= r[s]
        /\ r[0] <= w[Lag]
        /\ Len(bufQ[i]) = w[0] - r[0]
    BY DEF PointerInv, BaseInv
  <2>3. /\ old \in Seq(WordsIn) /\ Len(old) = Len(bufQ[i]) - y
    BY <2>1
  <2>4. new \in Seq(WordsIn) /\ Len(new) = x
    <3>1. BuffWrite(i) => pct_data_wrreq # NBuff
      BY ConstantsOK DEF BuffWrite, Buffers
    <3>2. CASE BuffWrite(i)
      <4>1. new = Halves(pct_data) /\ x = 2
        BY <3>2
      <4> QED
        BY <3>1, <3>2, <4>1, WrittenWord
    <3>3. CASE ~BuffWrite(i)
      BY <3>3
    <3> QED
      BY <3>2, <3>3
  <2>5. x \in Nat /\ y \in 0 .. 1 /\ (y = 1 => w[Lag] > r[0])
    BY <2>1
  <2> HIDE DEF x, y, old, new, w, r
  <2>6. Len(bufQ'[i]) = Len(bufQ[i]) - y + x
    <3>1. Len(old \o new) = Len(old) + Len(new)
      BY <2>3, <2>4
    <3> QED
      BY <2>1, <2>3, <2>4, <2>5, <3>1
  <2>7. \A s \in Side : /\ bufW'[i][s] = IF s = 0 THEN w[0] + x ELSE w[s - 1]
                        /\ bufR'[i][s] = IF s = 0 THEN r[0] + y ELSE r[s - 1]
    BY <2>1 DEF Shift
  <2>8. ASSUME NEW s \in Side, NEW t \in Side, s <= t
        PROVE  bufW'[i][t] <= bufW'[i][s] /\ bufR'[i][t] <= bufR'[i][s]
    <3>1. CASE t = 0
      BY <2>7, <2>8, <3>1, <2>2, <2>5 DEF Side
    <3>2. CASE t # 0 /\ s = 0
      <4>1. t - 1 \in Side /\ 0 <= t - 1
        BY <3>2, <1>2 DEF Side
      <4>2. w[t - 1] <= w[0] /\ r[t - 1] <= r[0]
        BY <4>1, <1>2, <2>2
      <4>3. w[t - 1] \in Nat /\ w[0] \in Nat /\ r[t - 1] \in Nat /\ r[0] \in Nat
        BY <4>1, <1>2, <2>2
      <4>4. bufW'[i][t] = w[t - 1] /\ bufR'[i][t] = r[t - 1]
        BY <2>7, <3>2
      <4>5. bufW'[i][s] = w[0] + x /\ bufR'[i][s] = r[0] + y
        BY <2>7, <3>2
      <4>6. w[t - 1] <= w[0] + x /\ r[t - 1] <= r[0] + y
        BY <2>5, <4>2, <4>3
      <4> QED
        BY <4>4, <4>5, <4>6
    <3>3. CASE s # 0
      <4>1. t - 1 \in Side /\ s - 1 \in Side /\ s - 1 <= t - 1 /\ t # 0
        BY <2>8, <3>3, <1>2 DEF Side
      <4>2. w[t - 1] <= w[s - 1] /\ r[t - 1] <= r[s - 1]
        BY <4>1, <2>2
      <4> QED
        BY <2>7, <3>3, <4>1, <4>2
    <3> QED
      BY <3>1, <3>2, <3>3
  <2>9. bufR'[i][0] <= bufW'[i][Lag]
    <3>1. w[Lag] <= bufW'[i][Lag]
      <4>1. CASE Lag = 0
        BY <4>1, <1>2, <2>2, <2>5, <2>7
      <4>2. CASE Lag # 0
        <5>1. Lag - 1 \in Side /\ Lag - 1 <= Lag
          BY <4>2, <1>2 DEF Side
        <5>2. w[Lag] <= w[Lag - 1]
          BY <5>1, <1>2, <2>2
        <5> QED
          BY <1>2, <2>7, <4>2, <5>2
      <4> QED
        BY <4>1, <4>2
    <3>2. r[0] + y <= w[Lag]
      BY <1>2, <2>2, <2>5
    <3>3. bufW'[i][Lag] \in Nat
      BY <1>2, BufferStep
    <3> QED
      BY <1>2, <2>2, <2>5, <2>7, <3>1, <3>2, <3>3
  <2>10. Len(bufQ'[i]) = bufW'[i][0] - bufR'[i][0]
    <3>1. /\ bufW'[i][0] = w[0] + x /\ bufR'[i][0] = r[0] + y
      BY <1>2, <2>7
    <3> QED
      BY <1>2, <2>2, <2>5, <2>6, <3>1
  <2> QED
    BY <2>8, <2>9, <2>10
<1> QED
  BY <1>3, <1>4

-----------------------------------------------------------------------------
\* The next buffer is another one.
LEMMA NextBuffer ==
  ASSUME NEW b \in Buffers
  PROVE  NextBuff(b) \in Buffers /\ NextBuff(b) # b
BY ConstantsOK DEF NextBuff, Buffers

\* A buffer that the write side sees empty is empty, and stays so until it is written.
LEMMA StaysEmpty ==
  ASSUME BaseInv, FeedInv, SelInv, PointerInv, NEW m \in 0 .. 1, NEW take \in 0 .. 1, ClockWith(m, take),
         NEW i \in Buffers, ~BuffWrite(i), bufQ[i] = <<>> \/ ClrBuff(i) \/ BuffWrempty(i)
  PROVE  bufQ'[i] = <<>>
<1>1. bufQ[i] \in Seq(WordsIn)
  BY DEF BaseInv
<1>2. CASE ClrBuff(i)
  BY <1>2, BufferStep
<1>3. CASE ~ClrBuff(i) /\ BuffWrempty(i) /\ bufQ[i] # <<>>
  <2>1. 0 \in Side /\ Lag \in Side /\ 0 <= Lag /\ Lag \in Nat
    BY ConstantsOK DEF Side
  <2>2. bufW[i][0] = bufR[i][Lag]
    BY <1>3 DEF BuffWrempty
  <2>3. /\ bufW[i][0] \in Nat /\ bufW[i][Lag] \in Nat /\ bufR[i][0] \in Nat /\ bufR[i][Lag] \in Nat
    BY <2>1 DEF BaseInv
  <2>4. /\ bufR[i][Lag] <= bufR[i][0] /\ bufR[i][0] <= bufW[i][Lag] /\ bufW[i][Lag] <= bufW[i][0]
        /\ Len(bufQ[i]) = bufW[i][0] - bufR[i][0]
    BY <2>1 DEF PointerInv
  <2>5. Len(bufQ[i]) = 0
    BY <2>2, <2>3, <2>4
  <2> QED
    BY <1>1, <1>3, <2>5
<1>4. CASE ~ClrBuff(i) /\ bufQ[i] = <<>>
  <2>1. ~BuffRead(i)
    BY <1>4, BufferStep
  <2>2. bufQ'[i] = <<>> \o <<>>
    BY <1>4, <2>1, BufferStep
  <2> QED
    BY <2>2
<1> QED
  BY <1>2, <1>3, <1>4

\* The buffer p2d_wr_fsm turns to is empty when it does, and no word of the packet
\* before is still on its way into it.
LEMMA SelStep ==
  ASSUME BaseInv, FeedInv, WrStateInv, PointerInv, SelInv, NEW m \in 0 .. 1, NEW take \in 0 .. 1, ClockWith(m, take)
  PROVE  SelInv'
<1>1. /\ next_buff_cnt' = IF wr_state = "switch_next_buff" THEN NextBuff(next_buff_cnt)
                          ELSE next_buff_cnt
      /\ next_buff_rdy' = BuffWrempty(next_buff_cnt)
      /\ current_buff_cnt' = IF wr_state = "check_next_buf" THEN next_buff_cnt
                             ELSE current_buff_cnt
      /\ pct_data_wrreq_cnt' = IF in_pct_data_valid THEN pct_data_wrreq_cnt + 1
                               ELSE IF wr_state = "idle" THEN 0 ELSE pct_data_wrreq_cnt
      /\ pct_hdr_valid' = IF WrHdrHere THEN current_buff_cnt ELSE NBuff
      /\ pct_data' = IF WrDataHere THEN in_pct_data ELSE pct_data
      /\ pct_data_wrreq' = IF WrDataHere THEN current_buff_cnt ELSE NBuff
      /\ wr_rd_cnt' = IF wr_state \in {"rd_pct", "rd_hdr"} THEN wr_rd_cnt + 1
                      ELSE IF wr_state = "idle" THEN 0 ELSE wr_rd_cnt
      /\ pipe_cnt' = IF wr_state = "wait_cmpr_pipe" THEN pipe_cnt + 1 ELSE 0
      /\ WrFsm
  BY DEF ClockWith, WrClock, BuffSel, WrOut, WrCounters
<1>2. /\ current_buff_cnt \in Buffers /\ next_buff_cnt \in Buffers /\ in_pct_data_valid \in BOOLEAN
      /\ pct_data_wrreq_cnt \in Nat /\ wr_rd_cnt \in Nat /\ pipe_cnt \in Nat
      /\ wr_rd_cnt_max \in Nat /\ in_pct_rdreq_int \in BOOLEAN
  BY DEF BaseInv
<1>3. /\ wr_rd_cnt = IF in_pct_rdreq_int THEN Got + 1 ELSE Got
      /\ Got = IF in_pct_data_valid THEN pct_data_wrreq_cnt + 1 ELSE pct_data_wrreq_cnt
  BY DEF FeedInv, Asked, Got
<1>4. /\ WrHdrHere <=> in_pct_data_valid /\ pct_data_wrreq_cnt = 0
      /\ WrDataHere <=> in_pct_data_valid /\ pct_data_wrreq_cnt > 0
      /\ \A i \in Buffers : BuffWrite(i) <=> pct_data_wrreq = i
  BY DEF WrHdrHere, WrDataHere, BuffWrite
<1>5. WrDataHere => wr_state \in {"rd_pct", "wait_wr_end", "check_next_buf"}
  <2>1. SUFFICES ASSUME WrDataHere, wr_state \notin {"rd_pct", "wait_wr_end", "check_next_buf"}
                 PROVE  FALSE
    OBVIOUS
  <2>2. in_pct_data_valid /\ pct_data_wrreq_cnt > 0 /\ wr_rd_cnt >= 2 /\ wr_rd_cnt > pct_data_wrreq_cnt
    BY <1>2, <1>3, <1>4, <2>1
  <2>3. wr_state # "idle"
    BY <2>2 DEF FeedInv
  <2> QED
    BY <1>2, <2>1, <2>2, <2>3 DEF WrStateInv, HdrDone, BaseInv
<1>6. WrHdrHere <=> wr_state = "wait_cmpr_pipe" /\ pipe_cnt = 1
  <2>1. wr_state = "wait_cmpr_pipe" /\ pipe_cnt = 1 => WrHdrHere
    BY <1>2, <1>3, <1>4 DEF WrStateInv
  <2>2. ASSUME WrHdrHere PROVE wr_state = "wait_cmpr_pipe" /\ pipe_cnt = 1
    <3>1. in_pct_data_valid /\ pct_data_wrreq_cnt = 0 /\ wr_rd_cnt >= 1
          /\ (in_pct_rdreq_int => wr_rd_cnt = 2)
      BY <1>2, <1>3, <1>4, <2>2
    <3>2. wr_state # "idle"
      BY <3>1 DEF FeedInv
    <3>3. wr_state = "wait_cmpr_pipe"
      BY <1>2, <3>1, <3>2 DEF WrStateInv, HdrDone, BaseInv
    <3> QED
      BY <1>2, <3>1, <3>3 DEF WrStateInv, HdrDone
  <2> QED
    BY <2>1, <2>2
<1>7. wr_state = "check_next_buf" => pct_data_wrreq_cnt' = wr_rd_cnt /\ wr_rd_cnt' = wr_rd_cnt
  BY <1>1, <1>2, <1>3 DEF WrStateInv
<1>8. wr_state' \in {"rd_pct", "wait_wr_end"} => next_buff_cnt' = NextBuff(current_buff_cnt)
                                                 /\ current_buff_cnt' = current_buff_cnt
  <2>1. SUFFICES ASSUME wr_state' \in {"rd_pct", "wait_wr_end"}
                 PROVE  next_buff_cnt' = NextBuff(current_buff_cnt)
                        /\ current_buff_cnt' = current_buff_cnt
    OBVIOUS
  <2>2. wr_state \in {"switch_next_buff", "rd_pct", "wait_wr_end"}
    BY <1>1, <2>1 DEF WrFsm, WrGo
  <2> QED
    BY <1>1, <2>2 DEF SelInv
<1>9. wr_state' = "check_next_buf" =>
        \/ next_buff_cnt' = current_buff_cnt' /\ pct_data_wrreq_cnt' = wr_rd_cnt'
        \/ next_buff_cnt' = NextBuff(current_buff_cnt')
  <2>1. wr_state' = "check_next_buf" => wr_state \in {"wait_wr_end", "check_next_buf"}
    BY <1>1 DEF WrFsm, WrGo
  <2>2. CASE wr_state = "wait_wr_end"
    BY <1>1, <2>2 DEF SelInv
  <2>3. CASE wr_state = "check_next_buf"
    BY <1>1, <1>7, <2>3
  <2> QED
    BY <2>1, <2>2, <2>3
<1>10. wr_state' \notin {"rd_pct", "wait_wr_end", "check_next_buf"} => next_buff_cnt' = current_buff_cnt'
  <2>1. wr_state' \notin {"rd_pct", "wait_wr_end", "check_next_buf"} =>
          wr_state \notin {"switch_next_buff", "rd_pct", "wait_wr_end"}
    BY <1>1 DEF WrFsm, WrGo
  <2>2. CASE wr_state = "check_next_buf"
    BY <1>1, <2>2
  <2>3. CASE wr_state \notin {"switch_next_buff", "rd_pct", "wait_wr_end", "check_next_buf"}
    BY <1>1, <2>3 DEF SelInv
  <2> QED
    BY <2>1, <2>2, <2>3
<1>11. ASSUME pct_data_wrreq' # NBuff
       PROVE  /\ pct_data_wrreq_cnt' >= 2 /\ pct_data' = [pkt |-> Pkt', idx |-> pct_data_wrreq_cnt']
              /\ wr_state' \in {"rd_pct", "wait_wr_end", "check_next_buf", "switch_current_buff"}
              /\ pct_data_wrreq' # next_buff_cnt'
              /\ wr_state' \in {"rd_pct", "wait_wr_end"} => pct_data_wrreq' = current_buff_cnt'
              /\ wr_state' \in {"check_next_buf"} /\ pct_data_wrreq_cnt' < wr_rd_cnt_max'
                   => pct_data_wrreq' = current_buff_cnt'
  <2>1. WrDataHere /\ pct_data_wrreq' = current_buff_cnt
    BY <1>1, <1>11
  <2>2. /\ in_pct_data_valid /\ pct_data_wrreq_cnt > 0
        /\ wr_state \in {"rd_pct", "wait_wr_end", "check_next_buf"}
    BY <1>4, <1>5, <2>1
  <2>3. pct_data_wrreq_cnt' >= 2 /\ pct_data_wrreq_cnt' = pct_data_wrreq_cnt + 1
    BY <1>1, <1>2, <2>2
  <2>4. in_pct_data = [pkt |-> Pkt, idx |-> pct_data_wrreq_cnt + 1] /\ Pkt' = Pkt
    BY <2>2, PktStays DEF FeedInv
  <2>5. wr_state' \in {"rd_pct", "wait_wr_end", "check_next_buf", "switch_current_buff"}
    BY <1>1, <2>2 DEF WrFsm, WrGo
  <2>6. next_buff_cnt = NextBuff(current_buff_cnt) /\ next_buff_cnt' = next_buff_cnt
    <3>1. wr_state = "check_next_buf" => pct_data_wrreq_cnt # wr_rd_cnt_max
      BY <1>2, <1>3, <2>2 DEF WrStateInv
    <3> QED
      BY <1>1, <2>2, <3>1 DEF SelInv
  <2>7. next_buff_cnt' # current_buff_cnt
    BY <1>2, <2>6, NextBuffer
  <2>8. wr_state' \in {"rd_pct", "wait_wr_end"} => current_buff_cnt' = current_buff_cnt
    BY <1>8
  <2>9. wr_state' = "check_next_buf" /\ pct_data_wrreq_cnt' < wr_rd_cnt_max'
          => current_buff_cnt' = current_buff_cnt
    <3>1. CASE wr_state = "check_next_buf"
      <4>1. wr_rd_cnt_max' = wr_rd_cnt
        BY <2>2, <3>1, <1>4, <1>2 DEF ClockWith, WrClock, WrOut, WrStateInv
      <4> QED
        BY <1>2, <1>7, <3>1, <4>1
    <3>2. CASE wr_state # "check_next_buf"
      BY <1>1, <3>2
    <3> QED
      BY <3>1, <3>2
  <2>10. pct_data' = [pkt |-> Pkt', idx |-> pct_data_wrreq_cnt']
    BY <1>1, <2>1, <2>3, <2>4
  <2> QED
    BY <2>1, <2>3, <2>5, <2>7, <2>8, <2>9, <2>10
<1>12. /\ pct_hdr_valid' # NBuff => wr_state' = "wait_cmpr_pipe" /\ pipe_cnt' = 2
                                     /\ pct_hdr_valid' = current_buff_cnt'
       /\ wr_state' = "wait_cmpr_pipe" /\ pipe_cnt' = 2 => pct_hdr_valid' = current_buff_cnt'
  <2>1. /\ pct_hdr_valid' # NBuff => WrHdrHere
        /\ WrHdrHere => pct_hdr_valid' = current_buff_cnt
    BY <1>1
  <2>2. WrHdrHere => wr_state' = "wait_cmpr_pipe" /\ pipe_cnt' = 2 /\ current_buff_cnt' = current_buff_cnt
    BY <1>1, <1>6 DEF WrFsm, WrGo, PipeWait
  <2>3. wr_state' = "wait_cmpr_pipe" /\ pipe_cnt' = 2 => wr_state = "wait_cmpr_pipe" /\ pipe_cnt = 1
    BY <1>1, <1>2 DEF WrFsm, WrGo
  <2> QED
    BY <1>6, <2>1, <2>2, <2>3
<1>13. pct_data_wrreq # NBuff =>
         /\ wr_state \in {"rd_pct", "wait_wr_end", "check_next_buf", "switch_current_buff"}
         /\ pct_data_wrreq # next_buff_cnt
  BY DEF SelInv
<1>14. ~BuffWrite(next_buff_cnt)
  BY <1>2, <1>4, <1>13, ConstantsOK DEF Buffers
<1>15. wr_state' \in {"switch_current_buff", "idle", "rd_hdr", "wait_cmpr_pipe", "check_smpl_nr",
                      "clr_fifo", "switch_next_buff"} => bufQ'[current_buff_cnt'] = <<>>
  <2>1. SUFFICES ASSUME wr_state' \in {"switch_current_buff", "idle", "rd_hdr", "wait_cmpr_pipe", "check_smpl_nr",
                                       "clr_fifo", "switch_next_buff"}
                 PROVE  bufQ'[current_buff_cnt'] = <<>>
    OBVIOUS
  <2>2. CASE wr_state = "check_next_buf"
    <3>1. next_buff_rdy /\ current_buff_cnt' = next_buff_cnt
      BY <1>1, <2>1, <2>2 DEF WrFsm, WrGo
    <3>2. bufQ[next_buff_cnt] = <<>>
      BY <2>2, <3>1 DEF SelInv
    <3> QED
      BY <1>2, <1>14, <3>1, <3>2, StaysEmpty
  <2>3. CASE wr_state # "check_next_buf"
    <3>1. wr_state \in {"switch_current_buff", "idle", "rd_hdr", "wait_cmpr_pipe", "check_smpl_nr",
                        "clr_fifo"}
      BY <1>1, <2>1, <2>3 DEF WrFsm, WrGo
    <3>2. bufQ[current_buff_cnt] = <<>> /\ next_buff_cnt = current_buff_cnt
      BY <3>1 DEF SelInv
    <3>3. current_buff_cnt' = current_buff_cnt
      BY <1>1, <2>3
    <3> QED
      BY <1>2, <1>14, <3>2, <3>3, StaysEmpty
  <2> QED
    BY <2>2, <2>3
<1>16. wr_state' = "check_next_buf" /\ next_buff_rdy' => bufQ'[next_buff_cnt'] = <<>>
  <2>1. SUFFICES ASSUME wr_state' = "check_next_buf", next_buff_rdy' PROVE bufQ'[next_buff_cnt'] = <<>>
    OBVIOUS
  <2>2. wr_state \in {"wait_wr_end", "check_next_buf"}
    BY <1>1, <2>1 DEF WrFsm, WrGo
  <2>3. BuffWrempty(next_buff_cnt) /\ next_buff_cnt' = next_buff_cnt
    BY <1>1, <2>1, <2>2
  <2> QED
    BY <1>2, <1>14, <2>3, StaysEmpty
<1>17. wr_state' = "check_next_buf" => wr_rd_cnt' = wr_rd_cnt_max'
  BY WrStateStep DEF WrStateInv
<1> QED
  BY <1>8, <1>9, <1>10, <1>11, <1>12, <1>15, <1>16, <1>17 DEF SelInv, NextBuff

-----------------------------------------------------------------------------
\* What remains of a stretch of a packet when its first word has been read.
LEMMA SegTail ==
  ASSUME NEW q \in Seq(WordsIn), NEW p, NEW e \in Nat, Seg(q, p, e), q # <<>>
  PROVE  Seg(Tail(q), p, e) /\ Len(Tail(q)) = Len(q) - 1
<1>1. /\ Len(Tail(q)) = Len(q) - 1 /\ Len(q) \in Nat /\ Len(q) >= 1
      /\ \A k \in 1 .. Len(q) - 1 : Tail(q)[k] = q[k + 1]
  OBVIOUS
<1>2. ASSUME NEW k \in 1 .. Len(q) - 1
      PROVE  Tail(q)[k] = [pkt |-> p, idx |-> e - (Len(q) - 1) + k]
  <2>1. k + 1 \in 1 .. Len(q) /\ e - Len(q) + (k + 1) = e - (Len(q) - 1) + k
    BY <1>1
  <2>2. q[k + 1] = [pkt |-> p, idx |-> e - Len(q) + (k + 1)]
    BY <2>1 DEF Seg
  <2> QED
    BY <1>1, <2>1, <2>2
<1> QED
  BY <1>1, <1>2 DEF Seg

\* A stretch of a packet grows by the two words of an input word.
LEMMA SegAppend ==
  ASSUME NEW q \in Seq(WordsIn), NEW h \in Seq(WordsIn), NEW p, NEW e \in Nat, Seg(q, p, e), Len(q) = e,
         h = <<[pkt |-> p, idx |-> e + 1], [pkt |-> p, idx |-> e + 2]>>
  PROVE  Seg(q \o h, p, e + 2) /\ Len(q \o h) = e + 2
<1>1. /\ Len(h) = 2 /\ Len(q \o h) = e + 2
      /\ h[1] = [pkt |-> p, idx |-> e + 1] /\ h[2] = [pkt |-> p, idx |-> e + 2]
  OBVIOUS
<1>2. ASSUME NEW k \in 1 .. e + 2
      PROVE  (q \o h)[k] = [pkt |-> p, idx |-> k]
  <2>1. (q \o h)[k] = IF k <= e THEN q[k] ELSE h[k - e]
    BY <1>1
  <2>2. CASE k <= e
    <3>1. k \in 1 .. Len(q) /\ e - Len(q) + k = k
      BY <2>2
    <3> QED
      BY <2>1, <2>2, <3>1 DEF Seg
  <2>3. CASE k > e
    <3>1. k = e + 1 \/ k = e + 2
      BY <2>3
    <3>2. k - e = 1 \/ k - e = 2
      BY <3>1
    <3> QED
      BY <1>1, <2>1, <2>3, <3>1, <3>2
  <2> QED
    BY <2>2, <2>3
<1>3. ASSUME NEW k \in 1 .. e + 2
      PROVE  (q \o h)[k] = [pkt |-> p, idx |-> e + 2 - (e + 2) + k]
  <2>1. e + 2 - (e + 2) + k = k
    OBVIOUS
  <2> QED
    BY <1>2, <2>1
<1> QED
  BY <1>1, <1>3 DEF Seg

\* The sample counter does not move by more than one.
LEMMA SampleNrStep ==
  ASSUME BaseInv, NEW m \in 0 .. 1, NEW take \in 0 .. 1, ClockWith(m, take)
  PROVE  /\ sample_nr \in Nat /\ sample_nr' \in Nat
         /\ sample_nr <= sample_nr' /\ sample_nr' <= sample_nr + 1
<1>1. sample_nr' = sample_nr + m
  BY DEF ClockWith, Tick
<1> QED
  BY <1>1, ConstantsOK DEF BaseInv

\* With every clock one more stage of the comparator knows the header of the buffer.
LEMMA HdrForStep ==
  ASSUME BaseInv, NEW m \in 0 .. 1, NEW take \in 0 .. 1, ClockWith(m, take),
         NEW i \in Buffers, NEW p, NEW k \in 0 .. 3, HdrFor(i, p, k), pct_hdr_valid # i
  PROVE  HdrFor(i, p, IF k < 3 THEN k + 1 ELSE 3)' /\ pct_hdr_array'[i] = pct_hdr_array[i]
<1>1. /\ stream' = stream /\ pct_hdr_array'[i] = pct_hdr_array[i]
      /\ pct_buff_size'[i] = pct_buff_size[i]
      /\ rd_cmp'[i] = <<Compare(Hdr(pct_hdr_array[i]).nr), rd_cmp[i][1], rd_cmp[i][2]>>
  BY DEF ClockWith, RdClock, RdHeaders, BuffSizeRdy
<1>2. /\ p \in PktNo /\ pct_hdr_array[i] = HdrWord(p) /\ pct_buff_size[i] = 2 * PL(p)
      /\ \A j \in 1 .. k : CmpOK(rd_cmp[i][j], stream[p].nr, j, sample_nr)
  BY DEF HdrFor, HdrIn
<1>3. PktNo' = PktNo /\ PL(p)' = PL(p) /\ HdrWord(p)' = HdrWord(p)
  BY <1>1 DEF PktNo, PL, Payload, HdrWord
<1>4. stream[p].nr \in Nat
  BY <1>2, Sizes DEF BaseInv, HdrSet
<1>5. Hdr(pct_hdr_array[i]).nr = stream[p].nr
  BY <1>2 DEF Hdr, HdrWord
<1>6. CmpOK(rd_cmp'[i][1], stream[p].nr, 1, sample_nr')
  <2>1. CmpOK(Compare(stream[p].nr), stream[p].nr, 0, sample_nr)
    BY <1>4, SampleNrStep DEF CmpOK, Compare
  <2>2. rd_cmp'[i][1] = Compare(stream[p].nr)
    BY <1>1, <1>5
  <2> QED
    BY <1>4, <2>1, <2>2, SampleNrStep DEF CmpOK
<1>7. ASSUME NEW j \in 1 .. k, j < 3
      PROVE  CmpOK(rd_cmp'[i][j + 1], stream[p].nr, j + 1, sample_nr')
  <2>1. rd_cmp'[i][j + 1] = rd_cmp[i][j]
    BY <1>1, <1>7
  <2>2. CmpOK(rd_cmp[i][j], stream[p].nr, j, sample_nr)
    BY <1>2
  <2> QED
    BY <1>4, <2>1, <2>2, SampleNrStep DEF CmpOK
<1>8. ASSUME NEW j \in 1 .. IF k < 3 THEN k + 1 ELSE 3
      PROVE  CmpOK(rd_cmp'[i][j], stream'[p].nr, j, sample_nr')
  <2>1. CASE j = 1
    BY <1>1, <1>6, <2>1
  <2>2. CASE j # 1
    <3>1. j - 1 \in 1 .. k /\ j - 1 < 3 /\ (j - 1) + 1 = j
      BY <2>2
    <3> QED
      BY <1>1, <1>7, <3>1
  <2> QED
    BY <2>1, <2>2
<1> QED
  BY <1>1, <1>2, <1>3, <1>8 DEF HdrFor, HdrIn

\* The header and the size of the packet reach the buffer registers, and the first two
\* stages of its comparator, before p2d_wr_fsm decides about the packet.
LEMMA HeaderStep ==
  ASSUME BaseInv, FeedInv, WrStateInv, SelInv, HeaderInv,
         NEW m \in 0 .. 1, NEW take \in 0 .. 1, ClockWith(m, take)
  PROVE  /\ HeaderInv'
         /\ wr_state' = "switch_next_buff" => HdrFor(current_buff_cnt, Pkt, 3)'
<1>1. /\ WrFsm /\ pipe_cnt' = IF wr_state = "wait_cmpr_pipe" THEN pipe_cnt + 1 ELSE 0
      /\ current_buff_cnt' = IF wr_state = "check_next_buf" THEN next_buff_cnt ELSE current_buff_cnt
      /\ pipe_cnt \in Nat /\ current_buff_cnt \in Buffers
  BY DEF ClockWith, WrClock, BuffSel, WrCounters, BaseInv
<1>2. CASE wr_state = "wait_cmpr_pipe" /\ pipe_cnt = 2
  <2>1. pct_hdr_valid = current_buff_cnt /\ current_buff_cnt' = current_buff_cnt /\ pipe_cnt' = 3
        /\ wr_state' = "wait_cmpr_pipe"
    BY <1>1, <1>2 DEF SelInv, WrFsm, WrGo, PipeWait
  <2>2. pct_hdr_reg = HdrWord(Pkt) /\ in_pct_data = HdrWord(Pkt) /\ Pkt' = Pkt /\ Pkt \in PktNo
    BY <1>2, PktStays DEF WrStateInv, HdrDone, FeedInv
  <2>3. /\ stream' = stream
        /\ pct_hdr_array'[current_buff_cnt] = pct_hdr_reg
        /\ pct_buff_size'[current_buff_cnt] = IF Hdr(pct_hdr_reg).size = 0 THEN 2 * MaxPayload
                                              ELSE 2 * Hdr(in_pct_data).size
    BY <1>1, <2>1 DEF ClockWith, RdClock, RdHeaders, BuffSizeRdy
  <2>4. pct_buff_size'[current_buff_cnt] = 2 * PL(Pkt)
    BY <2>2, <2>3 DEF Hdr, HdrWord, PL, Payload
  <2>5. PktNo' = PktNo /\ PL(Pkt)' = PL(Pkt) /\ HdrWord(Pkt)' = HdrWord(Pkt)
    BY <2>2, <2>3 DEF PktNo, PL, Payload, HdrWord
  <2>6. HdrFor(current_buff_cnt, Pkt, 0)'
    BY <2>1, <2>2, <2>3, <2>4, <2>5 DEF HdrFor, HdrIn
  <2>7. pipe_cnt' - 3 = 0
    BY <2>1
  <2> QED
    BY <2>1, <2>6, <2>7 DEF HeaderInv
<1>3. CASE wr_state = "check_smpl_nr" \/ (wr_state = "wait_cmpr_pipe" /\ pipe_cnt >= 3)
  <2> DEFINE k == IF wr_state = "check_smpl_nr" THEN 2 ELSE pipe_cnt - 3
             b == current_buff_cnt
             p == Pkt
  <2>1. HdrFor(b, p, k) /\ k \in 0 .. 2 /\ b \in Buffers
    BY <1>1, <1>3 DEF HeaderInv, WrStateInv
  <2>2. pct_hdr_valid # b
    BY <1>1, <1>3, ConstantsOK DEF SelInv, Buffers
  <2>3. Pkt' = p /\ b' = b
    BY <1>1, <1>3, PktStays
  <2>4. PICK x \in {b}, y \in {p}, z \in {k} : HdrFor(x, y, z + 1)'
    <3>1. \A x \in Buffers, y \in {p}, z \in 0 .. 2 : HdrFor(x, y, z) /\ pct_hdr_valid # x => HdrFor(x, y, z + 1)'
      BY HdrForStep
    <3> QED
      BY <2>1, <2>2, <3>1
  <2>6. x = current_buff_cnt' /\ y = Pkt' /\ z \in 0 .. 2
    BY <2>1, <2>3
  <2>7. \A n \in 0 .. z + 1 : HdrFor(x, y, n)'
    BY <2>4, <2>6 DEF HdrFor
  <2>8. \A n \in 0 .. z + 1 : HdrFor(current_buff_cnt, Pkt, n)'
    BY <2>6, <2>7 DEF HdrFor, HdrIn, HdrWord, PktNo, PL, Payload
  <2>9. /\ wr_state' = "wait_cmpr_pipe" => pipe_cnt' - 3 = z + 1
        /\ wr_state' = "switch_next_buff" => z = 2
        /\ wr_state' = "check_smpl_nr" => 2 <= z + 1
    BY <1>1, <1>3, <2>6 DEF WrFsm, WrGo, PipeWait
  <2>10. wr_state' = "wait_cmpr_pipe" => HdrFor(current_buff_cnt, Pkt, pipe_cnt - 3)'
    BY <2>6, <2>8, <2>9 DEF HdrFor
  <2>11. wr_state' = "check_smpl_nr" => HdrFor(current_buff_cnt, Pkt, 2)'
    BY <2>6, <2>8, <2>9
  <2>12. wr_state' = "switch_next_buff" => HdrFor(current_buff_cnt, Pkt, 3)'
    BY <2>6, <2>8, <2>9
  <2> QED
    BY <2>10, <2>11, <2>12 DEF HeaderInv
<1>4. CASE ~(wr_state = "check_smpl_nr" \/ (wr_state = "wait_cmpr_pipe" /\ pipe_cnt >= 2))
  <2>1. /\ wr_state' \notin {"check_smpl_nr", "switch_next_buff"}
        /\ wr_state' = "wait_cmpr_pipe" => pipe_cnt' < 3
    BY <1>1, <1>4 DEF WrFsm, WrGo, PipeWait
  <2> QED
    BY <2>1, <1>1 DEF HeaderInv
<1> QED
  BY <1>1, <1>2, <1>3, <1>4

-----------------------------------------------------------------------------
\* How much of the packet the buffer that is being written can have.
LEMMA OpenBounds ==
  ASSUME BaseInv, FeedInv, WrStateInv, SelInv, NEW i \in Buffers, Open(i)
  PROVE  /\ wr_state \in {"switch_next_buff", "rd_pct", "wait_wr_end", "check_next_buf", "switch_current_buff"}
         /\ Pkt \in PktNo /\ pct_data_wrreq_cnt >= 1 /\ wr_rd_cnt_max = PL(Pkt) + 1
         /\ pct_data_wrreq_cnt <= wr_rd_cnt_max
         /\ PL(Pkt) \in 1 .. MaxPayload /\ Stored(i) \in 0 .. 2 * PL(Pkt) - 2
<1>1. /\ wr_state \in {"switch_next_buff", "rd_pct", "wait_wr_end", "check_next_buf", "switch_current_buff"}
      /\ pct_data_wrreq = i => pct_data_wrreq_cnt >= 2
  BY ConstantsOK DEF Open, SelInv, Buffers
<1>2. pct_data_wrreq_cnt >= 1 /\ pct_data_wrreq_cnt \in Nat
  BY <1>1 DEF WrStateInv, HdrDone, BaseInv
<1>3. Pkt \in PktNo /\ wr_rd_cnt <= W(Pkt) /\ wr_rd_cnt_max = W(Pkt) /\ Asked = wr_rd_cnt
  BY <1>1, <1>2 DEF FeedInv
<1>4. W(Pkt) = PL(Pkt) + 1 /\ PL(Pkt) \in 1 .. MaxPayload
  BY <1>3, Sizes DEF BaseInv
<1>5. pct_data_wrreq_cnt <= wr_rd_cnt_max
  BY <1>2, <1>3, <1>4 DEF Asked, Got
<1>6. pct_data_wrreq # i => pct_data_wrreq_cnt < wr_rd_cnt_max
  BY DEF Open
<1>7. Stored(i) \in 0 .. 2 * PL(Pkt) - 2
  BY <1>1, <1>2, <1>3, <1>4, <1>5, <1>6 DEF Stored
<1> QED
  BY <1>1, <1>2, <1>3, <1>4, <1>5, <1>7

\* A buffer that is being written after a clock was so before, or is the one selected.
LEMMA OpenBefore ==
  ASSUME BaseInv, FeedInv, WrStateInv, SelInv, NEW m \in 0 .. 1, NEW take \in 0 .. 1, ClockWith(m, take),
         NEW i \in Buffers, Open(i)'
  PROVE  /\ i = current_buff_cnt
         /\ \/ /\ wr_state = "check_smpl_nr" /\ wr_state' = "switch_next_buff"
               /\ pct_data_wrreq' # i /\ pct_data_wrreq_cnt' = 1 /\ current_buff_cnt' = i
            \/ Open(i) /\ wr_state \in {"switch_next_buff", "rd_pct", "wait_wr_end", "check_next_buf"}
<1>1. /\ current_buff_cnt' = IF wr_state = "check_next_buf" THEN next_buff_cnt
                             ELSE current_buff_cnt
      /\ pct_data_wrreq_cnt' = IF in_pct_data_valid THEN pct_data_wrreq_cnt + 1
                               ELSE IF wr_state = "idle" THEN 0 ELSE pct_data_wrreq_cnt
      /\ pct_data_wrreq' = IF WrDataHere THEN current_buff_cnt ELSE NBuff
      /\ wr_rd_cnt_max' = IF WrHdrHere THEN Words(Hdr(in_pct_data).size) ELSE wr_rd_cnt_max
      /\ WrFsm
  BY DEF ClockWith, WrClock, BuffSel, WrOut
<1>2. /\ pct_data_wrreq_cnt \in Nat /\ wr_rd_cnt \in Nat /\ in_pct_data_valid \in BOOLEAN
      /\ wr_rd_cnt_max \in Nat /\ in_pct_rdreq_int \in BOOLEAN
      /\ i # NBuff
  BY ConstantsOK DEF BaseInv, Buffers
<1>3. /\ wr_rd_cnt = IF in_pct_rdreq_int THEN Got + 1 ELSE Got
      /\ Got = IF in_pct_data_valid THEN pct_data_wrreq_cnt + 1 ELSE pct_data_wrreq_cnt
  BY DEF FeedInv, Asked, Got
<1>4. /\ WrDataHere <=> in_pct_data_valid /\ pct_data_wrreq_cnt > 0
      /\ WrHdrHere <=> in_pct_data_valid /\ pct_data_wrreq_cnt = 0
  BY DEF WrDataHere, WrHdrHere
<1>5. CASE pct_data_wrreq' = i
  <2>1. WrDataHere /\ i = current_buff_cnt /\ in_pct_data_valid /\ pct_data_wrreq_cnt > 0
        /\ pct_data_wrreq_cnt < wr_rd_cnt /\ wr_rd_cnt >= 2
    BY <1>1, <1>2, <1>3, <1>4, <1>5
  <2>2. wr_state # "idle"
    BY <2>1 DEF FeedInv
  <2>3. wr_state \in {"rd_pct", "wait_wr_end", "check_next_buf"}
    BY <1>2, <2>1, <2>2 DEF WrStateInv, HdrDone, BaseInv
  <2>4. pct_data_wrreq_cnt < wr_rd_cnt_max
    BY <1>2, <2>1, <2>3 DEF WrStateInv
  <2> QED
    BY <2>1, <2>3, <2>4 DEF Open
<1>6. CASE pct_data_wrreq' # i
  <2>1. /\ i = current_buff_cnt' /\ pct_data_wrreq_cnt' < wr_rd_cnt_max'
        /\ wr_state' \in {"switch_next_buff", "rd_pct", "wait_wr_end", "check_next_buf"}
    BY <1>6 DEF Open
  <2>2. wr_state # "check_next_buf"
    <3>1. SUFFICES ASSUME wr_state = "check_next_buf" PROVE FALSE
      OBVIOUS
    <3>2. wr_rd_cnt = wr_rd_cnt_max /\ ~in_pct_rdreq_int /\ pct_data_wrreq_cnt >= 1
      BY <3>1 DEF WrStateInv
    <3>3. wr_rd_cnt_max' = wr_rd_cnt_max /\ pct_data_wrreq_cnt' = wr_rd_cnt
      BY <1>1, <1>2, <1>3, <1>4, <3>1, <3>2
    <3> QED
      BY <1>2, <2>1, <3>2, <3>3
  <2>3. i = current_buff_cnt /\ wr_state \in {"check_smpl_nr", "switch_next_buff", "rd_pct", "wait_wr_end"}
    BY <1>1, <2>1, <2>2 DEF WrFsm, WrGo
  <2>4. CASE wr_state = "check_smpl_nr"
    <3>1. pct_data_wrreq_cnt = 1 /\ wr_rd_cnt = 1
      BY <2>4 DEF WrStateInv, HdrDone
    <3>2. pct_data_wrreq_cnt' = 1
      BY <1>1, <1>2, <1>3, <2>4, <3>1
    <3>3. wr_state' = "switch_next_buff"
      BY <1>1, <2>1, <2>4 DEF WrFsm, WrGo
    <3> QED
      BY <1>6, <2>1, <2>3, <2>4, <3>2, <3>3
  <2>5. CASE wr_state # "check_smpl_nr"
    <3>1. pct_data_wrreq_cnt >= 1
      BY <2>3, <2>5 DEF WrStateInv, HdrDone
    <3>2. wr_rd_cnt_max' = wr_rd_cnt_max /\ pct_data_wrreq_cnt <= pct_data_wrreq_cnt'
          /\ pct_data_wrreq_cnt' \in Nat
      BY <1>1, <1>2, <1>4, <2>3, <3>1
    <3>3. pct_data_wrreq_cnt < wr_rd_cnt_max
      BY <1>2, <2>1, <3>2
    <3> QED
      BY <2>3, <2>5, <3>3 DEF Open
  <2> QED
    BY <2>4, <2>5
<1> QED
  BY <1>5, <1>6

\* What is in the buffer that is filled, one clock later: whether it is filled
\* further or not.
LEMMA Filling ==
  ASSUME BaseInv, FeedInv, WrStateInv, PointerInv, SelInv, OpenInv, ReadInv,
         NEW m \in 0 .. 1, NEW take \in 0 .. 1, ClockWith(m, take), NEW i \in Buffers, Open(i)
  PROVE  /\ HdrFor(i, Pkt, 3)'
         /\ Seg(bufQ'[i], Pkt', 2 * (pct_data_wrreq_cnt - 1)) /\ Len(bufQ'[i]) = 2 * (pct_data_wrreq_cnt - 1)
<1>1. /\ ~ClrBuff(i) /\ ~BuffRead(i)
  <2>1. ClrBuff(i) => IsLate(i)
    BY DEF ClrBuff, ReadInv
  <2>2. BuffRead(i) => BeingRead(i)
    BY DEF BuffRead, RdReqInt, ReadInv, Reading
  <2> QED
    BY <2>1, <2>2 DEF IsLate, BeingRead
<1>2. bufQ'[i] = bufQ[i] \o (IF pct_data_wrreq = i THEN Halves(pct_data) ELSE <<>>)
  BY <1>1, BufferStep DEF BuffWrite
<1>3. /\ wr_state \in {"switch_next_buff", "rd_pct", "wait_wr_end", "check_next_buf", "switch_current_buff"}
      /\ Pkt \in PktNo /\ pct_data_wrreq_cnt >= 1 /\ pct_data_wrreq_cnt \in Nat
      /\ Stored(i) \in Nat
  <2>1. pct_data_wrreq_cnt \in Nat
    BY DEF BaseInv
  <2>2. Stored(i) \in 0 .. 2 * PL(Pkt) - 2 /\ PL(Pkt) \in 1 .. MaxPayload
    BY OpenBounds
  <2>3. Stored(i) \in Nat
    BY <2>2
  <2> QED
    BY <2>1, <2>3, OpenBounds
<1>4. Pkt' = Pkt
  BY <1>3, PktStays
<1>5. HdrFor(i, Pkt, 3) /\ Seg(bufQ[i], Pkt, Stored(i)) /\ Len(bufQ[i]) = Stored(i)
  BY DEF OpenInv
<1>6. pct_hdr_valid # i
  BY <1>3, ConstantsOK DEF SelInv, Buffers
<1>7. HdrFor(i, Pkt, 3)'
  <2>1. PICK p \in {Pkt} : HdrFor(i, p, 3)'
    <3>1. \A p \in {Pkt} : HdrFor(i, p, 3) => HdrFor(i, p, 3)'
      <4>1. \A p \in {Pkt}, k \in 0 .. 3 : HdrFor(i, p, k) => HdrFor(i, p, IF k < 3 THEN k + 1 ELSE 3)'
        BY <1>6, HdrForStep
      <4>2. 3 \in 0 .. 3 /\ ~(3 < 3)
        OBVIOUS
      <4> QED
        BY <4>1, <4>2
    <3> QED
      BY <1>5, <3>1
  <2>2. p = Pkt'
    BY <1>4
  <2> QED
    BY <2>1, <2>2 DEF HdrFor, HdrIn, HdrWord, PktNo, PL, Payload
<1>8. bufQ[i] \in Seq(WordsIn)
  BY DEF BaseInv
<1>9. CASE pct_data_wrreq = i
  <2> DEFINE n == pct_data_wrreq_cnt
             h == Halves(pct_data)
  <2>1. Stored(i) = 2 * (n - 2) /\ n \in Nat /\ n >= 2 /\ Stored(i) + 2 = 2 * (n - 1)
        /\ Stored(i) + 1 = 2 * n - 3 /\ Stored(i) + 2 = 2 * n - 2
    <3>1. n >= 2
      BY <1>9, ConstantsOK DEF SelInv, Buffers
    <3> QED
      BY <1>3, <1>9, <3>1 DEF Stored
  <2>2. h \in Seq(WordsIn) /\ h = <<[pkt |-> Pkt, idx |-> 2 * n - 3], [pkt |-> Pkt, idx |-> 2 * n - 2]>>
    BY <1>9, WrittenWord, ConstantsOK DEF Buffers
  <2> HIDE DEF h, n
  <2>3. h = <<[pkt |-> Pkt, idx |-> Stored(i) + 1], [pkt |-> Pkt, idx |-> Stored(i) + 2]>>
    BY <2>1, <2>2
  <2>4. Seg(bufQ[i] \o h, Pkt, Stored(i) + 2) /\ Len(bufQ[i] \o h) = Stored(i) + 2
    BY <1>3, <1>5, <1>8, <2>2, <2>3, SegAppend
  <2>5. bufQ'[i] = bufQ[i] \o h
    BY <1>2, <1>9 DEF h
  <2> QED
    BY <1>4, <1>7, <2>1, <2>4, <2>5 DEF n
<1>10. CASE pct_data_wrreq # i
  <2>1. bufQ'[i] = bufQ[i] /\ Stored(i) = 2 * (pct_data_wrreq_cnt - 1)
    BY <1>2, <1>8, <1>10 DEF Stored
  <2> QED
    BY <1>4, <1>5, <1>7, <2>1
<1> QED
  BY <1>9, <1>10

\* The buffer that is being written holds what the counter says, and its header.
LEMMA OpenStep ==
  ASSUME BaseInv, FeedInv, WrStateInv, PointerInv, SelInv, HeaderInv, OpenInv, ReadInv,
         NEW m \in 0 .. 1, NEW take \in 0 .. 1, ClockWith(m, take)
  PROVE  OpenInv'
<1>1. SUFFICES ASSUME NEW i \in Buffers, Open(i)'
               PROVE  /\ HdrFor(i, Pkt, 3)'
                      /\ Seg(bufQ'[i], Pkt', Stored(i)') /\ Len(bufQ'[i]) = Stored(i)'
  BY DEF OpenInv, Buffers
<1>2. CASE wr_state = "check_smpl_nr" /\ wr_state' = "switch_next_buff"
  <2>1. /\ current_buff_cnt' = i /\ pct_data_wrreq' # i /\ pct_data_wrreq_cnt' = 1
    BY <1>1, <1>2, OpenBefore
  <2>2. HdrFor(current_buff_cnt, Pkt, 3)'
    BY <1>2, HeaderStep
  <2>3. HdrFor(i, Pkt, 3)'
    BY <2>1, <2>2 DEF HdrFor, HdrIn
  <2>4. bufQ'[i] = <<>>
    BY <1>2, <2>1, SelStep DEF SelInv
  <2>5. Stored(i)' = 0
    BY <2>1 DEF Stored
  <2> QED
    BY <2>3, <2>4, <2>5 DEF Seg
<1>3. CASE Open(i) /\ i = current_buff_cnt
           /\ wr_state \in {"switch_next_buff", "rd_pct", "wait_wr_end", "check_next_buf"}
  <2>1. /\ HdrFor(i, Pkt, 3)' /\ Seg(bufQ'[i], Pkt', 2 * (pct_data_wrreq_cnt - 1))
        /\ Len(bufQ'[i]) = 2 * (pct_data_wrreq_cnt - 1)
    BY <1>3, Filling
  <2>2. pct_data_wrreq_cnt >= 1 /\ pct_data_wrreq_cnt \in Nat /\ i # NBuff
    <3>1. pct_data_wrreq_cnt \in Nat
      BY DEF BaseInv
    <3>2. i # NBuff
      BY ConstantsOK DEF Buffers
    <3> QED
      BY <1>3, <3>1, <3>2, OpenBounds
  <2>3. /\ pct_data_wrreq_cnt' = IF in_pct_data_valid THEN pct_data_wrreq_cnt + 1 ELSE pct_data_wrreq_cnt
        /\ pct_data_wrreq' = IF in_pct_data_valid THEN i ELSE NBuff
    BY <1>3, <2>2 DEF ClockWith, WrClock, WrOut, WrDataHere
  <2>4. Stored(i)' = 2 * (pct_data_wrreq_cnt - 1)
    BY <2>2, <2>3 DEF Stored
  <2> QED
    BY <2>1, <2>4
<1> QED
  BY <1>1, <1>2, <1>3, OpenBefore

-----------------------------------------------------------------------------
\* Once the read side has seen all that was written it has seen all.
LEMMA AllInStays ==
  ASSUME BaseInv, FeedInv, SelInv, PointerInv, NEW m \in 0 .. 1, NEW take \in 0 .. 1, ClockWith(m, take),
         NEW i \in Buffers, AllIn(i), ~BuffWrite(i), ~ClrBuff(i)
  PROVE  AllIn(i)'
<1>1. /\ bufW'[i] = Shift(bufW[i], 0) /\ bufW[i] \in [Side -> Nat]
  BY BufferStep DEF BaseInv
<1>2. 0 \in Side /\ Lag \in Side /\ Lag \in Nat
  BY ConstantsOK DEF Side
<1>3. bufW'[i][0] = bufW[i][0]
  BY <1>1, <1>2 DEF Shift
<1>4. CASE Lag = 0
  BY <1>4 DEF AllIn
<1>5. CASE Lag # 0
  <2>1. Lag - 1 \in Side /\ 0 <= Lag - 1 /\ Lag - 1 <= Lag
    BY <1>2, <1>5 DEF Side
  <2>2. bufW[i][Lag] <= bufW[i][Lag - 1] /\ bufW[i][Lag - 1] <= bufW[i][0]
    BY <1>2, <2>1 DEF PointerInv
  <2>3. bufW[i][Lag - 1] = bufW[i][0]
    BY <1>1, <1>2, <2>1, <2>2 DEF AllIn
  <2>4. bufW'[i][Lag] = bufW[i][Lag - 1]
    BY <1>1, <1>2, <1>5 DEF Shift
  <2> QED
    BY <1>3, <2>3, <2>4 DEF AllIn
<1> QED
  BY <1>4, <1>5

\* What a buffer with its whole packet has.
LEMMA FullBuffer ==
  ASSUME BaseInv, NEW i \in Buffers, Full(i)
  PROVE  /\ bufQ[i] # <<>> /\ BP(i) \in PktNo /\ PL(BP(i)) \in 1 .. MaxPayload
         /\ stream[BP(i)] \in HdrSet /\ Hdr(pct_hdr_array[i]) = stream[BP(i)]
         /\ pct_buff_size[i] = 2 * PL(BP(i)) /\ Len(bufQ[i]) = 2 * PL(BP(i))
<1>1. BP(i) \in PktNo /\ HdrIn(i, BP(i)) /\ Len(bufQ[i]) = 2 * PL(BP(i))
  BY DEF Full, HdrFor
<1>2. PL(BP(i)) \in 1 .. MaxPayload /\ stream[BP(i)] \in HdrSet
  BY <1>1, Sizes DEF BaseInv
<1>3. Hdr(pct_hdr_array[i]) = stream[BP(i)]
  BY <1>1 DEF HdrIn, Hdr, HdrWord
<1>4. bufQ[i] # <<>>
  <2>1. Len(bufQ[i]) # 0
    BY <1>1, <1>2
  <2> QED
    BY <2>1
<1> QED
  BY <1>1, <1>2, <1>3, <1>4 DEF HdrIn

\* No header comes to a buffer that holds something.
\* A buffer that is not empty gets no header and is not the one selected.
LEMMA NoHeader ==
  ASSUME BaseInv, SelInv, NEW i \in Buffers, bufQ[i] # <<>>
  PROVE  /\ pct_hdr_valid # i
         /\ ~(wr_state \in {"check_smpl_nr", "switch_next_buff"} /\ i = current_buff_cnt)
BY ConstantsOK DEF SelInv, Buffers

\* A buffer that holds something and is not being written is left alone by the writer.
LEMMA ClosedStays ==
  ASSUME BaseInv, FeedInv, WrStateInv, SelInv, NEW m \in 0 .. 1, NEW take \in 0 .. 1, ClockWith(m, take),
         NEW i \in Buffers, ~Open(i), bufQ[i] # <<>>
  PROVE  ~Open(i)' /\ ~BuffWrite(i)
<1>1. ~BuffWrite(i)
  BY DEF Open, BuffWrite
<1>2. ~Open(i)'
  <2>1. SUFFICES ASSUME Open(i)' PROVE FALSE
    OBVIOUS
  <2> QED
    BY <2>1, OpenBefore, NoHeader
<1> QED
  BY <1>1, <1>2

\* A buffer with its whole packet keeps it until it is read or cleared.
LEMMA FullStays ==
  ASSUME BaseInv, FeedInv, WrStateInv, PointerInv, SelInv,
         NEW m \in 0 .. 1, NEW take \in 0 .. 1, ClockWith(m, take),
         NEW i \in Buffers, Full(i), ~Open(i), ~BuffRead(i), ~ClrBuff(i)
  PROVE  /\ Full(i)' /\ ~Open(i)' /\ (AllIn(i) => AllIn(i)')
         /\ bufQ'[i] = bufQ[i] /\ BP(i)' = BP(i) /\ stream' = stream
<1>1. bufQ[i] # <<>> /\ bufQ[i] \in Seq(WordsIn)
  BY FullBuffer DEF BaseInv
<1>2. ~Open(i)' /\ ~BuffWrite(i) /\ pct_hdr_valid # i
  BY <1>1, ClosedStays, NoHeader
<1>3. bufQ'[i] = bufQ[i]
  <2>1. bufQ'[i] = bufQ[i] \o <<>>
    BY <1>2, BufferStep
  <2> QED
    BY <1>1, <2>1
<1>4. PICK p \in {BP(i)} : HdrFor(i, p, 3)' /\ pct_hdr_array'[i] = pct_hdr_array[i]
  <2>1. \A p \in {BP(i)}, k \in 0 .. 3 : HdrFor(i, p, k) =>
          HdrFor(i, p, IF k < 3 THEN k + 1 ELSE 3)' /\ pct_hdr_array'[i] = pct_hdr_array[i]
    BY <1>2, HdrForStep
  <2>2. 3 \in 0 .. 3 /\ ~(3 < 3)
    OBVIOUS
  <2>3. HdrFor(i, BP(i), 3)
    BY DEF Full
  <2> QED
    BY <2>1, <2>2, <2>3
<1>5. stream' = stream
  BY DEF ClockWith
<1>6. BP(i)' = p /\ BP(i) = p
  BY <1>4 DEF BP
<1>8. Seg(bufQ'[i], p, 2 * PL(p)) /\ Len(bufQ'[i]) = 2 * PL(p)
  BY <1>3, <1>6 DEF Full
<1>9. PL(BP(i))' = PL(p)
  BY <1>5, <1>6 DEF PL, Payload
<1>10. HdrFor(i, BP(i), 3)'
  BY <1>4, <1>6 DEF HdrFor, HdrIn, HdrWord, PktNo, PL, Payload
<1>11. Full(i)'
  BY <1>6, <1>8, <1>9, <1>10 DEF Full
<1> QED
  BY <1>2, <1>3, <1>5, <1>6, <1>11, AllInStays

\* A clock of a buffer that is being read: the reader stops with its last word.
LEMMA ReadingStep ==
  ASSUME BaseInv, FeedInv, WrStateInv, PointerInv, SelInv, ReadInv,
         NEW m \in 0 .. 1, NEW take \in 0 .. 1, ClockWith(m, take), Reading,
         NEW c \in Buffers, c = crnt_buff_cnt
  PROVE  /\ crnt_buff_cnt' = c /\ stream' = stream
         /\ BP(c)' = BP(c) /\ ~Open(c)'
         /\ \/ Reading' /\ BeingRead(c)'
            \/ rd_state' = "switch_next_buff" /\ bufQ'[c] = <<>> /\ rd_cnt > 0
<1> DEFINE p == BP(c)
           len == 2 * PL(p)
<1>1. /\ c \in Buffers /\ rd_cnt \in Nat /\ bufQ[c] \in Seq(WordsIn) /\ rd_state \in {"rd_buff", "rd_hold"}
      /\ 0 \in Side /\ Lag \in Side
  <2>1. 0 \in Side /\ Lag \in Side
    BY ConstantsOK DEF Side
  <2> QED
    BY <2>1 DEF BaseInv, Reading
<1>2. /\ ~Open(c) /\ AllIn(c) /\ p \in PktNo /\ HdrIn(c, p) /\ Seg(bufQ[c], p, len)
      /\ rd_cnt < len /\ Len(bufQ[c]) = len - rd_cnt /\ rd_cnt_max = len
      /\ crnt_buff_payload_size = stream[p].size
  BY DEF ReadInv, BeingRead
<1>3. PL(p) \in 1 .. MaxPayload
  BY <1>2, Sizes DEF BaseInv
<1>4. bufQ[c] # <<>>
  <2>1. Len(bufQ[c]) > 0
    BY <1>1, <1>2, <1>3
  <2> QED
    BY <2>1
<1>5. ~Open(c)' /\ ~BuffWrite(c) /\ pct_hdr_valid # c /\ ~ClrBuff(c)
  BY <1>1, <1>2, <1>4, ClosedStays, NoHeader DEF ClrBuff
<1>6. /\ stream' = stream /\ crnt_buff_cnt' = c
      /\ pct_hdr_array'[c] = pct_hdr_array[c] /\ pct_buff_size'[c] = pct_buff_size[c]
      /\ rd_cnt' = IF RdReqInt THEN rd_cnt + 1 ELSE rd_cnt
      /\ rd_cnt_max' = 2 * Payload(crnt_buff_payload_size)
      /\ crnt_buff_payload_size' = Hdr(pct_hdr_array[c]).size
      /\ RdFsm
  BY <1>1, <1>5 DEF ClockWith, RdClock, RdHeaders, CrntBuffSel, RdCntProc, BuffSizeRdy
<1>7. BP(c)' = p /\ HdrIn(c, BP(c))' /\ p \in PktNo' /\ PL(BP(c))' = PL(p)
  BY <1>2, <1>6 DEF BP, HdrIn, HdrWord, PktNo, PL, Payload
<1>8. rd_cnt_max' = len /\ crnt_buff_payload_size' = stream'[p].size
  <2>1. Hdr(pct_hdr_array[c]) = stream[p]
    BY <1>2 DEF HdrIn, Hdr, HdrWord
  <2> QED
    BY <1>2, <1>6, <2>1 DEF PL
<1>9. AllIn(c)'
  BY <1>1, <1>2, <1>5, <1>6, AllInStays DEF AllIn
<1>10. BuffRead(c) <=> RdReqInt
  <2>1. BuffRdusedw(c) = Len(bufQ[c])
    BY <1>1, <1>2, <1>5 DEF BuffRdusedw, AllIn, PointerInv
  <2>2. BuffRdusedw(c) > 0
    BY <1>1, <1>2, <1>3, <2>1
  <2> QED
    BY <2>2 DEF BuffRead
<1>11. CASE RdReqInt
  <2>1. /\ rd_cnt' = rd_cnt + 1 /\ rd_state = "rd_buff" /\ ~fifo_full_sig
    BY <1>6, <1>11 DEF RdReqInt
  <2>2. rd_state' = IF rd_cnt < rd_cnt_max - 1 THEN "rd_buff" ELSE "switch_next_buff"
    BY <1>6, <2>1 DEF RdFsm, RdGo
  <2>3. bufQ'[c] = Tail(bufQ[c])
    <3>1. BuffRead(c)
      BY <1>10, <1>11
    <3>2. bufQ'[c] = Tail(bufQ[c]) \o <<>>
      BY <1>5, <3>1, BufferStep
    <3>3. Tail(bufQ[c]) \in Seq(WordsIn)
      BY <1>1, <1>4
    <3> QED
      BY <3>2, <3>3
  <2>4. len \in Nat
    BY <1>3
  <2>5. Seg(bufQ'[c], p, len) /\ Len(bufQ'[c]) = len - rd_cnt'
    <3>1. Seg(Tail(bufQ[c]), p, len) /\ Len(Tail(bufQ[c])) = Len(bufQ[c]) - 1
      BY <1>1, <1>2, <1>4, <2>4, SegTail
    <3> QED
      BY <1>1, <1>2, <2>1, <2>3, <2>4, <3>1
  <2>6. CASE rd_cnt < len - 1
    <3>1. rd_cnt' < len /\ Reading'
      BY <1>1, <1>2, <2>1, <2>2, <2>4, <2>6 DEF Reading
    <3>2. BeingRead(c)'
      BY <1>5, <1>6, <1>7, <1>8, <1>9, <2>5, <3>1 DEF BeingRead
    <3> QED
      BY <1>5, <1>6, <1>7, <3>1, <3>2
  <2>7. CASE ~(rd_cnt < len - 1)
    <3>1. rd_state' = "switch_next_buff"
      BY <1>2, <2>2, <2>7
    <3>2. rd_cnt' = len /\ rd_cnt > 0
      BY <1>1, <1>2, <1>3, <2>1, <2>7
    <3>3. Len(bufQ'[c]) = 0 /\ bufQ'[c] \in Seq(WordsIn)
      <4>1. bufQ'[c] \in Seq(WordsIn)
        BY BufferStep
      <4> QED
        BY <1>1, <2>4, <2>5, <3>2, <4>1
    <3>4. bufQ'[c] = <<>>
      BY <3>3
    <3> QED
      BY <1>5, <1>6, <1>7, <3>1, <3>2, <3>4
  <2> QED
    BY <2>6, <2>7
<1>12. CASE ~RdReqInt
  <2>1. rd_cnt' = rd_cnt
    BY <1>6, <1>12
  <2>2. Reading'
    BY <1>1, <1>6, <1>12 DEF RdFsm, RdGo, RdReqInt, Reading
  <2>3. bufQ'[c] = bufQ[c]
    <3>1. bufQ'[c] = bufQ[c] \o <<>>
      BY <1>1, <1>5, <1>10, <1>12, BufferStep
    <3> QED
      BY <1>1, <3>1
  <2>4. BeingRead(c)'
    BY <1>2, <1>5, <1>6, <1>7, <1>8, <1>9, <2>1, <2>3 DEF BeingRead
  <2> QED
    BY <1>5, <1>6, <1>7, <2>2, <2>4
<1> QED
  BY <1>11, <1>12

\* A buffer is no longer being written when it has the last word, and not before.
LEMMA ClosesFull ==
  ASSUME BaseInv, FeedInv, WrStateInv, SelInv,
         NEW m \in 0 .. 1, NEW take \in 0 .. 1, ClockWith(m, take),
         NEW i \in Buffers, Open(i), ~Open(i)'
  PROVE  pct_data_wrreq_cnt = wr_rd_cnt_max
<1>2. /\ wr_state \in {"switch_next_buff", "rd_pct", "wait_wr_end", "check_next_buf", "switch_current_buff"}
      /\ Pkt \in PktNo /\ pct_data_wrreq_cnt >= 1 /\ wr_rd_cnt_max = PL(Pkt) + 1
      /\ pct_data_wrreq_cnt <= wr_rd_cnt_max /\ PL(Pkt) \in 1 .. MaxPayload
  BY OpenBounds
<1>3. /\ pct_data_wrreq_cnt \in Nat /\ i # NBuff /\ wr_rd_cnt \in Nat
      /\ in_pct_data_valid \in BOOLEAN
  <2>1. i # NBuff
    BY ConstantsOK DEF Buffers
  <2> QED
    BY <2>1 DEF BaseInv
<1>4. /\ pct_data_wrreq' = IF in_pct_data_valid THEN current_buff_cnt ELSE NBuff
      /\ pct_data_wrreq_cnt' = IF in_pct_data_valid THEN pct_data_wrreq_cnt + 1 ELSE pct_data_wrreq_cnt
      /\ wr_rd_cnt_max' = wr_rd_cnt_max /\ WrFsm
      /\ current_buff_cnt' = IF wr_state = "check_next_buf" THEN next_buff_cnt ELSE current_buff_cnt
  BY <1>2, <1>3 DEF ClockWith, WrClock, WrOut, BuffSel, WrDataHere, WrHdrHere
<1>5. pct_data_wrreq' # i
  BY DEF Open
<1>6. pct_data_wrreq_cnt = wr_rd_cnt_max
  <2>1. SUFFICES ASSUME pct_data_wrreq_cnt < wr_rd_cnt_max PROVE FALSE
    BY <1>2, <1>3
  <2>2. i = current_buff_cnt
        /\ wr_state \in {"switch_next_buff", "rd_pct", "wait_wr_end", "check_next_buf"}
    <3>1. CASE pct_data_wrreq = i
      <4>1. wr_state # "switch_current_buff"
        BY <1>3, <2>1 DEF WrStateInv
      <4>2. wr_state # "switch_next_buff"
        BY <3>1, <1>3 DEF SelInv
      <4>3. wr_state = "check_next_buf" => pct_data_wrreq_cnt < wr_rd_cnt_max
        BY <2>1
      <4> QED
        BY <1>2, <1>3, <2>1, <3>1, <4>1, <4>2, <4>3 DEF SelInv
    <3>2. CASE pct_data_wrreq # i
      BY <3>2 DEF Open
    <3> QED
      BY <3>1, <3>2
  <2>3. ~in_pct_data_valid /\ pct_data_wrreq_cnt' = pct_data_wrreq_cnt
    BY <1>4, <1>5, <2>2
  <2>4. wr_state # "check_next_buf"
    <3>1. SUFFICES ASSUME wr_state = "check_next_buf" PROVE FALSE
      OBVIOUS
    <3>2. wr_rd_cnt = wr_rd_cnt_max /\ ~in_pct_rdreq_int
      BY <3>1 DEF WrStateInv
    <3>3. pct_data_wrreq_cnt = wr_rd_cnt
      BY <3>2, <2>3 DEF FeedInv, Asked, Got
    <3> QED
      BY <1>3, <2>1, <3>2, <3>3
  <2>5. /\ wr_state' \in {"rd_pct", "wait_wr_end", "check_next_buf"} /\ current_buff_cnt' = i
    BY <1>4, <2>2, <2>4 DEF WrFsm, WrGo
  <2> QED
    BY <1>4, <2>1, <2>3, <2>5 DEF Open
<1> QED
  BY <1>6

\* What is in a buffer that is not being written is a whole packet, or the rest of the
\* one that is being read.
LEMMA StoredStep ==
  ASSUME BaseInv, FeedInv, WrStateInv, PointerInv, SelInv, HeaderInv, OpenInv, StoredInv, ReadInv,
         NEW m \in 0 .. 1, NEW take \in 0 .. 1, ClockWith(m, take)
  PROVE  StoredInv'
<1>1. SUFFICES ASSUME NEW i \in Buffers, ~Open(i)', bufQ'[i] # <<>>
               PROVE  Full(i)' \/ (Reading' /\ i = crnt_buff_cnt')
  BY DEF StoredInv, Buffers
<1>2. CASE Open(i)
  <2>1. /\ HdrFor(i, Pkt, 3)' /\ Seg(bufQ'[i], Pkt', 2 * (pct_data_wrreq_cnt - 1))
        /\ Len(bufQ'[i]) = 2 * (pct_data_wrreq_cnt - 1)
    BY <1>2, Filling
  <2>2. /\ wr_state # "idle" /\ Pkt \in PktNo /\ wr_rd_cnt_max = PL(Pkt) + 1
        /\ PL(Pkt) \in 1 .. MaxPayload
    BY <1>2, OpenBounds
  <2>6. pct_data_wrreq_cnt = wr_rd_cnt_max
    BY <1>1, <1>2, ClosesFull
  <2>7. Pkt' = Pkt
    BY <2>2, PktStays
  <2>8. BP(i)' = Pkt' /\ PL(BP(i))' = PL(Pkt)
    <3>1. stream' = stream /\ pct_hdr_array'[i] = HdrWord(Pkt)
      BY <2>1, <2>7 DEF ClockWith, HdrFor, HdrIn, HdrWord
    <3> QED
      BY <2>7, <3>1 DEF BP, HdrWord, PL, Payload
  <2>9. HdrFor(i, BP(i), 3)'
    BY <2>1, <2>8 DEF HdrFor, HdrIn, HdrWord, PktNo, PL, Payload
  <2>10. 2 * (pct_data_wrreq_cnt - 1) = 2 * PL(Pkt)
    BY <2>2, <2>6
  <2> QED
    BY <2>1, <2>7, <2>8, <2>9, <2>10 DEF Full
<1>3. CASE ~Open(i) /\ bufQ[i] = <<>>
  <2>1. ~BuffWrite(i)
    BY <1>3 DEF Open, BuffWrite
  <2> QED
    BY <1>1, <1>3, <2>1, StaysEmpty
<1>4. CASE Reading /\ i = crnt_buff_cnt
  BY <1>1, <1>4, ReadingStep
<1>5. CASE ~Open(i) /\ bufQ[i] # <<>> /\ ~(Reading /\ i = crnt_buff_cnt)
  <2>1. Full(i)
    BY <1>5 DEF StoredInv
  <2>2. ~BuffRead(i)
    BY <1>5 DEF BuffRead, RdReqInt, Reading
  <2>3. ~ClrBuff(i)
    BY <1>1, BufferStep
  <2> QED
    BY <1>5, <2>1, <2>2, <2>3, FullStays
<1> QED
  BY <1>2, <1>3, <1>4, <1>5

\* The number of words the read side sees.
LEMMA RdusedwBound ==
  ASSUME BaseInv, PointerInv, NEW i \in Buffers
  PROVE  /\ BuffRdusedw(i) \in Nat /\ BuffRdusedw(i) <= Len(bufQ[i])
         /\ BuffRdusedw(i) = Len(bufQ[i]) => AllIn(i) \/ ClrBuff(i)
<1>1. 0 \in Side /\ Lag \in Side /\ 0 <= Lag
  BY ConstantsOK DEF Side
<1>2. /\ bufW[i][0] \in Nat /\ bufW[i][Lag] \in Nat /\ bufR[i][0] \in Nat
  BY <1>1 DEF BaseInv
<1>3. /\ bufR[i][0] <= bufW[i][Lag] /\ bufW[i][Lag] <= bufW[i][0]
      /\ Len(bufQ[i]) = bufW[i][0] - bufR[i][0]
  BY <1>1 DEF PointerInv
<1>4. CASE ClrBuff(i)
  BY <1>2, <1>3, <1>4 DEF BuffRdusedw
<1>5. CASE ~ClrBuff(i)
  BY <1>2, <1>3, <1>5 DEF BuffRdusedw, AllIn
<1> QED
  BY <1>4, <1>5

\* The ready flag goes up for a buffer with its whole packet only, or for the one that is
\* being read.
LEMMA ReadyStep ==
  ASSUME BaseInv, FeedInv, WrStateInv, PointerInv, SelInv, OpenInv, StoredInv, ReadInv,
         NEW m \in 0 .. 1, NEW take \in 0 .. 1, ClockWith(m, take),
         NEW i \in Buffers, pct_buff_rdy_int'[i]
  PROVE  Ready(i)' \/ (Reading' /\ i = crnt_buff_cnt')
<1>1. BuffRdusedw(i) = pct_buff_size[i]
  BY DEF ClockWith, BuffSizeRdy
<1>2. pct_buff_size[i] \in Nat \ {0}
  BY DEF BaseInv
<1>3. Len(bufQ[i]) # 0 /\ ~ClrBuff(i) /\ pct_buff_size[i] <= Len(bufQ[i])
  BY <1>1, <1>2, RdusedwBound DEF BuffRdusedw
<1>4. bufQ[i] # <<>>
  BY <1>3
<1>5. ~Open(i)
  <2>1. SUFFICES ASSUME Open(i) PROVE FALSE
    OBVIOUS
  <2>2. Stored(i) \in 0 .. 2 * PL(Pkt) - 2 /\ PL(Pkt) \in 1 .. MaxPayload
    BY <2>1, OpenBounds
  <2>3. pct_buff_size[i] = 2 * PL(Pkt) /\ Len(bufQ[i]) = Stored(i)
    BY <2>1 DEF OpenInv, HdrFor, HdrIn
  <2> QED
    BY <1>3, <2>2, <2>3
<1>6. CASE Reading /\ i = crnt_buff_cnt
  <2>1. BeingRead(i)
    BY <1>6 DEF ReadInv
  <2>2. BP(i) \in PktNo /\ pct_buff_size[i] = 2 * PL(BP(i)) /\ Len(bufQ[i]) = 2 * PL(BP(i)) - rd_cnt
    BY <2>1 DEF BeingRead, HdrIn
  <2>3. PL(BP(i)) \in 1 .. MaxPayload /\ rd_cnt \in Nat
    BY <2>2, Sizes DEF BaseInv
  <2>4. rd_cnt = 0
    BY <1>3, <2>2, <2>3
  <2> QED
    BY <1>6, <2>4, ReadingStep
<1>7. CASE ~(Reading /\ i = crnt_buff_cnt)
  <2>1. Full(i) /\ ~BuffRead(i)
    BY <1>4, <1>5, <1>7 DEF StoredInv, BuffRead, RdReqInt, Reading
  <2>2. AllIn(i)
    BY <1>1, <1>3, <2>1, FullBuffer, RdusedwBound
  <2> QED
    BY <1>3, <1>5, <2>1, <2>2, FullStays DEF Ready
<1> QED
  BY <1>6, <1>7

\* When the reader leaves idle it has looked at this buffer, its header and its comparator.
LEMMA StartOrClear ==
  ASSUME BaseInv, FeedInv, WrStateInv, PointerInv, SelInv, ReadInv,
         NEW m \in 0 .. 1, NEW take \in 0 .. 1, ClockWith(m, take),
         NEW c \in Buffers, c = crnt_buff_cnt, rd_state = "idle", rd_state' # "idle"
  PROVE  /\ crnt_buff_cnt' = c /\ MayStart(c)
         /\ \/ rd_state' = "rd_buff" /\ BeingRead(c)' /\ (crnt_buff_pct_synch_dis \/ crnt_buff_cmp = "equal")
            \/ rd_state' = "clr_buff" /\ IsLate(c)' /\ ~crnt_buff_pct_synch_dis /\ crnt_buff_cmp = "less"
<1>1. /\ crnt_buff_cnt' = crnt_buff_cnt /\ rd_cnt' = 0
      /\ rd_cnt_max' = 2 * Payload(crnt_buff_payload_size)
      /\ crnt_buff_payload_size' = Hdr(pct_hdr_array[crnt_buff_cnt]).size
      /\ rd_state' = RdStart
  BY DEF ClockWith, RdClock, RdCntProc, CrntBuffSel, RdFsm, RdGo
<1>2. /\ crnt_buff_rdy
      /\ \/ rd_state' = "rd_buff" /\ (crnt_buff_pct_synch_dis \/ crnt_buff_cmp = "equal")
         \/ rd_state' = "clr_buff" /\ ~crnt_buff_pct_synch_dis /\ crnt_buff_cmp = "less"
  BY <1>1 DEF RdStart
<1>3. MayStart(c)
  BY <1>2 DEF ReadInv
<1>4. /\ Full(c) /\ AllIn(c) /\ ~Open(c) /\ crnt_buff_payload_size = stream[BP(c)].size
      /\ crnt_buff_pct_synch_dis = stream[BP(c)].dis
      /\ CmpOK(crnt_buff_cmp, stream[BP(c)].nr, 4, sample_nr)
  BY <1>3 DEF MayStart, Ready
<1>5. ~BuffRead(c) /\ ~ClrBuff(c)
  BY DEF BuffRead, RdReqInt, ClrBuff
<1>6. /\ Full(c)' /\ ~Open(c)' /\ AllIn(c)' /\ bufQ'[c] = bufQ[c] /\ BP(c)' = BP(c) /\ stream' = stream
  BY <1>4, <1>5, FullStays
<1>7. /\ PL(BP(c)) \in 1 .. MaxPayload /\ Hdr(pct_hdr_array[c]) = stream[BP(c)]
      /\ stream[BP(c)] \in HdrSet
  BY <1>4, FullBuffer
<1>8. PL(BP(c))' = PL(BP(c))
  BY <1>6 DEF PL, Payload
<1>9. CASE rd_state' = "rd_buff"
  <2>1. BP(c)' \in PktNo' /\ HdrIn(c, BP(c))' /\ Seg(bufQ'[c], BP(c)', 2 * PL(BP(c))')
        /\ Len(bufQ'[c]) = 2 * PL(BP(c))'
    BY <1>6 DEF Full, HdrFor
  <2>2. rd_cnt_max' = 2 * PL(BP(c)) /\ crnt_buff_payload_size' = stream'[BP(c)'].size
    BY <1>1, <1>4, <1>6, <1>7 DEF PL
  <2>3. Len(bufQ'[c]) = 2 * PL(BP(c))' - rd_cnt' /\ rd_cnt' < 2 * PL(BP(c))'
    <3>1. Len(bufQ'[c]) = 2 * PL(BP(c))
      BY <1>4, <1>6 DEF Full
    <3>2. Len(bufQ'[c]) = 2 * PL(BP(c)) - rd_cnt' /\ rd_cnt' < 2 * PL(BP(c))
      BY <1>1, <1>7, <3>1
    <3> QED
      BY <1>8, <3>2
  <2>4. BeingRead(c)'
    BY <1>6, <1>8, <2>1, <2>2, <2>3 DEF BeingRead
  <2> QED
    BY <1>1, <1>2, <1>3, <1>9, <2>4
<1>10. CASE rd_state' = "clr_buff"
  <2>1. ~crnt_buff_pct_synch_dis /\ crnt_buff_cmp = "less"
    BY <1>2, <1>10
  <2>2. ~stream[BP(c)].dis /\ stream[BP(c)].nr < sample_nr /\ stream[BP(c)].nr \in Nat
    BY <1>4, <1>7, <2>1 DEF CmpOK, HdrSet
  <2>3. IsLate(c)'
    BY <1>6, <2>2, SampleNrStep DEF IsLate
  <2> QED
    BY <1>1, <1>2, <1>3, <1>10, <2>3
<1> QED
  BY <1>2, <1>9, <1>10

\* What p2d_rd has registered of its buffer is true of it.
LEMMA ReadStep ==
  ASSUME BaseInv, FeedInv, WrStateInv, PointerInv, SelInv, OpenInv, StoredInv, ReadInv,
         NEW m \in 0 .. 1, NEW take \in 0 .. 1, ClockWith(m, take)
  PROVE  ReadInv'
<1>1. /\ crnt_buff_cnt' = IF rd_state = "switch_next_buff" THEN NextBuff(crnt_buff_cnt) ELSE crnt_buff_cnt
      /\ crnt_buff_rdy' = pct_buff_rdy_int[crnt_buff_cnt]
      /\ crnt_buff_pct_synch_dis' = Hdr(pct_hdr_array[crnt_buff_cnt]).dis
      /\ crnt_buff_cmp' = rd_cmp[crnt_buff_cnt][3]
      /\ crnt_buff_payload_size' = Hdr(pct_hdr_array[crnt_buff_cnt]).size
      /\ RdFsm
  BY DEF ClockWith, RdClock, CrntBuffSel
<1>2. ASSUME NEW i \in Buffers, i = crnt_buff_cnt', Reading'
      PROVE  BeingRead(i)'
  <2>1. CASE Reading
    <3>1. \A c \in Buffers : c = crnt_buff_cnt =>
            crnt_buff_cnt' = c /\ ((Reading' /\ BeingRead(c)') \/ rd_state' = "switch_next_buff")
      BY <2>1, ReadingStep
    <3>2. rd_state' # "switch_next_buff"
      BY <1>2 DEF Reading
    <3>3. crnt_buff_cnt \in Buffers
      BY DEF BaseInv
    <3> QED
      BY <1>2, <3>1, <3>2, <3>3
  <2>2. CASE ~Reading
    <3>1. rd_state = "idle" /\ rd_state' = "rd_buff" /\ crnt_buff_cnt' = crnt_buff_cnt
      BY <1>1, <1>2, <2>2 DEF Reading, RdFsm, RdGo, RdStart
    <3> QED
      BY <1>2, <3>1, StartOrClear
  <2> QED
    BY <2>1, <2>2
<1>3. ASSUME NEW i \in Buffers, i = crnt_buff_cnt', rd_state' = "clr_buff"
      PROVE  IsLate(i)'
  <2>1. rd_state = "idle" /\ crnt_buff_cnt' = crnt_buff_cnt
    BY <1>1, <1>3 DEF RdFsm, RdGo
  <2> QED
    BY <1>3, <2>1, StartOrClear
<1>4. ASSUME NEW i \in Buffers, i = crnt_buff_cnt', rd_state' = "idle", crnt_buff_rdy'
      PROVE  MayStart(i)'
  <2>1. rd_state \in {"idle", "check_next_buf"} /\ crnt_buff_cnt' = crnt_buff_cnt /\ i = crnt_buff_cnt
    BY <1>1, <1>4 DEF RdFsm, RdGo
  <2>2. Ready(i)
    BY <1>1, <1>4, <2>1 DEF ReadInv, Reading
  <2>3. ~BuffRead(i) /\ ~ClrBuff(i)
    BY <2>1 DEF BuffRead, RdReqInt, ClrBuff
  <2>4. /\ Full(i)' /\ ~Open(i)' /\ AllIn(i)' /\ BP(i)' = BP(i) /\ stream' = stream
    BY <2>2, <2>3, FullStays DEF Ready
  <2>5. Hdr(pct_hdr_array[i]) = stream[BP(i)] /\ stream[BP(i)] \in HdrSet
    BY <2>2, FullBuffer DEF Ready
  <2>6. CmpOK(rd_cmp[i][3], stream[BP(i)].nr, 3, sample_nr)
    BY <2>2 DEF Ready, Full, HdrFor
  <2>7. CmpOK(crnt_buff_cmp', stream[BP(i)].nr, 4, sample_nr')
    BY <1>1, <2>1, <2>5, <2>6, SampleNrStep DEF CmpOK, HdrSet
  <2> QED
    BY <1>1, <2>1, <2>4, <2>5, <2>7 DEF MayStart, Ready
<1> QED
  BY <1>2, <1>3, <1>4, ReadyStep DEF ReadInv, Buffers

-----------------------------------------------------------------------------
\* The registers keep their ranges.
LEMMA BaseStep ==
  ASSUME BaseInv, FeedInv, WrStateInv, PointerInv, SelInv, ReadInv,
         NEW m \in 0 .. 1, NEW take \in 0 .. 1, ClockWith(m, take)
  PROVE  BaseInv'
<1>1. stream' = stream /\ PktNo' = PktNo /\ WordsIn' = WordsIn
  BY DEF ClockWith, PktNo, WordsIn
<1>2. /\ stream' \in Seq(HdrSet) /\ sample_nr' \in 0 .. MaxNr
      /\ feed_pkt' = feed_pkt /\ feed_pkt' \in 0 .. Len(stream')
  <2>1. stream' \in Seq(HdrSet) /\ feed_pkt' = feed_pkt /\ feed_pkt' \in 0 .. Len(stream')
    BY <1>1 DEF ClockWith, FeedClock, BaseInv
  <2>2. sample_nr' = sample_nr + m /\ sample_nr' <= MaxNr /\ sample_nr \in 0 .. MaxNr
    BY DEF ClockWith, Tick, BaseInv
  <2> QED
    BY <2>1, <2>2, ConstantsOK
<1>3. FeedRead => /\ feed_pkt \in PktNo /\ feed_idx \in 1 .. W(feed_pkt)
                  /\ W(feed_pkt) \in 2 .. MaxPayload + 1
  <2>1. SUFFICES ASSUME FeedRead
                 PROVE  /\ feed_pkt \in PktNo /\ feed_idx \in 1 .. W(feed_pkt)
                        /\ W(feed_pkt) \in 2 .. MaxPayload + 1
    OBVIOUS
  <2>2. wr_state # "idle" /\ in_pct_rdreq_int /\ feed_idx > 0
    BY <2>1 DEF FeedRead, FeedInv
  <2>3. /\ Asked = wr_rd_cnt /\ wr_rd_cnt <= W(Pkt) /\ Pkt \in PktNo
        /\ IF Got < W(Pkt) THEN feed_pkt = Pkt /\ feed_idx = Got + 1
           ELSE (feed_idx = 0 /\ feed_pkt = Pkt) \/ (feed_idx = 1 /\ feed_pkt = Pkt + 1)
    BY <2>2 DEF FeedInv
  <2>4. W(Pkt) \in 2 .. MaxPayload + 1
    BY <2>3, Sizes DEF BaseInv
  <2>5. Got \in Nat /\ Asked = Got + 1
    BY <2>2 DEF Got, Asked, BaseInv
  <2>6. Got < W(Pkt)
    BY <2>3, <2>4, <2>5 DEF BaseInv
  <2> QED
    BY <2>3, <2>4, <2>5, <2>6
<1>4. /\ feed_idx' \in 0 .. MaxPayload + 1 /\ (feed_idx' > 0 => feed_pkt' \in PktNo')
      /\ in_pct_data' \in WordsIn' /\ in_pct_rdy' \in BOOLEAN
  <2>1. /\ feed_idx' = IF ~in_pct_reset_n_req THEN 0 ELSE IF ~FeedRead THEN feed_idx
                       ELSE IF feed_idx = W(feed_pkt) THEN 0 ELSE feed_idx + 1
        /\ in_pct_data' = IF FeedRead THEN [pkt |-> feed_pkt, idx |-> feed_idx] ELSE in_pct_data
        /\ in_pct_rdy' = (feed_idx = 1 /\ in_pct_reset_n_req)
    BY DEF ClockWith, FeedClock, W
  <2>2. /\ feed_idx \in 0 .. MaxPayload + 1 /\ (feed_idx > 0 => feed_pkt \in PktNo)
        /\ in_pct_data \in WordsIn /\ in_pct_reset_n_req \in BOOLEAN
    BY DEF BaseInv
  <2>3. CASE FeedRead
    <3>1. feed_idx' \in 0 .. MaxPayload + 1 /\ (feed_idx' > 0 => feed_pkt' \in PktNo')
      BY <1>1, <1>2, <1>3, <2>1, <2>2, <2>3, ConstantsOK
    <3>2. [pkt |-> feed_pkt, idx |-> feed_idx] \in WordsIn
      BY <1>3, <2>3, ConstantsOK DEF WordsIn
    <3> QED
      BY <1>1, <2>1, <2>3, <3>1, <3>2
  <2>4. CASE ~FeedRead
    BY <1>1, <1>2, <2>1, <2>2, <2>4, ConstantsOK
  <2> QED
    BY <2>3, <2>4
<1>5. /\ pct_hdr_reg' \in WordsIn' /\ pct_data' \in WordsIn'
      /\ pct_hdr_valid' \in 0 .. NBuff /\ pct_data_wrreq' \in 0 .. NBuff
      /\ wr_rd_cnt_max' \in 0 .. MaxPayload + 1
      /\ in_pct_rdreq_int' \in BOOLEAN /\ in_pct_data_valid' \in BOOLEAN
      /\ in_pct_reset_n_req' \in BOOLEAN /\ pct_data_wrreq_cnt' \in Nat
  <2>1. /\ in_pct_data \in WordsIn /\ pct_hdr_reg \in WordsIn /\ pct_data \in WordsIn
        /\ current_buff_cnt \in Buffers /\ wr_rd_cnt_max \in 0 .. MaxPayload + 1
        /\ in_pct_rdreq_int \in BOOLEAN /\ pct_data_wrreq_cnt \in Nat
    BY DEF BaseInv
  <2>2. Hdr(in_pct_data).size \in 0 .. MaxPayload
    BY <2>1, HdrSize DEF BaseInv
  <2>3. Words(Hdr(in_pct_data).size) \in 0 .. MaxPayload + 1
    BY <2>2, ConstantsOK DEF Words, Payload
  <2>4. current_buff_cnt \in 0 .. NBuff /\ NBuff \in 0 .. NBuff
    BY <2>1, ConstantsOK DEF Buffers
  <2>5. WrOut
    BY DEF ClockWith, WrClock
  <2> QED
    BY <1>1, <2>1, <2>3, <2>4, <2>5 DEF WrOut
<1>6. /\ wr_state' \in {"idle", "rd_hdr", "wait_cmpr_pipe", "check_smpl_nr", "clr_fifo",
                        "switch_next_buff", "rd_pct", "wait_wr_end", "check_next_buf",
                        "switch_current_buff"}
      /\ rd_state' \in {"idle", "clr_buff", "rd_buff", "rd_hold", "switch_next_buff",
                        "check_next_buf"}
  <2>1. WrFsm /\ RdFsm
    BY DEF ClockWith, WrClock, RdClock
  <2>2. wr_state' \in {"idle", "rd_hdr", "wait_cmpr_pipe", "check_smpl_nr", "clr_fifo",
                        "switch_next_buff", "rd_pct", "wait_wr_end", "check_next_buf",
                        "switch_current_buff"}
    BY <2>1 DEF WrFsm, WrGo
  <2> QED
    BY <2>1, <2>2 DEF RdFsm, RdGo, RdStart
<1>7. /\ current_buff_cnt' \in Buffers' /\ next_buff_cnt' \in Buffers' /\ crnt_buff_cnt' \in Buffers'
      /\ current_buff_rdy' \in BOOLEAN /\ next_buff_rdy' \in BOOLEAN
  <2>1. current_buff_cnt \in Buffers /\ next_buff_cnt \in Buffers /\ crnt_buff_cnt \in Buffers
    BY DEF BaseInv
  <2>2. NextBuff(next_buff_cnt) \in Buffers /\ NextBuff(crnt_buff_cnt) \in Buffers
    BY <2>1, NextBuffer
  <2>3. \A i \in Buffers : BuffWrempty(i) \in BOOLEAN
    BY DEF BuffWrempty, ClrBuff
  <2>4. /\ next_buff_cnt' = IF wr_state = "switch_next_buff" THEN NextBuff(next_buff_cnt)
                            ELSE next_buff_cnt
        /\ next_buff_rdy' = BuffWrempty(next_buff_cnt)
        /\ current_buff_cnt' = IF wr_state = "check_next_buf" THEN next_buff_cnt
                               ELSE current_buff_cnt
        /\ current_buff_rdy' = BuffWrempty(current_buff_cnt)
        /\ crnt_buff_cnt' = IF rd_state = "switch_next_buff" THEN NextBuff(crnt_buff_cnt)
                            ELSE crnt_buff_cnt
    BY DEF ClockWith, WrClock, BuffSel, RdClock, CrntBuffSel
  <2>5. Buffers' = Buffers
    BY DEF Buffers
  <2> QED
    BY <2>1, <2>2, <2>3, <2>4, <2>5
<1>8. wr_rd_cnt' \in 0 .. MaxPayload + 1 /\ pipe_cnt' \in Nat
  <2>1. /\ wr_rd_cnt' = IF wr_state \in {"rd_pct", "rd_hdr"} THEN wr_rd_cnt + 1
                        ELSE IF wr_state = "idle" THEN 0 ELSE wr_rd_cnt
        /\ pipe_cnt' = IF wr_state = "wait_cmpr_pipe" THEN pipe_cnt + 1 ELSE 0
    BY DEF ClockWith, WrClock, WrCounters
  <2>2. /\ wr_rd_cnt \in 0 .. MaxPayload + 1 /\ wr_rd_cnt_max \in 0 .. MaxPayload + 1 /\ pipe_cnt \in Nat
    BY DEF BaseInv
  <2>3. /\ wr_state = "rd_hdr" => wr_rd_cnt = 0
        /\ wr_state = "rd_pct" => wr_rd_cnt < wr_rd_cnt_max
    BY DEF WrStateInv
  <2> QED
    BY <2>1, <2>2, <2>3, ConstantsOK
<1>9. /\ rd_cnt' \in 0 .. 2 * MaxPayload /\ rd_cnt_max' \in 0 .. 2 * MaxPayload
      /\ crnt_buff_payload_size' \in 0 .. MaxPayload
      /\ crnt_buff_rdy' \in BOOLEAN /\ crnt_buff_pct_synch_dis' \in BOOLEAN
  <2>1. /\ crnt_buff_cnt \in Buffers /\ crnt_buff_payload_size \in 0 .. MaxPayload
        /\ rd_cnt \in 0 .. 2 * MaxPayload
        /\ pct_hdr_array[crnt_buff_cnt] \in WordsIn /\ pct_buff_rdy_int[crnt_buff_cnt] \in BOOLEAN
    BY DEF BaseInv
  <2>2. /\ rd_cnt' = IF rd_state = "idle" THEN 0 ELSE IF RdReqInt THEN rd_cnt + 1 ELSE rd_cnt
        /\ rd_cnt_max' = 2 * Payload(crnt_buff_payload_size)
        /\ crnt_buff_rdy' = pct_buff_rdy_int[crnt_buff_cnt]
        /\ crnt_buff_pct_synch_dis' = Hdr(pct_hdr_array[crnt_buff_cnt]).dis
        /\ crnt_buff_payload_size' = Hdr(pct_hdr_array[crnt_buff_cnt]).size
    BY DEF ClockWith, RdClock, RdCntProc, CrntBuffSel
  <2>3. /\ Hdr(pct_hdr_array[crnt_buff_cnt]).size \in 0 .. MaxPayload
        /\ Hdr(pct_hdr_array[crnt_buff_cnt]).dis \in BOOLEAN
    BY <2>1, HdrSize DEF BaseInv
  <2>4. Payload(crnt_buff_payload_size) \in 0 .. MaxPayload
    BY <2>1, ConstantsOK DEF Payload
  <2>5. RdReqInt => rd_cnt < 2 * MaxPayload
    <3>1. SUFFICES ASSUME RdReqInt PROVE rd_cnt < 2 * MaxPayload
      OBVIOUS
    <3>2. BeingRead(crnt_buff_cnt)
      BY <2>1, <3>1 DEF RdReqInt, Reading, ReadInv
    <3>3. PICK p \in PktNo : p = BP(crnt_buff_cnt) /\ rd_cnt < 2 * PL(p)
      BY <3>2 DEF BeingRead
    <3>4. PL(p) \in 1 .. MaxPayload
      BY Sizes DEF BaseInv
    <3> QED
      BY <2>1, <3>3, <3>4, ConstantsOK
  <2> QED
    BY <2>1, <2>2, <2>3, <2>4, <2>5, ConstantsOK
<1>10. /\ bufQ' \in [Buffers' -> Seq(WordsIn')]
       /\ bufW' \in [Buffers' -> [Side' -> Nat]] /\ bufR' \in [Buffers' -> [Side' -> Nat]]
  <2>1. \A i \in Buffers : /\ bufQ'[i] \in Seq(WordsIn)
                           /\ bufW'[i] \in [Side -> Nat] /\ bufR'[i] \in [Side -> Nat]
    BY BufferStep
  <2>2. Buffers' = Buffers /\ Side' = Side
    BY DEF Buffers, Side
  <2>3. /\ bufQ' = [i \in Buffers |-> bufQ'[i]] /\ bufW' = [i \in Buffers |-> bufW'[i]]
        /\ bufR' = [i \in Buffers |-> bufR'[i]]
    BY DEF ClockWith, BufferClock
  <2>4. /\ [i \in Buffers |-> bufQ'[i]] \in [Buffers -> Seq(WordsIn)]
        /\ [i \in Buffers |-> bufW'[i]] \in [Buffers -> [Side -> Nat]]
        /\ [i \in Buffers |-> bufR'[i]] \in [Buffers -> [Side -> Nat]]
    BY <2>1
  <2> QED
    BY <1>1, <2>2, <2>3, <2>4
<1>11. /\ instx_q' \in [Buffers' -> WordsIn'] /\ pct_hdr_array' \in [Buffers' -> WordsIn']
       /\ smpl_buff_q' \in WordsIn'
  <2>1. /\ instx_q \in [Buffers -> WordsIn] /\ pct_hdr_array \in [Buffers -> WordsIn]
        /\ pct_hdr_reg \in WordsIn /\ crnt_buff_cnt \in Buffers
    BY DEF BaseInv
  <2>2. /\ instx_q' = [i \in Buffers |-> IF BuffRead(i) THEN Head(bufQ[i]) ELSE instx_q[i]]
        /\ pct_hdr_array' = [i \in Buffers |-> IF pct_hdr_valid = i THEN pct_hdr_reg ELSE pct_hdr_array[i]]
        /\ smpl_buff_q' = instx_q[crnt_buff_cnt]
    BY DEF ClockWith, BufferClock, RdClock, RdHeaders, OutClock
  <2>3. \A i \in Buffers : BuffRead(i) => Head(bufQ[i]) \in WordsIn
    <3>1. SUFFICES ASSUME NEW i \in Buffers, BuffRead(i) PROVE Head(bufQ[i]) \in WordsIn
      OBVIOUS
    <3>2. bufQ[i] \in Seq(WordsIn) /\ bufQ[i] # <<>>
      BY <3>1, BufferStep DEF BuffRead, RdReqInt, ClrBuff
    <3> QED
      BY <3>2
  <2>4. Buffers' = Buffers
    BY DEF Buffers
  <2> QED
    BY <1>1, <2>1, <2>2, <2>3, <2>4
<1>12. /\ pct_buff_size' \in [Buffers' -> Nat \ {0}] /\ pct_buff_rdy_int' \in [Buffers' -> BOOLEAN]
  <2>1. /\ pct_buff_rdy_int' = [i \in Buffers |-> BuffRdusedw(i) = pct_buff_size[i]]
        /\ pct_buff_size' = [i \in Buffers |->
             IF pct_hdr_valid # i THEN pct_buff_size[i]
             ELSE IF Hdr(pct_hdr_reg).size = 0 THEN 2 * MaxPayload
             ELSE 2 * Hdr(in_pct_data).size]
    BY DEF ClockWith, BuffSizeRdy
  <2>2. pct_hdr_valid # NBuff => Hdr(pct_hdr_reg) = Hdr(in_pct_data)
    <3>1. SUFFICES ASSUME pct_hdr_valid # NBuff PROVE pct_hdr_reg = in_pct_data
      OBVIOUS
    <3>2. wr_state = "wait_cmpr_pipe" /\ pipe_cnt = 2
      BY <3>1 DEF SelInv
    <3>3. in_pct_data = HdrWord(Pkt) /\ pct_data_wrreq_cnt = 1
      BY <3>2 DEF WrStateInv, HdrDone
    <3>4. pct_hdr_reg = HdrWord(Pkt)
      BY <3>2, <3>3 DEF FeedInv
    <3> QED
      BY <3>3, <3>4
  <2>3. Hdr(in_pct_data).size \in 0 .. MaxPayload /\ pct_buff_size \in [Buffers -> Nat \ {0}]
    BY HdrSize DEF BaseInv
  <2>4. \A i \in Buffers : i # NBuff
    BY ConstantsOK DEF Buffers
  <2>5. 2 * MaxPayload \in Nat \ {0}
    BY ConstantsOK
  <2>6. Hdr(in_pct_data).size # 0 => 2 * Hdr(in_pct_data).size \in Nat \ {0}
    BY <2>3, ConstantsOK
  <2>7. Buffers' = Buffers
    BY DEF Buffers
  <2> QED
    BY <2>1, <2>2, <2>3, <2>4, <2>5, <2>6, <2>7
<1> QED
  BY <1>2, <1>4, <1>5, <1>6, <1>7, <1>8, <1>9, <1>10, <1>11, <1>12 DEF BaseInv

-----------------------------------------------------------------------------
\* What does not depend on the packet FIFO stays when only that changes.
LEMMA RestStays ==
  ASSUME IInv, UNCHANGED <<stream, sample_nr, in_pct_data, in_pct_rdy, wrVars, bufVars, rdVars, outVars>>,
         feed_pkt' \in 0 .. Len(stream), feed_idx' \in 0 .. MaxPayload + 1,
         feed_idx' > 0 => feed_pkt' \in PktNo,
         wr_state = "idle" \/ Pkt' = Pkt
  PROVE  /\ BaseInv' /\ UnpackInv' /\ WrStateInv' /\ LateInv' /\ PointerInv' /\ SelInv'
         /\ HeaderInv' /\ OpenInv' /\ StoredInv' /\ ReadInv'
<1> USE DEF wrVars, bufVars, rdVars, outVars
<1>12. BaseInv'
  <2>1. PktNo' = PktNo /\ WordsIn' = WordsIn /\ Buffers' = Buffers /\ Side' = Side
    BY DEF PktNo, WordsIn, Buffers, Side
  <2>2. /\ stream' \in Seq(HdrSet) /\ sample_nr' \in 0 .. MaxNr
        /\ in_pct_data' \in WordsIn /\ pct_hdr_reg' \in WordsIn /\ pct_data' \in WordsIn
        /\ smpl_buff_q' \in WordsIn
        /\ wr_state' \in {"idle", "rd_hdr", "wait_cmpr_pipe", "check_smpl_nr", "clr_fifo",
                           "switch_next_buff", "rd_pct", "wait_wr_end", "check_next_buf",
                           "switch_current_buff"}
        /\ rd_state' \in {"idle", "clr_buff", "rd_buff", "rd_hold", "switch_next_buff",
                           "check_next_buf"}
    BY DEF IInv, BaseInv
  <2>3. /\ current_buff_cnt' \in Buffers /\ next_buff_cnt' \in Buffers /\ crnt_buff_cnt' \in Buffers
        /\ pct_hdr_valid' \in 0 .. NBuff /\ pct_data_wrreq' \in 0 .. NBuff
        /\ wr_rd_cnt' \in 0 .. MaxPayload + 1 /\ wr_rd_cnt_max' \in 0 .. MaxPayload + 1
        /\ pct_data_wrreq_cnt' \in Nat /\ pipe_cnt' \in Nat
        /\ rd_cnt' \in 0 .. 2 * MaxPayload /\ rd_cnt_max' \in 0 .. 2 * MaxPayload
        /\ crnt_buff_payload_size' \in 0 .. MaxPayload
    BY DEF IInv, BaseInv
  <2>4. /\ bufQ' \in [Buffers -> Seq(WordsIn)]
        /\ bufW' \in [Buffers -> [Side -> Nat]] /\ bufR' \in [Buffers -> [Side -> Nat]]
        /\ instx_q' \in [Buffers -> WordsIn] /\ pct_hdr_array' \in [Buffers -> WordsIn]
        /\ pct_buff_size' \in [Buffers -> Nat \ {0}] /\ pct_buff_rdy_int' \in [Buffers -> BOOLEAN]
    BY DEF IInv, BaseInv
  <2>5. /\ in_pct_rdreq_int' \in BOOLEAN /\ in_pct_data_valid' \in BOOLEAN /\ in_pct_rdy' \in BOOLEAN
        /\ in_pct_reset_n_req' \in BOOLEAN /\ current_buff_rdy' \in BOOLEAN /\ next_buff_rdy' \in BOOLEAN
        /\ crnt_buff_rdy' \in BOOLEAN /\ crnt_buff_pct_synch_dis' \in BOOLEAN
    BY DEF IInv, BaseInv
  <2> HIDE DEF wrVars, bufVars, rdVars, outVars
  <2>6. stream' = stream
    OBVIOUS
  <2> QED
    BY <2>1, <2>2, <2>3, <2>4, <2>5, <2>6 DEF BaseInv
<1>1. UnpackInv'
  BY DEF IInv, UnpackInv, Num
<1>2. WrStateInv' /\ LateInv'
  <2>1. WrStateInv'
    BY DEF IInv, WrStateInv, HdrDone, HdrWord
  <2>2. LateInv'
    BY DEF IInv, LateInv, LessOK
  <2> QED
    BY <2>1, <2>2
<1>3. PointerInv'
  BY DEF IInv, PointerInv, Buffers, Side
<1>4. pct_data_wrreq # NBuff => wr_state # "idle"
  BY DEF IInv, SelInv
<1>5. SelInv'
  BY <1>4 DEF IInv, SelInv, NextBuff
<1>6. HeaderInv'
  <2>1. CASE wr_state = "idle"
    BY <2>1 DEF HeaderInv
  <2>2. CASE Pkt' = Pkt
    BY <2>2 DEF IInv, HeaderInv, HdrFor, HdrIn, HdrWord, PktNo, PL, Payload, CmpOK
  <2> QED
    BY <2>1, <2>2
<1>7. \A i : Open(i)' <=> Open(i)
  BY DEF Open
<1>8. OpenInv'
  <2>1. CASE wr_state = "idle"
    <3>1. \A i \in Buffers : ~Open(i)
      BY <1>4, <2>1, ConstantsOK DEF Open, Buffers
    <3> QED
      BY <1>7, <3>1 DEF OpenInv, Buffers
  <2>2. CASE Pkt' = Pkt
    BY <1>7, <2>2 DEF IInv, OpenInv, HdrFor, HdrIn, HdrWord, PktNo, PL, Payload, CmpOK, Seg, Stored, Buffers
  <2> QED
    BY <2>1, <2>2
<1>9. \A i : /\ Full(i)' <=> Full(i)
             /\ AllIn(i)' <=> AllIn(i)
             /\ BeingRead(i)' <=> BeingRead(i)
             /\ IsLate(i)' <=> IsLate(i)
  <2>1. \A i : BP(i)' = BP(i) /\ HdrFor(i, BP(i), 3)' = HdrFor(i, BP(i), 3) /\ HdrIn(i, BP(i))' = HdrIn(i, BP(i))
               /\ PL(BP(i))' = PL(BP(i))
    BY DEF BP, HdrFor, HdrIn, HdrWord, PktNo, PL, Payload, CmpOK
  <2>2. \A i : Full(i)' <=> Full(i)
    BY <2>1 DEF Full, Seg
  <2>3. \A i : AllIn(i)' <=> AllIn(i)
    BY DEF AllIn
  <2>4. PktNo' = PktNo
    BY DEF PktNo
  <2>5. \A i : BeingRead(i)' <=> BeingRead(i)
    BY <1>7, <2>1, <2>3, <2>4 DEF BeingRead, Seg
  <2>6. \A i : IsLate(i)' <=> IsLate(i)
    BY <1>7, <2>1, <2>2 DEF IsLate
  <2> QED
    BY <2>2, <2>3, <2>5, <2>6
<1>10. StoredInv'
  BY <1>7, <1>9 DEF IInv, StoredInv, Reading, Buffers
<1>11. ReadInv'
  <2>1. \A i : (Ready(i)' <=> Ready(i)) /\ (MayStart(i)' <=> MayStart(i))
    BY <1>7, <1>9 DEF Ready, MayStart, BP, CmpOK
  <2>2. Reading' <=> Reading
    BY DEF Reading
  <2> QED
    BY <1>9, <2>1, <2>2 DEF IInv, ReadInv, Buffers
<1> QED
  BY <1>1, <1>2, <1>3, <1>5, <1>6, <1>8, <1>10, <1>11, <1>12

\* A packet turns up only when p2d_wr_fsm has all of the packet before.
LEMMA ArriveBetween ==
  ASSUME IInv, Arrive, wr_state # "idle"
  PROVE  Pkt' = Pkt /\ pct_data_wrreq_cnt > 0 /\ feed_pkt = Pkt /\ ~(Got < W(Pkt))
<1>1. /\ feed_idx = 0 /\ UNCHANGED wrVars
      /\ stream \in Seq(HdrSet) /\ pct_data_wrreq_cnt \in Nat /\ in_pct_data_valid \in BOOLEAN
  BY DEF Arrive, IInv, BaseInv
<1>2. /\ Pkt \in PktNo
      /\ IF Got < W(Pkt) THEN feed_pkt = Pkt /\ feed_idx = Got + 1
         ELSE (feed_idx = 0 /\ feed_pkt = Pkt) \/ (feed_idx = 1 /\ feed_pkt = Pkt + 1)
  BY DEF IInv, FeedInv
<1>3. W(Pkt) >= 2 /\ W(Pkt) \in Nat
  BY <1>1, <1>2, Sizes, ConstantsOK
<1>4. Got \in Nat /\ Got <= pct_data_wrreq_cnt + 1
  BY <1>1 DEF Got
<1>5. ~(Got < W(Pkt)) /\ feed_pkt = Pkt
  BY <1>1, <1>2, <1>4
<1>6. pct_data_wrreq_cnt > 0
  BY <1>1, <1>3, <1>4, <1>5
<1>7. Pkt' = Pkt
  BY <1>1, <1>6 DEF Pkt, wrVars
<1> QED
  BY <1>5, <1>6, <1>7

\* The packet FIFO and the write side still agree when a packet turns up.
LEMMA ArriveStep ==
  ASSUME IInv, Arrive
  PROVE  IInv'
<1>1. /\ feed_idx = 0 /\ feed_pkt < Len(stream) /\ in_pct_reset_n_req
      /\ feed_pkt' = feed_pkt + 1 /\ feed_idx' = 1
      /\ UNCHANGED <<stream, sample_nr, in_pct_data, in_pct_rdy, wrVars, bufVars, rdVars, outVars>>
  BY DEF Arrive
<1>2. /\ feed_pkt \in 0 .. Len(stream) /\ stream \in Seq(HdrSet) /\ Len(stream) \in Nat
      /\ pct_data_wrreq_cnt \in Nat /\ in_pct_data_valid \in BOOLEAN
  BY DEF IInv, BaseInv
<1>3. feed_pkt' \in 0 .. Len(stream) /\ feed_pkt' \in PktNo
  BY <1>1, <1>2 DEF PktNo
<1>4. feed_idx' \in 0 .. MaxPayload + 1
  BY <1>1, ConstantsOK
<1>5. wr_state # "idle" => /\ Pkt' = Pkt /\ pct_data_wrreq_cnt > 0 /\ feed_pkt = Pkt
                           /\ ~(Got < W(Pkt))
  BY ArriveBetween
<1>6. FeedInv'
  <2>1. Asked' = Asked /\ Got' = Got
    BY <1>1 DEF Asked, Got, wrVars
  <2>2. CASE wr_state = "idle"
    BY <1>1, <2>1, <2>2 DEF IInv, FeedInv, wrVars
  <2>3. CASE wr_state # "idle"
    <3>1. W(Pkt)' = W(Pkt) /\ PktNo' = PktNo
      BY <1>1, <1>5, <2>3 DEF W, Words, Payload, PktNo
    <3>2. PICK w : w = W(Pkt) /\ w = W(Pkt)'
      BY <3>1
    <3> QED
      BY <1>1, <1>5, <2>1, <2>3, <3>1, <3>2 DEF IInv, FeedInv, wrVars, HdrWord
  <2> QED
    BY <2>2, <2>3
<1> QED
  BY <1>1, <1>3, <1>4, <1>5, <1>6, RestStays DEF IInv

\* Nothing changes when nothing happens.
LEMMA StutterStep ==
  ASSUME IInv, UNCHANGED vars
  PROVE  IInv'
<1>1. /\ feed_pkt' = feed_pkt /\ feed_idx' = feed_idx
      /\ UNCHANGED <<stream, sample_nr, in_pct_data, in_pct_rdy, wrVars, bufVars, rdVars, outVars>>
  BY DEF vars, feedVars
<1>2. Pkt' = Pkt /\ Got' = Got /\ Asked' = Asked
  BY <1>1 DEF Pkt, Got, Asked, wrVars
<1>3. /\ feed_pkt' \in 0 .. Len(stream) /\ feed_idx' \in 0 .. MaxPayload + 1
      /\ feed_idx' > 0 => feed_pkt' \in PktNo
  BY <1>1 DEF IInv, BaseInv
<1>4. FeedInv'
  <2>1. W(Pkt)' = W(Pkt) /\ PktNo' = PktNo
    BY <1>1, <1>2 DEF W, Words, Payload, PktNo
  <2> QED
    BY <1>1, <1>2, <2>1 DEF IInv, FeedInv, wrVars, HdrWord
<1> QED
  BY <1>1, <1>2, <1>3, <1>4, RestStays DEF IInv

\* The invariant is kept by every clock.
LEMMA ClockStep ==
  ASSUME IInv, Clock
  PROVE  IInv'
<1>1. PICK m \in 0 .. 1, take \in 0 .. 1 : ClockWith(m, take)
  BY DEF Clock
<1>2. /\ BaseInv /\ UnpackInv /\ FeedInv /\ WrStateInv /\ LateInv /\ PointerInv
      /\ SelInv /\ HeaderInv /\ OpenInv /\ StoredInv /\ ReadInv
  BY DEF IInv
<1>3. BaseInv' /\ UnpackInv' /\ FeedInv' /\ WrStateInv' /\ LateInv' /\ PointerInv'
  BY <1>1, <1>2, BaseStep, UnpackStep, FeedStep, WrStateStep, LateStep, PointerStep
<1>4. SelInv' /\ HeaderInv' /\ OpenInv' /\ StoredInv' /\ ReadInv'
  BY <1>1, <1>2, SelStep, HeaderStep, OpenStep, StoredStep, ReadStep
<1> QED
  BY <1>3, <1>4 DEF IInv

\* The registers after reset satisfy the invariant.
LEMMA InitInv ==
  ASSUME Init
  PROVE  IInv
<1>1. 0 \in Buffers /\ 0 \in Side /\ Lag \in Side /\ NBuff \notin Buffers
  BY ConstantsOK DEF Buffers, Side
<1>2. BaseInv
  <2>1. stream \in Seq(HdrSet)
    BY ConstantsOK DEF Init
  <2>2. NoWord \in WordsIn /\ Zero \in [Side -> Nat] /\ <<>> \in Seq(WordsIn)
    BY DEF WordsIn, Zero
  <2>3. /\ 0 \in 0 .. MaxNr /\ 0 \in 0 .. Len(stream) /\ 0 \in 0 .. MaxPayload + 1
        /\ 0 \in 0 .. MaxPayload /\ 0 \in 0 .. 2 * MaxPayload /\ NBuff \in 0 .. NBuff
    BY <2>1, ConstantsOK
  <2>4. /\ bufQ \in [Buffers -> Seq(WordsIn)]
        /\ bufW \in [Buffers -> [Side -> Nat]] /\ bufR \in [Buffers -> [Side -> Nat]]
        /\ instx_q \in [Buffers -> WordsIn] /\ pct_hdr_array \in [Buffers -> WordsIn]
        /\ pct_buff_size \in [Buffers -> Nat \ {0}] /\ pct_buff_rdy_int \in [Buffers -> BOOLEAN]
    <3>1. 65535 \in Nat \ {0}
      OBVIOUS
    <3> QED
      BY <2>2, <3>1 DEF Init
  <2>5. /\ sample_nr = 0 /\ feed_pkt = 0 /\ feed_idx = 0 /\ wr_rd_cnt = 0 /\ wr_rd_cnt_max = 0
        /\ pct_data_wrreq_cnt = 0 /\ pipe_cnt = 0 /\ rd_cnt = 0 /\ rd_cnt_max = 0
        /\ crnt_buff_payload_size = 0 /\ pct_hdr_valid = NBuff /\ pct_data_wrreq = NBuff
        /\ in_pct_data = NoWord /\ pct_hdr_reg = NoWord /\ pct_data = NoWord /\ smpl_buff_q = NoWord
        /\ current_buff_cnt = 0 /\ next_buff_cnt = 0 /\ crnt_buff_cnt = 0
    BY DEF Init
  <2>6. /\ in_pct_rdreq_int = FALSE /\ in_pct_data_valid = FALSE /\ in_pct_rdy = FALSE
        /\ in_pct_reset_n_req = TRUE /\ current_buff_rdy = FALSE /\ next_buff_rdy = FALSE
        /\ crnt_buff_rdy = FALSE /\ crnt_buff_pct_synch_dis = FALSE
        /\ wr_state = "idle" /\ rd_state = "idle"
    BY DEF Init
  <2>7. /\ in_pct_rdreq_int \in BOOLEAN /\ in_pct_data_valid \in BOOLEAN /\ in_pct_rdy \in BOOLEAN
        /\ in_pct_reset_n_req \in BOOLEAN /\ current_buff_rdy \in BOOLEAN /\ next_buff_rdy \in BOOLEAN
        /\ crnt_buff_rdy \in BOOLEAN /\ crnt_buff_pct_synch_dis \in BOOLEAN
    BY <2>6
  <2> QED
    BY <1>1, <2>1, <2>2, <2>3, <2>4, <2>5, <2>6, <2>7 DEF BaseInv
<1>3. UnpackInv
  <2>1. /\ smpl_buff_valid_int = FALSE /\ smpl_buff_valid = FALSE /\ fifo_full_sig = FALSE
        /\ smpl_used = 0 /\ unpack_cnt = 0 /\ unpack_pipe = <<FALSE, FALSE>>
    BY DEF Init
  <2>2. /\ unpack_pipe \in BOOLEAN \X BOOLEAN /\ ~unpack_pipe[1] /\ ~unpack_pipe[2]
        /\ smpl_buff_valid_int \in BOOLEAN /\ smpl_buff_valid \in BOOLEAN /\ fifo_full_sig \in BOOLEAN
        /\ ~smpl_buff_valid_int /\ ~smpl_buff_valid /\ ~fifo_full_sig
    BY <2>1
  <2>3. Num(unpack_pipe[1]) = 0 /\ Num(unpack_pipe[2]) = 0 /\ Num(smpl_buff_valid) = 0
        /\ Num(smpl_buff_valid_int) = 0
    BY <2>2 DEF Num
  <2>4. smpl_used = 0 /\ unpack_cnt = 0
    BY <2>1
  <2> QED
    BY <2>2, <2>3, <2>4, ConstantsOK DEF UnpackInv
<1>4. FeedInv /\ WrStateInv /\ LateInv
  BY DEF Init, FeedInv, WrStateInv, LateInv, Asked, Got
<1>5. PointerInv
  BY <1>1 DEF Init, PointerInv, Zero
<1>6. SelInv /\ HeaderInv
  <2>1. /\ wr_state = "idle" /\ next_buff_cnt = 0 /\ current_buff_cnt = 0
        /\ pct_data_wrreq = NBuff /\ pct_hdr_valid = NBuff /\ bufQ[0] = <<>>
    BY <1>1 DEF Init
  <2> QED
    BY <2>1 DEF SelInv, HeaderInv
<1>7. OpenInv /\ StoredInv
  <2>1. \A i \in Buffers : pct_data_wrreq # i /\ wr_state = "idle" /\ bufQ[i] = <<>>
    BY <1>1 DEF Init
  <2> QED
    BY <2>1 DEF OpenInv, StoredInv, Open
<1>8. ReadInv
  BY DEF Init, ReadInv, Reading
<1> QED
  BY <1>2, <1>3, <1>4, <1>5, <1>6, <1>7, <1>8 DEF IInv

\* The inductive invariant, of which the theorems below are consequences.
THEOREM Invariant == Spec => []IInv
<1>1. Init => IInv
  BY InitInv
<1>2. IInv /\ [Next]_vars => IInv'
  BY ArriveStep, ClockStep, StutterStep DEF Next
<1> QED
  BY <1>1, <1>2, PTL DEF Spec

\* TypeOK: the registers of packets2data keep their ranges.
THEOREM TypeCorrect == Spec => []TypeOK
<1>1. IInv => TypeOK
  <2> SUFFICES ASSUME IInv PROVE TypeOK
    OBVIOUS
  <2>1. BaseInv /\ FeedInv /\ smpl_used \in Nat
    BY DEF IInv, UnpackInv
  <2>2. WordsIn \subseteq WordSet
    <3>1. stream \in Seq(HdrSet)
      BY <2>1 DEF BaseInv
    <3> QED
      BY <3>1, ConstantsOK DEF WordsIn, WordSet, NoWord, PktNo
  <2>3. pct_data_wrreq_cnt \in 0 .. MaxPayload + 1
    <3>1. Asked = wr_rd_cnt /\ wr_rd_cnt \in 0 .. MaxPayload + 1 /\ pct_data_wrreq_cnt \in Nat
      BY <2>1 DEF BaseInv, FeedInv
    <3> QED
      BY <3>1, ConstantsOK DEF Asked, Got
  <2>4. bufQ \in [Buffers -> Seq(WordSet)]
    <3>1. \A q \in Seq(WordsIn) : q \in Seq(WordSet)
      BY <2>2
    <3> QED
      BY <2>1, <3>1 DEF BaseInv
  <2> QED
    BY <2>1, <2>2, <2>3, <2>4 DEF BaseInv, TypeOK
<1> QED
  BY <1>1, Invariant, PTL

\* The sample FIFO never gets more than FifoMargin words over the limit at which
\* fifo_full_sig is raised, although that is registered and words are in the unpacker.
THEOREM SampleFifoHolds == Spec => []SampleFifoFits
<1>1. IInv => SampleFifoFits
  BY SampleFifoBound DEF IInv
<1> QED
  BY <1>1, Invariant, PTL

\* A stretch of a packet is consecutive words of it.
LEMMA SegFollows ==
  ASSUME NEW q \in Seq(WordsIn), NEW p, NEW e \in Nat, Seg(q, p, e), e <= 2 * MaxPayload
  PROVE  /\ Len(q) <= 2 * MaxPayload
         /\ \A k \in 1 .. Len(q) - 1 : FollowsInPacket(q[k], q[k + 1])
<1>1. Len(q) \in Nat /\ Len(q) <= e
  BY DEF Seg
<1>2. ASSUME NEW k \in 1 .. Len(q) - 1
      PROVE  FollowsInPacket(q[k], q[k + 1])
  <2>1. k \in 1 .. Len(q) /\ k + 1 \in 1 .. Len(q)
    BY <1>1
  <2>2. /\ q[k] = [pkt |-> p, idx |-> e - Len(q) + k]
        /\ q[k + 1] = [pkt |-> p, idx |-> e - Len(q) + (k + 1)]
    BY <2>1 DEF Seg
  <2>3. e - Len(q) + (k + 1) = (e - Len(q) + k) + 1
    BY <1>1
  <2> QED
    BY <2>2, <2>3 DEF FollowsInPacket
<1> QED
  BY <1>1, <1>2, ConstantsOK

\* Whatever the delay of the pointers, a buffer holds consecutive words of one packet,
\* and no more than a packet.
THEOREM OnePacketPerBuffer == Spec => []BufferHoldsOnePacket
<1>1. IInv => BufferHoldsOnePacket
  <2> SUFFICES ASSUME IInv, NEW i \in Buffers
               PROVE  /\ Len(bufQ[i]) <= 2 * MaxPayload
                      /\ \A k \in 1 .. Len(bufQ[i]) - 1 : FollowsInPacket(bufQ[i][k], bufQ[i][k + 1])
    BY DEF BufferHoldsOnePacket
  <2>1. /\ BaseInv /\ FeedInv /\ WrStateInv /\ SelInv /\ OpenInv /\ StoredInv /\ ReadInv
        /\ bufQ[i] \in Seq(WordsIn) /\ stream \in Seq(HdrSet)
    BY DEF IInv, BaseInv
  <2>2. CASE Open(i)
    <3>1. Seg(bufQ[i], Pkt, Stored(i))
      BY <2>1, <2>2 DEF OpenInv
    <3>2. Stored(i) \in Nat /\ Stored(i) <= 2 * MaxPayload
      <4>1. Stored(i) \in 0 .. 2 * PL(Pkt) - 2 /\ PL(Pkt) \in 1 .. MaxPayload
        BY <2>1, <2>2, OpenBounds
      <4> QED
        BY <4>1, ConstantsOK
    <3> QED
      BY <2>1, <3>1, <3>2, SegFollows
  <2>3. CASE ~Open(i) /\ bufQ[i] # <<>>
    <3>1. BP(i) \in PktNo /\ Seg(bufQ[i], BP(i), 2 * PL(BP(i)))
      BY <2>1, <2>3 DEF StoredInv, ReadInv, Full, HdrFor, BeingRead
    <3>2. PL(BP(i)) \in 1 .. MaxPayload
      BY <2>1, <3>1, Sizes
    <3>3. 2 * PL(BP(i)) \in Nat /\ 2 * PL(BP(i)) <= 2 * MaxPayload
      BY <3>2, ConstantsOK
    <3> QED
      BY <2>1, <3>1, <3>3, SegFollows
  <2>4. CASE bufQ[i] = <<>>
    BY <2>4, ConstantsOK
  <2> QED
    BY <2>2, <2>3, <2>4
<1> QED
  BY <1>1, Invariant, PTL

\* A buffer that is full in the sense of the invariant is whole in that of the property.
LEMMA FullIsWhole ==
  ASSUME BaseInv, NEW i \in Buffers, Full(i)
  PROVE  Whole(i) /\ Front(i) = stream[BP(i)] /\ Front(i) \in HdrSet
<1>1. /\ bufQ[i] # <<>> /\ stream[BP(i)] \in HdrSet /\ PL(BP(i)) \in 1 .. MaxPayload
      /\ Len(bufQ[i]) = 2 * PL(BP(i))
  BY FullBuffer
<1>2. bufQ[i][1] = [pkt |-> BP(i), idx |-> 2 * PL(BP(i)) - Len(bufQ[i]) + 1]
  <2>1. 1 \in 1 .. Len(bufQ[i])
    BY <1>1
  <2> QED
    BY <2>1 DEF Full, Seg
<1>3. bufQ[i][1].pkt = BP(i) /\ bufQ[i][1].idx = 1
  BY <1>1, <1>2
<1> QED
  BY <1>1, <1>3 DEF Whole, Front, PL

\* p2d_rd starts to read a packet only when all of it is in the buffer and, unless its
\* synchronisation is off, within RdLatency clocks of its own sample number.
THEOREM PacketsStartOnTime == Spec => StartsOnTime
<1> DEFINE OnTime == rd_state = "idle" /\ rd_state' = "rd_buff" =>
              /\ Whole(crnt_buff_cnt)
              /\ Front(crnt_buff_cnt).dis
                 \/ (Front(crnt_buff_cnt).nr <= sample_nr
                       /\ sample_nr <= Front(crnt_buff_cnt).nr + RdLatency)
<1>1. ASSUME IInv, Next, rd_state = "idle", rd_state' = "rd_buff"
      PROVE  OnTime
  <2>1. PICK c \in Buffers : c = crnt_buff_cnt
    BY <1>1 DEF IInv, BaseInv
  <2>2. PICK m \in 0 .. 1, take \in 0 .. 1 : ClockWith(m, take)
    BY <1>1 DEF Next, Arrive, rdVars, Clock
  <2>3. MayStart(c) /\ (crnt_buff_pct_synch_dis \/ crnt_buff_cmp = "equal")
    BY <1>1, <2>1, <2>2, StartOrClear DEF IInv
  <2>4. Whole(c) /\ Front(c) = stream[BP(c)] /\ Front(c) \in HdrSet
    BY <1>1, <2>3, FullIsWhole DEF IInv, MayStart, Ready
  <2>5. Front(c).dis \/ (Front(c).nr <= sample_nr /\ sample_nr <= Front(c).nr + 4)
    BY <2>3, <2>4 DEF MayStart, CmpOK
  <2>6. Front(c).nr \in Nat /\ sample_nr \in Nat
    <3>1. sample_nr \in 0 .. MaxNr
      BY <1>1 DEF IInv, BaseInv
    <3> QED
      BY <2>4, <3>1 DEF HdrSet
  <2> QED
    BY <2>1, <2>4, <2>5, <2>6 DEF RdLatency
<1>2. IInv /\ [Next]_vars => [OnTime]_vars
  BY <1>1
<1>3. Spec => [][OnTime]_vars
  BY <1>2, Invariant, PTL DEF Spec
<1> QED
  BY <1>3 DEF StartsOnTime

\* When p2d_wr_fsm decides, the packet is the one in the packet FIFO and its header is known.
LEMMA HeaderKnown ==
  ASSUME IInv, wr_state \in {"check_smpl_nr", "clr_fifo"}
  PROVE  /\ feed_pkt = Pkt /\ Pkt \in PktNo /\ Hdr(pct_hdr_reg) = stream[Pkt]
<1>1. /\ Pkt \in PktNo /\ wr_rd_cnt = 1 /\ pct_data_wrreq_cnt = 1 /\ Asked = wr_rd_cnt
      /\ Got < W(Pkt) => feed_pkt = Pkt
      /\ pct_hdr_reg = HdrWord(Pkt)
  BY DEF IInv, FeedInv, WrStateInv, HdrDone
<1>2. W(Pkt) \in 2 .. MaxPayload + 1
  BY <1>1, Sizes DEF IInv, BaseInv
<1>3. Got = 1
  BY <1>1 DEF Asked, Got
<1> QED
  BY <1>1, <1>2, <1>3, ConstantsOK DEF Hdr, HdrWord

\* p2d_wr_fsm clears the packet FIFO, and p2d_rd a buffer, only for a packet whose own
\* sample number has passed.
THEOREM OnlyLateIsDropped == Spec => DropsOnlyLate
<1> DEFINE LateOnly == /\ wr_state' = "clr_fifo" => /\ ~stream[feed_pkt].dis
                                                    /\ stream[feed_pkt].nr < sample_nr
                       /\ rd_state' = "clr_buff" => /\ Whole(crnt_buff_cnt) /\ ~Front(crnt_buff_cnt).dis
                                                    /\ Front(crnt_buff_cnt).nr < sample_nr
<1>1. ASSUME IInv, Next, wr_state' = "clr_fifo"
      PROVE  ~stream[feed_pkt].dis /\ stream[feed_pkt].nr < sample_nr
  <2>1. CASE wr_state = "clr_fifo"
    BY <1>1, <2>1, HeaderKnown DEF IInv, LateInv
  <2>2. CASE wr_state # "clr_fifo"
    <3>1. PICK m \in 0 .. 1, take \in 0 .. 1 : ClockWith(m, take)
      BY <1>1, <2>2 DEF Next, Arrive, wrVars, Clock
    <3>2. wr_state = "check_smpl_nr" /\ Late
      BY <1>1, <2>2, <3>1 DEF ClockWith, WrClock, WrFsm, WrGo
    <3>3. wr_less[3] => stream[Pkt].nr < sample_nr
      BY <1>1, <3>2 DEF IInv, LateInv, LessOK
    <3> QED
      BY <1>1, <3>2, <3>3, HeaderKnown DEF Late
  <2> QED
    BY <2>1, <2>2
<1>2. ASSUME IInv, Next, rd_state' = "clr_buff"
      PROVE  /\ Whole(crnt_buff_cnt) /\ ~Front(crnt_buff_cnt).dis
             /\ Front(crnt_buff_cnt).nr < sample_nr
  <2>1. PICK c \in Buffers : c = crnt_buff_cnt
    BY <1>2 DEF IInv, BaseInv
  <2>2. CASE rd_state = "clr_buff"
    <3>1. IsLate(c)
      BY <1>2, <2>1, <2>2 DEF IInv, ReadInv
    <3> QED
      BY <1>2, <2>1, <3>1, FullIsWhole DEF IInv, IsLate
  <2>3. CASE rd_state # "clr_buff"
    <3>1. PICK m \in 0 .. 1, take \in 0 .. 1 : ClockWith(m, take)
      BY <1>2, <2>3 DEF Next, Arrive, rdVars, Clock
    <3>2. rd_state = "idle"
      BY <1>2, <2>3, <3>1 DEF ClockWith, RdClock, RdFsm, RdGo
    <3>3. MayStart(c) /\ ~crnt_buff_pct_synch_dis /\ crnt_buff_cmp = "less"
      BY <1>2, <2>1, <3>1, <3>2, StartOrClear DEF IInv
    <3>4. Whole(c) /\ Front(c) = stream[BP(c)]
      BY <1>2, <3>3, FullIsWhole DEF IInv, MayStart, Ready
    <3> QED
      BY <2>1, <3>3, <3>4 DEF MayStart, CmpOK
  <2> QED
    BY <2>2, <2>3
<1>3. IInv /\ [Next]_vars => [LateOnly]_vars
  BY <1>1, <1>2
<1>4. Spec => [][LateOnly]_vars
  BY <1>3, Invariant, PTL DEF Spec
<1> QED
  BY <1>4 DEF DropsOnlyLate

-----------------------------------------------------------------------------
(***************************************************************************)
(* The order of the packets.  The buffers are a ring: those that hold a    *)
(* packet, or are getting one, begin with the reader's and end before the  *)
(* one the writer takes next.                                              *)
(***************************************************************************)
First == IF rd_state = "switch_next_buff" THEN NextBuff(crnt_buff_cnt) ELSE crnt_buff_cnt
Free == IF wr_state = "switch_next_buff" THEN NextBuff(next_buff_cnt) ELSE next_buff_cnt
Dist(b, i) == IF b <= i THEN i - b ELSE i - b + NBuff
Held == {i \in Buffers : Open(i) \/ bufQ[i] # <<>>}

Ring(b, w, held) == IF b = w THEN held = {} \/ held = Buffers
                    ELSE \A i \in Buffers : i \in held <=> Dist(b, i) < Dist(b, w)
Ordered(b, held, pkt) == \A i, j \in held : Dist(b, i) < Dist(b, j) => pkt[i] < pkt[j]

\* No packet with this number or a later one has a buffer yet.
NextNo == IF wr_state = "idle" THEN IF feed_idx > 0 THEN feed_pkt ELSE feed_pkt + 1
          ELSE IF wr_state \in {"rd_hdr", "wait_cmpr_pipe", "check_smpl_nr", "clr_fifo"} THEN Pkt
          ELSE Pkt + 1

RingInv ==
  /\ Ring(First, Free, Held)
  /\ Ordered(First, Held, [i \in Buffers |-> BP(i)])
  /\ \A i \in Held : BP(i) < NextNo

\* The word that leaves next, or has left, and the one read from a buffer last.
Leaving == IF smpl_buff_valid THEN smpl_buff_q ELSE last
Taken == IF smpl_buff_valid_int THEN instx_q[crnt_buff_cnt] ELSE Leaving

After(v, w) == IF Last(v) THEN w.pkt > v.pkt /\ w.idx = 1 ELSE FollowsInPacket(v, w)

OutInv ==
  /\ last \in WordsIn /\ Taken.pkt < NextNo
  /\ smpl_buff_valid => After(last, smpl_buff_q)
  /\ smpl_buff_valid_int => After(Leaving, instx_q[crnt_buff_cnt])
  /\ IF Reading /\ rd_cnt > 0 THEN Taken = [pkt |-> BP(crnt_buff_cnt), idx |-> rd_cnt]
     ELSE Last(Taken) /\ \A i \in Held : Taken.pkt < BP(i)

OrderInv == IInv /\ RingInv /\ OutInv

\* Going round the ring.
LEMMA Distances ==
  ASSUME NEW b \in Buffers, NEW i \in Buffers
  PROVE  /\ Dist(b, i) \in 0 .. NBuff - 1 /\ (Dist(b, i) = 0 <=> i = b)
         /\ i # b => Dist(NextBuff(b), i) = Dist(b, i) - 1
         /\ Dist(NextBuff(b), b) = NBuff - 1
         /\ IF NextBuff(i) = b THEN Dist(b, i) = NBuff - 1
            ELSE Dist(b, NextBuff(i)) = Dist(b, i) + 1
         /\ \A j \in Buffers : Dist(b, i) = Dist(b, j) => i = j
<1>1. /\ b \in Int /\ i \in Int /\ 0 <= b /\ b <= NBuff - 1 /\ 0 <= i /\ i <= NBuff - 1
      /\ NBuff \in Nat /\ NBuff >= 2
  BY ConstantsOK DEF Buffers
<1>2. Dist(b, i) \in 0 .. NBuff - 1 /\ (Dist(b, i) = 0 <=> i = b)
  BY <1>1 DEF Dist
<1>3. i # b => Dist(NextBuff(b), i) = Dist(b, i) - 1
  BY <1>1 DEF Dist, NextBuff
<1>4. Dist(NextBuff(b), b) = NBuff - 1
  BY <1>1 DEF Dist, NextBuff
<1>5. IF NextBuff(i) = b THEN Dist(b, i) = NBuff - 1
      ELSE Dist(b, NextBuff(i)) = Dist(b, i) + 1
  BY <1>1 DEF Dist, NextBuff
<1>6. \A j \in Buffers : Dist(b, i) = Dist(b, j) => i = j
  BY <1>1 DEF Dist, Buffers
<1> QED
  BY <1>2, <1>3, <1>4, <1>5, <1>6

\* The writer takes the free buffer.
LEMMA RingPush ==
  ASSUME NEW b \in Buffers, NEW w \in Buffers, NEW held \in SUBSET Buffers,
         Ring(b, w, held), w \notin held
  PROVE  /\ Ring(b, NextBuff(w), held \cup {w})
         /\ \A i \in held : Dist(b, i) < Dist(b, w)
<1>1. NextBuff(w) \in Buffers /\ NextBuff(w) # w
  BY NextBuffer
<1>2. CASE b = w
  <2>1. held = {}
    BY <1>2 DEF Ring
  <2>2. Dist(b, NextBuff(w)) = 1
    <3>1. Dist(b, w) = 0 /\ Dist(b, NextBuff(w)) = Dist(b, w) + 1
      BY <1>1, <1>2, Distances
    <3> QED
      BY <3>1
  <2>3. \A i \in Buffers : i \in {w} <=> Dist(b, i) < 1
    <3>1. \A i \in Buffers : Dist(b, i) \in Nat /\ (Dist(b, i) = 0 <=> i = b)
      BY Distances, ConstantsOK
    <3> QED
      BY <1>2, <3>1
  <2> QED
    BY <1>1, <1>2, <2>1, <2>2, <2>3 DEF Ring
<1>3. CASE b # w
  <2>1. \A i \in Buffers : i \in held <=> Dist(b, i) < Dist(b, w)
    BY <1>3 DEF Ring
  <2>2. \A i \in Buffers : /\ Dist(b, i) \in Int /\ Dist(b, i) <= NBuff - 1
                           /\ Dist(b, i) = Dist(b, w) => i = w
    BY Distances, ConstantsOK
  <2>3. CASE NextBuff(w) = b
    <3>1. Dist(b, w) = NBuff - 1
      BY <2>3, Distances
    <3>2. \A i \in Buffers : i \in held \/ i = w
      BY <2>1, <2>2, <3>1, ConstantsOK
    <3> QED
      BY <2>1, <2>3, <3>2 DEF Ring
  <2>4. CASE NextBuff(w) # b
    <3>1. Dist(b, NextBuff(w)) = Dist(b, w) + 1
      BY <2>4, Distances
    <3>2. \A i \in Buffers : i \in held \cup {w} <=> Dist(b, i) < Dist(b, w) + 1
      BY <2>1, <2>2
    <3> QED
      BY <2>1, <2>4, <3>1, <3>2 DEF Ring
  <2> QED
    BY <2>3, <2>4
<1> QED
  BY <1>2, <1>3

\* The reader lets go of the first buffer.
LEMMA RingPop ==
  ASSUME NEW b \in Buffers, NEW w \in Buffers, NEW held \in SUBSET Buffers,
         Ring(b, w, held), b \in held
  PROVE  Ring(NextBuff(b), w, held \ {b})
<1>1. NextBuff(b) \in Buffers /\ NextBuff(b) # b
  BY NextBuffer
<1>2. \A i \in Buffers : /\ Dist(b, i) \in Int /\ 0 <= Dist(b, i) /\ Dist(b, i) <= NBuff - 1
                         /\ i # b => Dist(NextBuff(b), i) = Dist(b, i) - 1
                         /\ Dist(b, i) = 0 <=> i = b
  BY Distances, ConstantsOK
<1>3. Dist(NextBuff(b), b) = NBuff - 1
  BY Distances
<1>4. CASE b = w
  <2>1. held = Buffers
    BY <1>4 DEF Ring
  <2>2. \A i \in Buffers : i \in held \ {b} <=> Dist(NextBuff(b), i) < NBuff - 1
    BY <1>2, <1>3, <2>1, ConstantsOK
  <2> QED
    BY <1>1, <1>3, <1>4, <2>2 DEF Ring
<1>5. CASE b # w
  <2>1. \A i \in Buffers : i \in held <=> Dist(b, i) < Dist(b, w)
    BY <1>5 DEF Ring
  <2>2. Dist(NextBuff(b), w) = Dist(b, w) - 1
    BY <1>2, <1>5
  <2>3. \A i \in Buffers : i \in held \ {b} <=> Dist(NextBuff(b), i) < Dist(NextBuff(b), w)
    BY <1>2, <1>3, <2>1, <2>2, ConstantsOK
  <2>4. CASE NextBuff(b) = w
    <3>1. Dist(NextBuff(b), w) = 0
      BY <1>1, <2>4, Distances
    <3>2. \A i \in Buffers : i \notin held \ {b}
      BY <2>3, <3>1, <1>1, Distances
    <3> QED
      BY <2>4, <3>2 DEF Ring
  <2>5. CASE NextBuff(b) # w
    BY <2>3, <2>5 DEF Ring
  <2> QED
    BY <2>4, <2>5
<1> QED
  BY <1>4, <1>5

\* A buffer that holds a packet keeps it until the reader is done with it.
LEMMA HeldStays ==
  ASSUME IInv, NEW m \in 0 .. 1, NEW take \in 0 .. 1, ClockWith(m, take),
         NEW i \in Held, ~(rd_state' = "switch_next_buff" /\ i = crnt_buff_cnt)
  PROVE  i \in Held' /\ BP(i)' = BP(i)
<1>1. /\ BaseInv /\ FeedInv /\ WrStateInv /\ PointerInv /\ SelInv /\ OpenInv /\ StoredInv /\ ReadInv
      /\ i \in Buffers /\ Buffers' = Buffers
  BY DEF IInv, Held, Buffers
<1>2. CASE Open(i)
  <2>1. HdrFor(i, Pkt, 3)' /\ Len(bufQ'[i]) = 2 * (pct_data_wrreq_cnt - 1)
    BY <1>1, <1>2, Filling
  <2>2. HdrFor(i, Pkt, 3) /\ wr_state # "idle" /\ wr_rd_cnt_max = PL(Pkt) + 1 /\ PL(Pkt) \in 1 .. MaxPayload
    BY <1>1, <1>2, OpenBounds DEF OpenInv
  <2>3. BP(i) = Pkt /\ BP(i)' = Pkt'
    BY <2>1, <2>2 DEF HdrFor, HdrIn, HdrWord, BP
  <2>4. Pkt' = Pkt
    BY <1>1, <2>2, PktStays
  <2>5. CASE Open(i)'
    BY <1>1, <2>3, <2>4, <2>5 DEF Held
  <2>6. CASE ~Open(i)'
    <3>1. pct_data_wrreq_cnt = PL(Pkt) + 1
      BY <1>1, <1>2, <2>2, <2>6, ClosesFull
    <3>2. Len(bufQ'[i]) # 0
      BY <2>1, <2>2, <3>1
    <3>3. bufQ'[i] # <<>>
      BY <3>2
    <3> QED
      BY <1>1, <2>3, <2>4, <3>3 DEF Held
  <2> QED
    BY <2>5, <2>6
<1>3. CASE ~Open(i) /\ Reading /\ i = crnt_buff_cnt
  <2>1. BP(i)' = BP(i) /\ BeingRead(i)'
    BY <1>1, <1>3, ReadingStep
  <2>2. PICK p : p = PL(BP(i))' /\ rd_cnt' < 2 * p /\ Len(bufQ'[i]) = 2 * p - rd_cnt'
    BY <2>1 DEF BeingRead
  <2>3. rd_cnt' \in Nat /\ p \in Nat
    <3>1. BaseInv'
      BY <1>1, BaseStep
    <3>2. BP(i)' \in PktNo' /\ stream' \in Seq(HdrSet)
      BY <2>1, <3>1 DEF BeingRead, BaseInv
    <3>3. stream' = stream /\ PktNo' = PktNo
      BY DEF ClockWith, PktNo
    <3>4. p = PL(BP(i))
      BY <2>1, <2>2, <3>3 DEF PL, Payload
    <3>5. rd_cnt' \in Nat
      BY <3>1, ConstantsOK DEF BaseInv
    <3>6. BP(i) \in PktNo /\ stream \in Seq(HdrSet)
      BY <2>1, <3>2, <3>3
    <3>7. PL(BP(i)) \in 1 .. MaxPayload
      BY <3>6, Sizes
    <3> QED
      BY <3>4, <3>5, <3>7, ConstantsOK
  <2>4. Len(bufQ'[i]) # 0
    BY <2>2, <2>3
  <2>5. bufQ'[i] # <<>>
    BY <2>4
  <2> QED
    BY <1>1, <2>1, <2>5 DEF Held
<1>4. CASE ~Open(i) /\ ~(Reading /\ i = crnt_buff_cnt)
  <2>1. bufQ[i] # <<>> /\ Full(i) /\ ~BuffRead(i)
    BY <1>1, <1>4 DEF Held, StoredInv, BuffRead, RdReqInt, Reading
  <2>2. ~ClrBuff(i)
    BY DEF ClrBuff, ClockWith, RdClock, RdFsm, RdGo
  <2> QED
    BY <1>1, <1>4, <2>1, <2>2, FullStays DEF Held
<1> QED
  BY <1>2, <1>3, <1>4

\* The reader turns to the next buffer when this one is empty.
LEMMA HeldGoes ==
  ASSUME IInv, NEW m \in 0 .. 1, NEW take \in 0 .. 1, ClockWith(m, take),
         rd_state' = "switch_next_buff", NEW c \in Buffers, c = crnt_buff_cnt
  PROVE  /\ rd_state \in {"rd_buff", "clr_buff"} /\ crnt_buff_cnt' = c
         /\ c \in Held /\ c \notin Held' /\ ~Open(c)
<1>1. /\ BaseInv /\ FeedInv /\ WrStateInv /\ PointerInv /\ SelInv /\ OpenInv /\ StoredInv /\ ReadInv
      /\ Buffers' = Buffers
  BY DEF IInv, Buffers
<1>2. /\ rd_state \in {"rd_buff", "clr_buff"} /\ crnt_buff_cnt' = c
  BY DEF ClockWith, RdClock, RdFsm, RdGo, RdStart, CrntBuffSel
<1>3. CASE rd_state = "rd_buff"
  <2>1. ~Open(c)' /\ bufQ'[c] = <<>>
    BY <1>1, <1>3, ReadingStep DEF Reading
  <2>2. BeingRead(c)
    BY <1>1, <1>3 DEF ReadInv, Reading
  <2>3. PICK p : p = PL(BP(c)) /\ rd_cnt < 2 * p /\ Len(bufQ[c]) = 2 * p - rd_cnt /\ ~Open(c)
    BY <2>2 DEF BeingRead
  <2>4. rd_cnt \in Nat /\ p \in Nat
    <3>1. rd_cnt \in 0 .. 2 * MaxPayload /\ stream \in Seq(HdrSet)
      BY <1>1 DEF BaseInv
    <3>2. BP(c) \in PktNo
      BY <2>2 DEF BeingRead
    <3>3. PL(BP(c)) \in 1 .. MaxPayload
      BY <3>1, <3>2, Sizes
    <3> QED
      BY <2>3, <3>1, <3>3, ConstantsOK
  <2>5. Len(bufQ[c]) # 0
    BY <2>3, <2>4
  <2>6. bufQ[c] # <<>>
    BY <2>5
  <2> QED
    BY <1>1, <1>2, <2>1, <2>3, <2>6 DEF Held
<1>4. CASE rd_state = "clr_buff"
  <2>1. Full(c) /\ ~Open(c)
    BY <1>1, <1>4 DEF ReadInv, IsLate
  <2>2. bufQ[c] # <<>>
    BY <1>1, <2>1, FullBuffer
  <2>3. ~Open(c)'
    BY <1>1, <2>1, <2>2, ClosedStays
  <2>4. bufQ'[c] = <<>>
    BY <1>1, <1>4, BufferStep DEF ClrBuff
  <2> QED
    BY <1>1, <1>2, <2>1, <2>2, <2>3, <2>4 DEF Held
<1> QED
  BY <1>2, <1>3, <1>4

\* A packet gets a buffer when the writer has decided to keep it, and it is the free one.
LEMMA HeldNew ==
  ASSUME IInv, NEW m \in 0 .. 1, NEW take \in 0 .. 1, ClockWith(m, take),
         wr_state = "check_smpl_nr", wr_state' = "switch_next_buff",
         NEW f \in Buffers, f = Free
  PROVE  f \notin Held /\ f \in Held' /\ BP(f)' = Pkt
<1>1. /\ BaseInv /\ FeedInv /\ WrStateInv /\ SelInv /\ HeaderInv /\ Buffers' = Buffers
  BY DEF IInv, Buffers
<1>2. f = current_buff_cnt /\ f # NBuff
  BY <1>1, ConstantsOK DEF BaseInv, SelInv, Free, Buffers
<1>3. bufQ[f] = <<>> /\ pct_data_wrreq # f
  BY <1>1, <1>2 DEF SelInv
<1>4. f \notin Held
  BY <1>3 DEF Held, Open
<1>5. Pkt \in PktNo /\ pct_data_wrreq_cnt = 1 /\ ~in_pct_data_valid /\ wr_rd_cnt_max = W(Pkt)
  BY <1>1 DEF FeedInv, WrStateInv, HdrDone, BaseInv, Asked, Got
<1>6. /\ pct_data_wrreq_cnt' = 1 /\ wr_rd_cnt_max' = wr_rd_cnt_max /\ current_buff_cnt' = f
  BY <1>2, <1>5 DEF ClockWith, WrClock, WrOut, BuffSel, WrHdrHere
<1>7. W(Pkt) \in Nat /\ W(Pkt) >= 2
  BY <1>1, <1>5, Sizes, ConstantsOK DEF BaseInv
<1>8. Open(f)'
  BY <1>5, <1>6, <1>7 DEF Open
<1>9. HdrFor(current_buff_cnt, Pkt, 3)'
  BY <1>1, HeaderStep
<1>10. pct_hdr_array'[f] = [pkt |-> Pkt', idx |-> 1]
  BY <1>6, <1>9 DEF HdrFor, HdrIn, HdrWord
<1>11. Pkt' = Pkt
  BY <1>1, PktStays
<1>12. f \in Held' /\ pct_hdr_array'[f].pkt = Pkt
  BY <1>1, <1>8, <1>10, <1>11 DEF Held
<1> QED
  BY <1>2, <1>4, <1>12 DEF BP

\* There is no other way for a buffer to come to hold something.
LEMMA HeldBefore ==
  ASSUME IInv, NEW m \in 0 .. 1, NEW take \in 0 .. 1, ClockWith(m, take),
         NEW i \in Held', i \notin Held
  PROVE  wr_state = "check_smpl_nr" /\ wr_state' = "switch_next_buff" /\ i = Free
<1>1. /\ BaseInv /\ FeedInv /\ WrStateInv /\ PointerInv /\ SelInv /\ i \in Buffers
  BY DEF IInv, Held, Buffers
<1>2. ~Open(i) /\ bufQ[i] = <<>>
  BY <1>1 DEF Held
<1>3. bufQ'[i] = <<>>
  BY <1>1, <1>2, StaysEmpty DEF Open, BuffWrite
<1>4. Open(i)'
  BY <1>3 DEF Held
<1>5. wr_state = "check_smpl_nr" /\ wr_state' = "switch_next_buff" /\ i = current_buff_cnt
  BY <1>1, <1>2, <1>4, OpenBefore
<1> QED
  BY <1>1, <1>5 DEF SelInv, Free

\* Numbers of packets that have no buffer yet only grow.
LEMMA NextNoStep ==
  ASSUME IInv, NEW m \in 0 .. 1, NEW take \in 0 .. 1, ClockWith(m, take)
  PROVE  /\ NextNo \in Int /\ NextNo' \in Int /\ NextNo <= NextNo'
         /\ wr_state = "check_smpl_nr" /\ wr_state' = "switch_next_buff" =>
              NextNo = Pkt /\ NextNo' = Pkt + 1
<1>1. /\ BaseInv /\ FeedInv /\ WrStateInv /\ feed_pkt \in Nat /\ feed_idx \in Nat /\ WrFsm
      /\ feed_pkt' = feed_pkt
  <2>1. BaseInv /\ FeedInv /\ WrStateInv
    BY DEF IInv
  <2>2. feed_pkt \in Nat /\ feed_idx \in Nat
    BY <2>1 DEF BaseInv
  <2>3. WrFsm /\ feed_pkt' = feed_pkt
    BY DEF ClockWith, FeedClock, WrClock
  <2> QED
    BY <2>1, <2>2, <2>3
<1>2. CASE wr_state = "idle"
  <2>1. /\ ~in_pct_rdreq_int /\ ~in_pct_data_valid /\ (in_pct_rdy => feed_idx = 1)
        /\ wr_state' = IF in_pct_rdy THEN "rd_hdr" ELSE "idle"
    BY <1>1, <1>2 DEF FeedInv, WrFsm, WrGo
  <2>2. feed_idx' = IF ~in_pct_reset_n_req THEN 0 ELSE feed_idx
    BY <2>1 DEF ClockWith, FeedClock, FeedRead
  <2>3. in_pct_rdy => pct_data_wrreq_cnt' = 0
    BY <1>2, <2>1 DEF ClockWith, WrClock, WrOut
  <2>4. in_pct_rdy => Pkt' = feed_pkt
    BY <1>1, <2>3 DEF Pkt
  <2> QED
    BY <1>1, <1>2, <2>1, <2>2, <2>4 DEF NextNo
<1>3. CASE wr_state # "idle"
  <2>1. Pkt' = Pkt /\ Pkt \in PktNo
    BY <1>1, <1>3, PktStays
  <2>2. Pkt \in Nat
    BY <2>1 DEF PktNo
  <2>3. CASE wr_state' = "idle"
    <3>1. CASE wr_state = "clr_fifo"
      <4>1. feed_pkt = Pkt
        BY <3>1, HeaderKnown
      <4> QED
        BY <1>1, <1>3, <2>2, <2>3, <3>1, <4>1 DEF NextNo
    <3>2. CASE wr_state = "switch_current_buff"
      <4>1. wr_rd_cnt = W(Pkt) /\ ~in_pct_rdreq_int /\ Got = W(Pkt) /\ W(Pkt) \in Nat
        <5>1. wr_rd_cnt_max = W(Pkt) /\ wr_rd_cnt = wr_rd_cnt_max /\ pct_data_wrreq_cnt = wr_rd_cnt_max
          <6>1. /\ 1 <= pct_data_wrreq_cnt /\ wr_rd_cnt = wr_rd_cnt_max
                /\ pct_data_wrreq_cnt = wr_rd_cnt_max /\ pct_data_wrreq_cnt \in Nat
            BY <1>1, <3>2 DEF WrStateInv, BaseInv
          <6>2. pct_data_wrreq_cnt > 0 => wr_rd_cnt_max = W(Pkt)
            BY <1>1, <1>3 DEF FeedInv
          <6> QED
            BY <6>1, <6>2
        <5>2. W(Pkt) \in Nat
          BY <1>1, <2>1, Sizes, ConstantsOK DEF BaseInv
        <5> QED
          BY <1>1, <5>1, <5>2 DEF FeedInv, Asked, Got
      <4>2. (feed_idx = 0 /\ feed_pkt = Pkt) \/ (feed_idx = 1 /\ feed_pkt = Pkt + 1)
        BY <1>1, <1>3, <4>1 DEF FeedInv
      <4>3. feed_idx' = feed_idx
        BY <1>1, <1>3, <4>1 DEF ClockWith, FeedClock, FeedRead, FeedInv
      <4> QED
        BY <1>1, <1>3, <2>2, <2>3, <3>2, <4>2, <4>3 DEF NextNo
    <3> QED
      BY <1>1, <1>3, <2>3, <3>1, <3>2 DEF WrFsm, WrGo
  <2>4. CASE wr_state' # "idle"
    <3>1. wr_state' \in {"rd_hdr", "wait_cmpr_pipe", "check_smpl_nr", "clr_fifo"} =>
            wr_state \in {"rd_hdr", "wait_cmpr_pipe", "check_smpl_nr", "clr_fifo"}
      BY <1>1, <1>3 DEF WrFsm, WrGo
    <3> QED
      BY <1>3, <2>1, <2>2, <2>4, <3>1 DEF NextNo
  <2> QED
    BY <2>3, <2>4
<1> QED
  BY <1>2, <1>3

\* The packets stay in their order when the first buffer is let go ...
LEMMA OrderedPop ==
  ASSUME NEW b \in Buffers, NEW held \in SUBSET Buffers, NEW pkt, Ordered(b, held, pkt)
  PROVE  Ordered(NextBuff(b), held \ {b}, pkt)
<1>1. \A i \in Buffers : /\ Dist(b, i) \in Int
                         /\ i # b => Dist(NextBuff(b), i) = Dist(b, i) - 1
  BY Distances, ConstantsOK
<1> QED
  BY <1>1 DEF Ordered

\* ... and when a later packet is given the free one.
LEMMA OrderedPush ==
  ASSUME NEW b \in Buffers, NEW w \in Buffers, NEW held \in SUBSET Buffers,
         Ring(b, w, held), w \notin held, NEW old, NEW new, Ordered(b, held, old),
         \A i \in held : new[i] = old[i] /\ old[i] < new[w]
  PROVE  Ordered(b, held \cup {w}, new)
<1>1. \A i \in held : Dist(b, i) < Dist(b, w)
  BY RingPush
<1>2. \A i \in Buffers : Dist(b, i) \in Int
  BY Distances, ConstantsOK
<1>3. SUFFICES ASSUME NEW i \in held \cup {w}, NEW j \in held \cup {w}, Dist(b, i) < Dist(b, j)
               PROVE  new[i] < new[j]
  BY DEF Ordered
<1>4. i \in Buffers /\ j \in Buffers /\ i \in held
  BY <1>1, <1>2, <1>3
<1>5. CASE j = w
  BY <1>4, <1>5
<1>6. CASE j \in held
  <2>1. old[i] < old[j]
    BY <1>3, <1>4, <1>6 DEF Ordered
  <2> QED
    BY <1>4, <1>6, <2>1
<1> QED
  BY <1>5, <1>6

\* The reader's side of the ring.
LEMMA FirstStep ==
  ASSUME IInv, NEW m \in 0 .. 1, NEW take \in 0 .. 1, ClockWith(m, take)
  PROVE  /\ First \in Buffers
         /\ IF rd_state' = "switch_next_buff" THEN First = crnt_buff_cnt /\ First' = NextBuff(First)
            ELSE First' = First
<1>1. crnt_buff_cnt \in Buffers /\ NextBuff(crnt_buff_cnt) \in Buffers
  BY NextBuffer DEF IInv, BaseInv
<1>2. /\ RdFsm
      /\ crnt_buff_cnt' = IF rd_state = "switch_next_buff" THEN NextBuff(crnt_buff_cnt)
                          ELSE crnt_buff_cnt
  BY DEF ClockWith, RdClock, CrntBuffSel
<1>3. rd_state = "switch_next_buff" => rd_state' = "check_next_buf"
  BY <1>2 DEF RdFsm, RdGo
<1> QED
  BY <1>1, <1>2, <1>3 DEF First, NextBuff

\* The writer's side.
LEMMA FreeStep ==
  ASSUME IInv, NEW m \in 0 .. 1, NEW take \in 0 .. 1, ClockWith(m, take)
  PROVE  /\ Free \in Buffers
         /\ Free' = IF wr_state = "check_smpl_nr" /\ wr_state' = "switch_next_buff"
                    THEN NextBuff(Free) ELSE Free
<1>1. next_buff_cnt \in Buffers /\ NextBuff(next_buff_cnt) \in Buffers
  BY NextBuffer DEF IInv, BaseInv
<1>2. /\ WrFsm
      /\ next_buff_cnt' = IF wr_state = "switch_next_buff" THEN NextBuff(next_buff_cnt)
                          ELSE next_buff_cnt
  BY DEF ClockWith, WrClock, BuffSel
<1>3. /\ wr_state = "switch_next_buff" => wr_state' = "rd_pct"
      /\ wr_state' = "switch_next_buff" => wr_state = "check_smpl_nr"
  BY <1>2 DEF WrFsm, WrGo
<1> QED
  BY <1>1, <1>2, <1>3 DEF Free, NextBuff

\* A packet has a number.
LEMMA PktNumber ==
  ASSUME BaseInv, NEW i \in Buffers
  PROVE  BP(i) \in Nat
<1>1. pct_hdr_array[i] \in WordsIn
  BY DEF BaseInv
<1> QED
  BY <1>1 DEF BP, WordsIn, NoWord, PktNo

\* The buffers stay a ring, with the packets in their order.
LEMMA RingStep ==
  ASSUME IInv, RingInv, NEW m \in 0 .. 1, NEW take \in 0 .. 1, ClockWith(m, take)
  PROVE  RingInv'
<1> DEFINE gone == rd_state' = "switch_next_buff"
           comes == wr_state = "check_smpl_nr" /\ wr_state' = "switch_next_buff"
<1>1. PICK b \in Buffers, w \in Buffers, held \in SUBSET Buffers, c \in Buffers :
        /\ b = First /\ w = Free /\ held = Held /\ c = crnt_buff_cnt
        /\ \A i \in Buffers : BP(i) \in Nat
  BY PktNumber, FirstStep, FreeStep DEF IInv, BaseInv, Held
<1>2. PICK b1, w1, held1 : b1 = First' /\ w1 = Free' /\ held1 = Held'
  OBVIOUS
<1>3. PICK rest : rest = IF gone THEN held \ {b} ELSE held
  OBVIOUS
<1>4. PICK old : old = [i \in Buffers |-> BP(i)]
  OBVIOUS
<1>5. PICK new : new = [i \in Buffers |-> BP(i)']
  OBVIOUS
<1>6. PICK no \in Int, no1 \in Int : no = NextNo /\ no1 = NextNo'
  BY NextNoStep
<1>7. Ring(b, w, held) /\ Ordered(b, held, old) /\ \A i \in held : old[i] \in Nat /\ old[i] < no
  BY <1>1, <1>4, <1>6 DEF RingInv
<1>8. rest \in SUBSET Buffers /\ (gone => b = c /\ b \in held /\ b \notin held1)
  BY <1>1, <1>2, <1>3, FirstStep, HeldGoes
<1>9. b1 = IF gone THEN NextBuff(b) ELSE b
  BY <1>1, <1>2, FirstStep
<1>10. Ring(b1, w, rest) /\ Ordered(b1, rest, old) /\ b1 \in Buffers
  BY <1>3, <1>7, <1>8, <1>9, RingPop, OrderedPop, NextBuffer
<1>11. \A i \in rest : i \in held /\ i \in held1 /\ new[i] = old[i] /\ old[i] \in Nat /\ old[i] < no
  <2>1. TAKE i \in rest
  <2>2. i \in Held /\ ~(gone /\ i = crnt_buff_cnt) /\ i \in Buffers
    BY <1>1, <1>3, <1>8
  <2>3. i \in Held' /\ BP(i)' = BP(i)
    BY <2>2, HeldStays
  <2> QED
    BY <1>1, <1>2, <1>4, <1>5, <1>7, <2>2, <2>3
<1>12. SUFFICES Ring(b1, w1, held1) /\ Ordered(b1, held1, new) /\ \A i \in held1 : new[i] < no1
  <2>1. Buffers' = Buffers
    BY DEF Buffers
  <2>2. \A i \in Held' : i \in Buffers
    BY <2>1 DEF Held
  <2>3. ([i \in Buffers |-> BP(i)])' = new
    BY <1>5, <2>1
  <2> QED
    BY <1>2, <1>5, <1>6, <2>2, <2>3 DEF RingInv
<1>13. CASE comes
  <2>1. w \notin held /\ w \in held1 /\ new[w] = Pkt
    BY <1>1, <1>2, <1>5, <1>13, HeldNew
  <2>2. no = Pkt /\ no1 = no + 1
    BY <1>6, <1>13, NextNoStep
  <2>3. held1 = rest \cup {w}
    BY <1>1, <1>2, <1>3, <1>8, <1>11, <2>1, HeldBefore
  <2>4. w1 = NextBuff(w)
    BY <1>1, <1>2, <1>13, FreeStep
  <2>5. w \notin rest
    BY <1>3, <2>1
  <2>6. Ring(b1, w1, held1)
    BY <1>8, <1>10, <2>3, <2>4, <2>5, RingPush
  <2>7. Ordered(b1, held1, new)
    BY <1>8, <1>10, <1>11, <2>1, <2>2, <2>3, <2>5, OrderedPush
  <2>8. \A i \in held1 : new[i] < no1
    BY <1>6, <1>11, <2>1, <2>2, <2>3
  <2> QED
    BY <2>6, <2>7, <2>8
<1>14. CASE ~comes
  <2>1. held1 = rest
    BY <1>1, <1>2, <1>3, <1>8, <1>11, <1>14, HeldBefore
  <2>2. w1 = w
    BY <1>1, <1>2, <1>14, FreeStep
  <2>3. Ordered(b1, held1, new)
    BY <1>10, <1>11, <2>1 DEF Ordered
  <2>4. \A i \in held1 : new[i] < no1
    <3>1. no <= no1
      BY <1>6, NextNoStep
    <3> QED
      BY <1>6, <1>11, <2>1, <3>1
  <2> QED
    BY <1>10, <2>1, <2>2, <2>3, <2>4
<1> QED
  BY <1>13, <1>14

\* What leaves next clock, and the word taken from the buffer that is being read: it
\* is the one rd_cnt says.
LEMMA TakenStep ==
  ASSUME IInv, OutInv, NEW m \in 0 .. 1, NEW take \in 0 .. 1, ClockWith(m, take),
         last' = IF smpl_buff_valid THEN smpl_buff_q ELSE last,
         NEW c \in Buffers, c = crnt_buff_cnt
  PROVE  /\ Taken \in WordsIn /\ Leaving' = Taken
         /\ RdReqInt => c \in Held /\ Taken' = [pkt |-> BP(c), idx |-> rd_cnt + 1]
         /\ ~RdReqInt => Taken' = Taken
<1>1. /\ BaseInv /\ PointerInv /\ ReadInv /\ last \in WordsIn
  BY DEF IInv, OutInv
<1>2. Taken \in WordsIn
  BY <1>1 DEF Taken, Leaving, BaseInv
<1>3. /\ smpl_buff_valid_int' = RdReqInt /\ smpl_buff_valid' = smpl_buff_valid_int
      /\ smpl_buff_q' = instx_q[crnt_buff_cnt]
  BY DEF ClockWith, OutClock
<1>4. Leaving' = Taken
  BY <1>3 DEF Leaving, Taken
<1>5. CASE RdReqInt
  <2>1. Reading /\ BeingRead(c) /\ rd_state = "rd_buff"
    BY <1>1, <1>5 DEF RdReqInt, Reading, ReadInv
  <2>2. PICK p \in PktNo, len \in Nat : p = BP(c) /\ len = 2 * PL(p) /\ len >= 2
    <3>1. BP(c) \in PktNo
      BY <2>1 DEF BeingRead
    <3>2. PL(BP(c)) \in 1 .. MaxPayload
      BY <1>1, <3>1, Sizes DEF BaseInv
    <3> QED
      BY <3>1, <3>2, ConstantsOK
  <2>3. /\ rd_cnt \in Nat /\ rd_cnt < len /\ Len(bufQ[c]) = len - rd_cnt
        /\ Seg(bufQ[c], p, len) /\ bufQ[c] \in Seq(WordsIn) /\ AllIn(c)
    BY <1>1, <2>1, <2>2, ConstantsOK DEF BeingRead, BaseInv
  <2>4. bufQ[c] # <<>> /\ Head(bufQ[c]) = bufQ[c][1] /\ 1 \in 1 .. Len(bufQ[c])
    BY <2>2, <2>3
  <2>5. Head(bufQ[c]) = [pkt |-> p, idx |-> rd_cnt + 1]
    BY <2>2, <2>3, <2>4 DEF Seg
  <2>6. BuffRdusedw(c) > 0
    <3>1. bufW[c][0] \in Nat /\ bufR[c][0] \in Nat
      <4>1. 0 \in Side
        BY ConstantsOK DEF Side
      <4> QED
        BY <1>1, <4>1 DEF BaseInv
    <3>2. Len(bufQ[c]) = bufW[c][0] - bufR[c][0] /\ bufW[c][Lag] = bufW[c][0]
      BY <1>1, <2>3 DEF PointerInv, AllIn
    <3> QED
      BY <2>1, <2>2, <2>3, <3>1, <3>2 DEF BuffRdusedw, ClrBuff
  <2>7. BuffRead(c)
    BY <1>5, <2>6 DEF BuffRead
  <2>8. instx_q'[c] = Head(bufQ[c]) /\ crnt_buff_cnt' = c
    BY <2>1, <2>7 DEF ClockWith, BufferClock, RdClock, CrntBuffSel
  <2>9. Taken' = [pkt |-> p, idx |-> rd_cnt + 1]
    BY <1>3, <1>5, <2>5, <2>8 DEF Taken
  <2> QED
    BY <1>2, <1>4, <1>5, <2>2, <2>4, <2>9 DEF Held
<1>6. CASE ~RdReqInt
  BY <1>2, <1>3, <1>4, <1>6 DEF Taken
<1> QED
  BY <1>5, <1>6

\* What comes before all packets in the buffers does so after a step.
LEMMA LaterStep ==
  ASSUME IInv, NEW m \in 0 .. 1, NEW take \in 0 .. 1, ClockWith(m, take),
         NEW n \in Nat, n < NextNo,
         \A i \in Held : n < BP(i) \/ (rd_state' = "switch_next_buff" /\ i = crnt_buff_cnt)
  PROVE  \A i \in Held' : n < BP(i)'
<1>1. SUFFICES ASSUME NEW i \in Held' PROVE n < BP(i)'
  OBVIOUS
<1>2. CASE i \in Held
  <2>1. crnt_buff_cnt \in Buffers
    BY DEF IInv, BaseInv
  <2>2. ~(rd_state' = "switch_next_buff" /\ i = crnt_buff_cnt)
    BY <1>1, <2>1, HeldGoes
  <2> QED
    BY <1>2, <2>2, HeldStays
<1>3. CASE i \notin Held
  <2>1. wr_state = "check_smpl_nr" /\ wr_state' = "switch_next_buff" /\ i = Free
    BY <1>1, <1>3, HeldBefore
  <2>2. BP(i)' = Pkt /\ NextNo = Pkt
    BY <2>1, FreeStep, HeldNew, NextNoStep
  <2> QED
    BY <2>2
<1> QED
  BY <1>2, <1>3

\* The last word of a packet is taken when the reader lets go of its buffer.
LEMMA LastTaken ==
  ASSUME IInv, RingInv, OutInv, NEW m \in 0 .. 1, NEW take \in 0 .. 1, ClockWith(m, take),
         NEW c \in Buffers, c = crnt_buff_cnt, Reading, rd_state' = "switch_next_buff"
  PROVE  /\ RdReqInt /\ BP(c) \in PktNo /\ rd_cnt + 1 = 2 * PL(BP(c))
         /\ \A i \in Held : BP(c) < BP(i) \/ i = c
<1>1. BaseInv /\ ReadInv
  BY DEF IInv
<1>2. BeingRead(c)
  BY <1>1 DEF ReadInv
<1>3. PICK len \in Nat : len = 2 * PL(BP(c)) /\ len >= 2
  <2>1. PL(BP(c)) \in 1 .. MaxPayload
    BY <1>1, <1>2, Sizes DEF BaseInv, BeingRead
  <2> QED
    BY <2>1, ConstantsOK
<1>4. rd_cnt \in Nat /\ rd_cnt < len /\ rd_cnt_max = len /\ BP(c) \in PktNo
  BY <1>1, <1>2, <1>3, ConstantsOK DEF BaseInv, BeingRead
<1>5. rd_state = "rd_buff" /\ ~fifo_full_sig /\ ~(rd_cnt < rd_cnt_max - 1)
  BY DEF ClockWith, RdClock, RdFsm, RdGo, Reading
<1>6. RdReqInt /\ rd_cnt + 1 = len
  BY <1>3, <1>4, <1>5 DEF RdReqInt
<1>7. c = First /\ c \in Held
  BY <1>5, FirstStep, HeldGoes
<1>8. \A i \in Held : BP(c) < BP(i) \/ i = c
  <2>1. TAKE i \in Held
  <2>2. i \in Buffers
    BY DEF Held
  <2>3. i # c => Dist(c, c) < Dist(c, i)
    BY <2>2, Distances, ConstantsOK
  <2>4. Ordered(c, Held, [j \in Buffers |-> BP(j)])
    BY <1>7 DEF RingInv
  <2> QED
    BY <1>7, <2>2, <2>3, <2>4 DEF Ordered
<1> QED
  BY <1>3, <1>4, <1>6, <1>8

\* What has left, leaves next and was taken last are consecutive words.
LEMMA OutStep ==
  ASSUME IInv, RingInv, OutInv, NEW m \in 0 .. 1, NEW take \in 0 .. 1, ClockWith(m, take),
         last' = IF smpl_buff_valid THEN smpl_buff_q ELSE last
  PROVE  OutInv'
<1>1. PICK c \in Buffers : c = crnt_buff_cnt
  BY DEF IInv, BaseInv
<1>2. /\ BaseInv /\ ReadInv /\ stream' = stream /\ PktNo' = PktNo /\ WordsIn' = WordsIn
      /\ smpl_buff_valid_int' = RdReqInt /\ smpl_buff_valid' = smpl_buff_valid_int
      /\ smpl_buff_q' = instx_q[c]
  BY <1>1 DEF IInv, ClockWith, OutClock, PktNo, WordsIn
<1>3. PICK t, t1 : t \in WordsIn /\ t = Taken /\ t1 = Taken'
  BY <1>1, TakenStep
<1>4. /\ Leaving' = t /\ (RdReqInt => c \in Held /\ t1 = [pkt |-> BP(c), idx |-> rd_cnt + 1])
      /\ ~RdReqInt => t1 = t
  BY <1>1, <1>3, TakenStep
<1>5. \A w, v : After(w, v)' <=> After(w, v)
  BY <1>2 DEF After, Last
<1>6. \A w : Last(w)' <=> Last(w)
  BY <1>2 DEF Last
<1>7. last' \in WordsIn'
  BY <1>2 DEF BaseInv, OutInv
<1>8. smpl_buff_valid' => After(last, smpl_buff_q)'
  <2>1. last' = Leaving /\ (smpl_buff_valid_int => After(Leaving, instx_q[c]))
    BY <1>1 DEF Leaving, OutInv
  <2> QED
    BY <1>2, <1>5, <2>1
<1>9. t.pkt \in Nat /\ t.pkt < NextNo /\ NextNo \in Int /\ NextNo' \in Int /\ NextNo <= NextNo'
  BY <1>3, NextNoStep DEF OutInv, WordsIn, NoWord, PktNo
<1>10. c \in Held => BP(c) < NextNo /\ BP(c) \in Nat
  BY <1>2, PktNumber DEF RingInv
<1>11. t1.pkt < NextNo'
  BY <1>4, <1>9, <1>10
<1>12. smpl_buff_valid_int' => After(Leaving, instx_q[crnt_buff_cnt])'
  <2>1. SUFFICES ASSUME RdReqInt PROVE After(t, t1)
    BY <1>2, <1>3, <1>4, <1>5 DEF Taken
  <2>2. BeingRead(c) /\ Reading
    BY <1>1, <1>2, <2>1 DEF ReadInv, RdReqInt, Reading
  <2>3. /\ rd_cnt \in Nat /\ BP(c) \in PktNo /\ rd_cnt < 2 * PL(BP(c))
    BY <1>2, <2>2, ConstantsOK DEF BaseInv, BeingRead
  <2>4. CASE rd_cnt > 0
    <3>1. t = [pkt |-> BP(c), idx |-> rd_cnt]
      BY <1>1, <1>3, <2>2, <2>4 DEF OutInv
    <3>2. BP(c) # 0
      BY <2>3 DEF PktNo
    <3>3. PL(BP(c)) \in Nat
      BY <1>2, <2>3, Sizes, ConstantsOK DEF BaseInv
    <3>4. ~Last(t)
      BY <2>3, <3>1, <3>2, <3>3 DEF Last, NoWord, PL
    <3> QED
      BY <1>4, <2>1, <3>1, <3>4 DEF After, FollowsInPacket
  <2>5. CASE rd_cnt = 0
    <3>1. Last(t) /\ t.pkt < BP(c)
      BY <1>3, <1>4, <2>1, <2>5 DEF OutInv
    <3> QED
      BY <1>4, <2>1, <2>5, <3>1 DEF After
  <2> QED
    BY <2>3, <2>4, <2>5
<1>13. IF (Reading /\ rd_cnt > 0)' THEN t1 = [pkt |-> BP(crnt_buff_cnt)', idx |-> rd_cnt']
       ELSE Last(t1) /\ \A i \in Held' : t1.pkt < BP(i)'
  <2>1. rd_cnt' = IF rd_state = "idle" THEN 0 ELSE IF RdReqInt THEN rd_cnt + 1 ELSE rd_cnt
    BY DEF ClockWith, RdClock, RdCntProc
  <2>2. rd_cnt \in Nat
    BY <1>2, ConstantsOK DEF BaseInv
  <2>3. CASE Reading /\ Reading' /\ (rd_cnt > 0 \/ RdReqInt)
    <3>1. crnt_buff_cnt' = c /\ BP(c)' = BP(c)
      BY <1>1, <1>2, <2>3, ReadingStep DEF IInv
    <3>2. BP(crnt_buff_cnt)' = BP(c)
      BY <3>1 DEF BP
    <3>3. rd_cnt' = (IF RdReqInt THEN rd_cnt + 1 ELSE rd_cnt) /\ rd_cnt' > 0
      BY <2>1, <2>2, <2>3 DEF Reading
    <3>4. ~RdReqInt => t = [pkt |-> BP(c), idx |-> rd_cnt]
      BY <1>1, <1>3, <2>3 DEF OutInv
    <3> QED
      BY <1>4, <2>3, <3>2, <3>3, <3>4
  <2>4. CASE Reading /\ ~Reading'
    <3>1. rd_state' = "switch_next_buff"
      BY <1>1, <2>4, ReadingStep DEF IInv
    <3>2. /\ RdReqInt /\ BP(c) \in PktNo /\ rd_cnt + 1 = 2 * PL(BP(c))
          /\ \A i \in Held : BP(c) < BP(i) \/ i = c
      BY <1>1, <2>4, <3>1, LastTaken
    <3>3. t1 = [pkt |-> BP(c), idx |-> rd_cnt + 1] /\ BP(c) < NextNo /\ BP(c) \in Nat
      BY <1>4, <1>10, <3>2
    <3>4. Last(t1)
      BY <3>2, <3>3 DEF Last, PL
    <3>5. \A i \in Held' : BP(c) < BP(i)'
      BY <1>1, <3>1, <3>2, <3>3, LaterStep
    <3> QED
      BY <2>4, <3>3, <3>4, <3>5
  <2>5. CASE ~RdReqInt /\ ~(Reading /\ rd_cnt > 0) /\ ~(Reading /\ ~Reading')
    <3>1. Last(t) /\ \A i \in Held : t.pkt < BP(i)
      BY <1>3, <2>5 DEF OutInv
    <3>2. \A i \in Held' : t.pkt < BP(i)'
      BY <1>9, <3>1, LaterStep
    <3>3. ~(Reading' /\ rd_cnt' > 0)
      BY <2>1, <2>2, <2>5 DEF Reading, ClockWith, RdClock, RdFsm, RdGo
    <3> QED
      BY <1>4, <2>5, <3>1, <3>2, <3>3
  <2> QED
    BY <2>3, <2>4, <2>5 DEF RdReqInt, Reading
<1> QED
  BY <1>3, <1>6, <1>7, <1>8, <1>11, <1>12, <1>13 DEF OutInv

\* What does not touch the buffers and the outputs does not touch the order.
LEMMA OrderRest ==
  ASSUME RingInv, OutInv, NextNo' = NextNo,
         UNCHANGED <<stream, wrVars, bufVars, rdVars, outVars, last>>
  PROVE  RingInv' /\ OutInv'
<1> USE DEF wrVars, bufVars, rdVars, outVars
<1>1. /\ First' = First /\ Free' = Free /\ Buffers' = Buffers /\ WordsIn' = WordsIn
      /\ \A i : BP(i)' = BP(i) /\ (Open(i)' <=> Open(i))
  BY DEF First, Free, Buffers, WordsIn, PktNo, BP, Open, NextBuff
<1>2. Held' = Held
  BY <1>1 DEF Held
<1>3. RingInv'
  BY <1>1, <1>2 DEF RingInv
<1>4. /\ Leaving' = Leaving /\ Taken' = Taken /\ (Reading' <=> Reading)
      /\ \A w, v : (After(w, v)' <=> After(w, v)) /\ (Last(w)' <=> Last(w))
  BY DEF Leaving, Taken, Reading, After, Last
<1>5. OutInv'
  BY <1>1, <1>2, <1>4 DEF OutInv
<1> QED
  BY <1>3, <1>5

\* A packet that turns up is the next one.
LEMMA OrderArrive ==
  ASSUME OrderInv, Arrive, last' = last
  PROVE  OrderInv'
<1>1. IInv /\ RingInv /\ OutInv /\ IInv'
  BY ArriveStep DEF OrderInv
<1>2. /\ feed_idx = 0 /\ feed_idx' = 1 /\ feed_pkt' = feed_pkt + 1
      /\ UNCHANGED <<stream, wrVars, bufVars, rdVars, outVars, last>>
  BY DEF Arrive
<1>3. NextNo' = NextNo
  <2>1. wr_state # "idle" => Pkt' = Pkt
    BY <1>1, ArriveBetween
  <2>2. wr_state' = wr_state
    BY <1>2 DEF wrVars
  <2> QED
    BY <1>2, <2>1, <2>2 DEF NextNo
<1> QED
  BY <1>1, <1>2, <1>3, OrderRest DEF OrderInv

\* Every clock keeps the order.
LEMMA OrderClock ==
  ASSUME OrderInv, Clock, last' = IF smpl_buff_valid THEN smpl_buff_q ELSE last
  PROVE  OrderInv'
<1>1. PICK m \in 0 .. 1, take \in 0 .. 1 : ClockWith(m, take)
  BY DEF Clock
<1> QED
  BY <1>1, ClockStep, RingStep, OutStep DEF OrderInv

\* Nothing has been stored or has left at the start.
LEMMA OrderStart ==
  ASSUME OrderInit
  PROVE  OrderInv
<1>1. IInv
  BY InitInv DEF OrderInit
<1>2. /\ rd_state = "idle" /\ wr_state = "idle" /\ next_buff_cnt = 0 /\ crnt_buff_cnt = 0
      /\ feed_idx = 0 /\ feed_pkt = 0 /\ last = NoWord
      /\ smpl_buff_valid = FALSE /\ smpl_buff_valid_int = FALSE
      /\ \A i \in Buffers : ~Open(i) /\ bufQ[i] = <<>>
  BY ConstantsOK DEF OrderInit, Init, Open, Buffers
<1>3. Held = {} /\ First = Free /\ NextNo = 1 /\ Taken = NoWord
  BY <1>2 DEF Held, First, Free, NextNo, Taken, Leaving
<1>4. RingInv
  BY <1>3 DEF RingInv, Ring, Ordered
<1>5. OutInv
  BY <1>2, <1>3 DEF OutInv, Reading, Last, WordsIn, NoWord
<1> QED
  BY <1>1, <1>4, <1>5 DEF OrderInv

\* The inductive invariant of packets2data with the word that left last.
THEOREM OrderInvariant == OrderSpec => []OrderInv
<1>1. OrderInit => OrderInv
  BY OrderStart
<1>2. OrderInv /\ [OrderNext]_<<vars, last>> => OrderInv'
  <2>1. ASSUME OrderInv, OrderNext PROVE OrderInv'
    BY <2>1, OrderArrive, OrderClock DEF OrderNext
  <2>2. ASSUME OrderInv, UNCHANGED <<vars, last>> PROVE OrderInv'
    <3>1. NextNo' = NextNo
      BY <2>2 DEF NextNo, Pkt, vars, feedVars, wrVars
    <3> QED
      BY <2>2, <3>1, StutterStep, OrderRest DEF OrderInv, vars
  <2> QED
    BY <2>1, <2>2
<1> QED
  BY <1>1, <1>2, PTL DEF OrderSpec

\* SamplesInOrder: the words that leave packets2data are whole payloads in the order
\* of the packets, whatever is dropped and wherever the read side is held.
THEOREM WordsLeaveInOrder == OrderSpec => []SamplesInOrder
<1>1. OrderInv => SamplesInOrder
  BY DEF OrderInv, OutInv, After, SamplesInOrder
<1> QED
  BY <1>1, OrderInvariant, PTL

=============================================================================
