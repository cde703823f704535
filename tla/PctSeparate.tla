---------------------------- MODULE PctSeparate ----------------------------
(***************************************************************************)
(* The head of the transmit path: pct_separate_fsm cuts the word stream of *)
(* the USB FIFO into packets, one_pct_fifo stores one packet at a time and *)
(* tells its reader when a whole packet is there.  One step of PctClock is *)
(* one rising edge of tx_clk; every process of the two entities is one     *)
(* conjunct of it.  The reader drives pct_data_rdreq and pct_aclr_n, both  *)
(* of them registers of p2d_wr_fsm, so this module leaves their next value *)
(* to the module that closes the system.                                   *)
(*                                                                         *)
(* A word of the stream is [pkt, idx, size]: the idx-th word of packet pkt *)
(* (1 is the header) whose bits 23..8 hold size.  Payload words carry the  *)
(* size of their packet there, one of the values data can have.            *)
(***************************************************************************)
EXTENDS Naturals, Sequences

CONSTANTS
  RdRatio,      \* c_RD_RATIO: bytes in a word of the stream
  MaxPctWords,  \* c_MAX_PCT_WORDS: words of a packet whose size field is 0
  SizeFields,   \* the values of the size field that the host sends, in bytes
  AllOnes,      \* the all-ones value of the 16 bit counters
  Lag,          \* clocks until one side of a dcfifo sees the other's pointer
  InfifoDepth,  \* bound: words the USB FIFO holds
  MaxPkts       \* bound: packets the host sends

\* A packet is its header word and size/RdRatio payload words; pct_separate_fsm
\* and one_pct_fifo compute it alike.
HdrWords == 1
Words(size) == IF size = 0 THEN MaxPctWords ELSE size \div RdRatio + HdrWords

ASSUME ConstantsOK ==
  /\ RdRatio \in Nat \ {0}
  /\ MaxPctWords \in Nat /\ AllOnes \in Nat /\ AllOnes > MaxPctWords + 1
  /\ SizeFields \subseteq Nat
  /\ \A f \in SizeFields : Words(f) \in Nat /\ 1 <= Words(f) /\ Words(f) <= MaxPctWords
  /\ Lag \in Nat /\ InfifoDepth \in Nat /\ MaxPkts \in Nat

NoWord == [pkt |-> 0, idx |-> 0, size |-> 0]
WordSet == [pkt : Nat, idx : Nat, size : SizeFields \cup {0}]

VARIABLES
  \* the host and the USB FIFO
  host,               \* the word the host wrote last
  infifo,             \* the words the read side of the USB FIFO sees
  infifo_q,           \* its registered output (show-ahead is off)
  \* pct_separate_fsm
  sep_state, infifo_data_valid, rd_cnt, wr_cnt, rd_cnt_max,
  header, header_valid_reg,
  \* one_pct_fifo: reset synchroniser, data FIFO, header FIFO, read side registers
  rst_sync, pctFifo, wptr, rptr, pct_q,
  hdrFifo, inst2_q, pct_header_valid, pct_words, pct_rdy_reg,
  \* driven by the reader
  pct_data_rdreq, pct_aclr_n

hostVars == <<host, infifo>>
sepVars  == <<infifo_q, sep_state, infifo_data_valid, rd_cnt, wr_cnt,
              rd_cnt_max, header, header_valid_reg>>
fifoVars == <<rst_sync, pctFifo, wptr, rptr, pct_q, hdrFifo, inst2_q,
              pct_header_valid, pct_words, pct_rdy_reg>>

-----------------------------------------------------------------------------
(***************************************************************************)
(* The host writes the words of its packets in order, at any time.         *)
(***************************************************************************)
PacketEnds(w) == w = NoWord \/ w.idx = Words(w.size)

HostWrite ==
  /\ Len(infifo) < InfifoDepth
  /\ \/ /\ PacketEnds(host) /\ host.pkt < MaxPkts
        /\ \E f \in SizeFields : host' = [pkt |-> host.pkt + 1, idx |-> 1, size |-> f]
     \/ /\ ~PacketEnds(host)
        /\ host' = [host EXCEPT !.idx = @ + 1]
  /\ infifo' = Append(infifo, host')

-----------------------------------------------------------------------------
(***************************************************************************)
(* The FIFOs of one_pct_fifo are dcfifo_mixed_widths.  wptr[0] and rptr[0] *)
(* are the pointers, wptr[i] and rptr[i] what they were i clocks ago: each *)
(* side compares its own pointer with the oldest value of the other's.     *)
(* The asynchronous clear is in effect in the cycle that asserts it.       *)
(***************************************************************************)
Side == 0 .. Lag
SyncStages_Three == 3
SyncStages == 2

\* sync_reg: cleared at once by pct_aclr_n, released SyncStages edges later.
Inst1ResetN == pct_aclr_n /\ rst_sync = SyncStages

PctWrempty == ~Inst1ResetN \/ wptr[0] = rptr[Lag]
PctRdusedw == IF Inst1ResetN THEN wptr[Lag] - rptr[0] ELSE 0
PctRdempty == PctRdusedw = 0

Shift(ptr, step) ==
  [i \in Side |-> IF i = 0 THEN IF step THEN ptr[0] + 1 ELSE ptr[0] ELSE ptr[i - 1]]

-----------------------------------------------------------------------------
(***************************************************************************)
(* pct_separate_fsm.                                                       *)
(***************************************************************************)
InfifoRdreq == sep_state = "rd_pct" /\ infifo # <<>>

SepIdle ==
  /\ sep_state = "idle"
  /\ sep_state' = IF infifo # <<>> /\ PctWrempty THEN "rd_pct" ELSE "idle"

SepRdPct_OneMore ==
  /\ sep_state = "rd_pct"
  /\ sep_state' = IF \/ rd_cnt < rd_cnt_max
                     \/ rd_cnt = rd_cnt_max /\ infifo = <<>>
                  THEN "rd_pct" ELSE "rd_done"

SepRdPct ==
  /\ sep_state = "rd_pct"
  /\ sep_state' = IF \/ rd_cnt < rd_cnt_max - 1
                     \/ rd_cnt = rd_cnt_max - 1 /\ infifo = <<>>
                  THEN "rd_pct" ELSE "rd_done"

SepRdDone ==
  /\ sep_state = "rd_done"
  /\ sep_state' = IF PctWrempty THEN "idle" ELSE "rd_done"

SepFsm == SepIdle \/ SepRdPct \/ SepRdDone

InfifoRead ==
  /\ infifo'   = IF InfifoRdreq THEN Tail(infifo) ELSE infifo
  /\ infifo_q' = IF InfifoRdreq THEN Head(infifo) ELSE infifo_q
  /\ infifo_data_valid' = InfifoRdreq

RdCnt_NoReset == rd_cnt' = IF InfifoRdreq THEN rd_cnt + 1 ELSE rd_cnt

RdCnt == rd_cnt' = IF sep_state = "idle" THEN 0
                   ELSE IF InfifoRdreq THEN rd_cnt + 1 ELSE rd_cnt

WrCnt == wr_cnt' = IF sep_state = "idle" THEN 0
                   ELSE IF infifo_data_valid THEN wr_cnt + 1 ELSE wr_cnt

HeaderHere == wr_cnt = 0 /\ infifo_data_valid

HdrCap ==
  /\ header' = IF HeaderHere THEN infifo_q ELSE header
  /\ header_valid_reg' = HeaderHere

RdCntMax == rd_cnt_max' = IF sep_state = "idle" THEN AllOnes
                          ELSE IF HeaderHere THEN Words(infifo_q.size)
                          ELSE rd_cnt_max

SepClock == SepFsm /\ InfifoRead /\ RdCnt /\ WrCnt /\ HdrCap /\ RdCntMax

-----------------------------------------------------------------------------
(***************************************************************************)
(* one_pct_fifo.  pct_wrreq_reg follows infifo_rdreq_int exactly like      *)
(* infifo_data_valid does, so the latter stands for both.                  *)
(***************************************************************************)
ResetSync ==
  rst_sync' = IF ~pct_aclr_n THEN 0
              ELSE IF rst_sync < SyncStages THEN rst_sync + 1 ELSE rst_sync

PctRead == pct_data_rdreq /\ ~PctRdempty

DataFifo ==
  /\ IF Inst1ResetN
     THEN /\ pctFifo' = (IF PctRead THEN Tail(pctFifo) ELSE pctFifo)
                        \o (IF infifo_data_valid THEN <<infifo_q>> ELSE <<>>)
          /\ wptr' = Shift(wptr, infifo_data_valid)
          /\ rptr' = Shift(rptr, PctRead)
     ELSE /\ pctFifo' = <<>>
          /\ wptr' = [i \in Side |-> 0]
          /\ rptr' = [i \in Side |-> 0]
  /\ pct_q' = IF PctRead THEN Head(pctFifo) ELSE pct_q

\* The header FIFO is read as soon as it is not empty: a delay line.
HdrRdreq == Inst1ResetN /\ hdrFifo[Lag] # NoWord

HeaderFifo ==
  /\ hdrFifo' = [i \in Side |-> IF ~Inst1ResetN THEN NoWord
                                ELSE IF i > 0 THEN hdrFifo[i - 1]
                                ELSE IF header_valid_reg THEN header ELSE NoWord]
  /\ inst2_q' = IF HdrRdreq THEN hdrFifo[Lag] ELSE inst2_q
  /\ pct_header_valid' = HdrRdreq

PctWords_PayloadOnly ==
  pct_words' = IF pct_data_rdreq \/ PctRdempty THEN AllOnes
               ELSE IF pct_header_valid THEN Words(inst2_q.size) - HdrWords
               ELSE pct_words

PctWords ==
  pct_words' = IF pct_data_rdreq \/ PctRdempty THEN AllOnes
               ELSE IF pct_header_valid THEN Words(inst2_q.size)
               ELSE pct_words

PctRdy == pct_rdy_reg' = (PctRdusedw = pct_words)

FifoClock == ResetSync /\ DataFifo /\ HeaderFifo /\ PctWords /\ PctRdy

-----------------------------------------------------------------------------
PctInit ==
  /\ host = NoWord /\ infifo = <<>> /\ infifo_q = NoWord
  /\ sep_state = "idle" /\ infifo_data_valid = FALSE
  /\ rd_cnt = 0 /\ wr_cnt = 0 /\ rd_cnt_max = 0
  /\ header = NoWord /\ header_valid_reg = FALSE
  /\ rst_sync = 0
  /\ pctFifo = <<>> /\ pct_q = NoWord
  /\ wptr = [i \in Side |-> 0] /\ rptr = [i \in Side |-> 0]
  /\ hdrFifo = [i \in Side |-> NoWord]
  /\ inst2_q = NoWord /\ pct_header_valid = FALSE
  /\ pct_words = AllOnes /\ pct_rdy_reg = FALSE
  /\ pct_data_rdreq = FALSE /\ pct_aclr_n = TRUE

PctClock == SepClock /\ FifoClock /\ UNCHANGED host
=============================================================================
