-------------------------- MODULE OnePctFifoProofs --------------------------
(***************************************************************************)
(* Proofs about OnePctFifo for all values of its constants, as long as no  *)
(* packet is shorter than three words: a two word packet is over before    *)
(* pct_separate_fsm knows its length (with 16 among the SizeFields of      *)
(* OnePctFifo.cfg, TLC finds OnePacketOnly violated).                      *)
(***************************************************************************)
EXTENDS OnePctFifo, TLAPS

NoShortPackets == \A f \in SizeFields \cup {0} : Words(f) >= 3

-----------------------------------------------------------------------------
(***************************************************************************)
(* The inductive invariant.                                                *)
(***************************************************************************)

\* v is the word the host writes after w.
Follows(w, v) ==
  IF PacketEnds(w) THEN v.idx = 1 /\ v.pkt = w.pkt + 1
  ELSE v.idx = w.idx + 1 /\ v.pkt = w.pkt /\ v.size = w.size

\* The stream goes on without a gap from the last word read, through the USB
\* FIFO, to the last word the host wrote.
StreamInv ==
  /\ \A k \in 1 .. Len(infifo) - 1 : Follows(infifo[k], infifo[k + 1])
  /\ IF infifo = <<>> THEN infifo_q = host
     ELSE Follows(infifo_q, infifo[1]) /\ infifo[Len(infifo)] = host

\* rd_cnt is one ahead of wr_cnt while a word is on its way; until the header
\* has passed, the limit is out of reach; afterwards it is the length of the
\* packet that infifo_q belongs to, and infifo_q is its rd_cnt-th word.
SepInv ==
  /\ rd_cnt = wr_cnt + (IF infifo_data_valid THEN 1 ELSE 0)
  /\ sep_state = "idle" => ~infifo_data_valid
  /\ sep_state = "rd_pct" =>
       /\ rd_cnt < rd_cnt_max
       /\ rd_cnt > 0 => infifo_q.idx = rd_cnt
       /\ rd_cnt = 0 => PacketEnds(infifo_q)
       /\ IF wr_cnt = 0 THEN rd_cnt_max = AllOnes ELSE rd_cnt_max = Words(infifo_q.size)

\* The pointers of the packet FIFO agree with what it holds, and an old value
\* of a pointer is never ahead of a newer one.
PtrInv ==
  /\ Len(pctFifo) = wptr[0] - rptr[0]
  /\ \A i, j \in Side : i <= j => wptr[j] <= wptr[i]
  /\ rptr[0] <= wptr[Lag]

IInv == TypeOK /\ StreamInv /\ SepInv /\ StopsAtPacketEnd /\ PtrInv

-----------------------------------------------------------------------------
(***************************************************************************)
(* Words and sequences.                                                    *)
(***************************************************************************)

\* The length of a packet is a positive number within the counters' range.
LEMMA WordsRange ==
  ASSUME NEW f \in SizeFields \cup {0}, NoShortPackets
  PROVE  /\ Words(f) \in Nat /\ Words(f) >= 3
         /\ Words(f) <= MaxPctWords /\ MaxPctWords < AllOnes - 1
         /\ MaxPctWords \in Nat /\ AllOnes \in Nat
<1>1. CASE f = 0
  <2>1. Words(f) = MaxPctWords  BY <1>1 DEF Words
  <2> QED  BY <2>1, ConstantsOK DEF ConstantsOK, NoShortPackets
<1>2. CASE f \in SizeFields
  BY <1>2, ConstantsOK DEF ConstantsOK, NoShortPackets
<1> QED  BY <1>1, <1>2

\* Before the first word the registers hold none.
LEMMA NoWordIsWord == NoWord \in WordSet
BY DEF NoWord, WordSet

\* A word the separator has numbered is not the last one while there is a
\* greater number to come.
LEMMA NotTheEnd ==
  ASSUME NEW w \in WordSet, w.idx > 0, w.idx < Words(w.size)
  PROVE  ~PacketEnds(w)
BY DEF PacketEnds, NoWord, WordSet

-----------------------------------------------------------------------------
(***************************************************************************)
(* The host's step.                                                        *)
(***************************************************************************)

\* The host appends the word that follows its last one.
LEMMA HostWritesNext ==
  ASSUME TypeOK, HostWrite
  PROVE  /\ host' \in WordSet /\ Follows(host, host')
         /\ infifo' = Append(infifo, host') /\ Len(infifo) < InfifoDepth
<1>1. infifo' = Append(infifo, host') /\ Len(infifo) < InfifoDepth
  BY DEF HostWrite
<1>2. host \in WordSet
  BY DEF TypeOK, HostTypeOK
<1>3. CASE PacketEnds(host) /\ \E f \in SizeFields :
             host' = [pkt |-> host.pkt + 1, idx |-> 1, size |-> f]
  BY <1>1, <1>2, <1>3 DEF Follows, WordSet
<1>4. CASE ~PacketEnds(host) /\ host' = [host EXCEPT !.idx = @ + 1]
  BY <1>1, <1>2, <1>4 DEF Follows, WordSet
<1> QED  BY <1>3, <1>4, <1>1 DEF HostWrite

\* So the stream has no gap after the step either.
LEMMA HostKeepsIInv ==
  ASSUME IInv, HostStep
  PROVE  IInv'
<1> USE DEF IInv
<1>1. HostWrite /\ UNCHANGED <<sepVars, fifoVars, pct_data_rdreq, pct_aclr_n, phase, left>>
  BY DEF HostStep
<1>2. /\ host' \in WordSet /\ Follows(host, host')
      /\ infifo' = Append(infifo, host') /\ Len(infifo) < InfifoDepth
  BY <1>1, HostWritesNext
<1>3. infifo \in Seq(WordSet) /\ InfifoDepth \in Nat
  BY ConstantsOK DEF TypeOK, HostTypeOK, ConstantsOK
<1>4. HostTypeOK'
  BY <1>2, <1>3 DEF HostTypeOK
<1>5. SepTypeOK' /\ SepInv' /\ StopsAtPacketEnd'
  BY <1>1 DEF TypeOK, SepTypeOK, SepInv, StopsAtPacketEnd, sepVars, PacketEnds
<1>6. FifoTypeOK' /\ PtrInv'
  BY <1>1 DEF TypeOK, FifoTypeOK, PtrInv, fifoVars
<1>7. ReaderTypeOK'
  BY <1>1 DEF TypeOK, ReaderTypeOK
<1>8. StreamInv'
  <2>1. infifo_q' = infifo_q
    BY <1>1 DEF sepVars
  <2>2. ASSUME NEW k \in 1 .. Len(infifo') - 1
        PROVE  Follows(infifo'[k], infifo'[k + 1])
    <3>1. CASE k < Len(infifo)
      BY <3>1, <1>2, <1>3 DEF StreamInv
    <3>2. CASE k = Len(infifo)
      <4>1. infifo # <<>> /\ infifo'[k] = infifo[k] /\ infifo'[k + 1] = host'
        BY <3>2, <1>2, <1>3
      <4> QED  BY <4>1, <3>2, <1>2 DEF StreamInv
    <3> QED  BY <3>1, <3>2, <1>2, <1>3
  <2>3. infifo' # <<>> /\ infifo'[Len(infifo')] = host'
    BY <1>2, <1>3
  <2>4. Follows(infifo_q, infifo'[1])
    BY <1>2, <1>3 DEF StreamInv
  <2> QED  BY <2>1, <2>2, <2>3, <2>4 DEF StreamInv, Follows, PacketEnds
<1> QED  BY <1>4, <1>5, <1>6, <1>7, <1>8 DEF TypeOK

-----------------------------------------------------------------------------
(***************************************************************************)
(* The clock of pct_separate_fsm.                                          *)
(***************************************************************************)
SepPart == HostTypeOK /\ SepTypeOK /\ StreamInv /\ SepInv /\ StopsAtPacketEnd

\* A read takes the word that follows infifo_q and leaves the stream unbroken.
LEMMA ReadTakesNext ==
  ASSUME SepPart, InfifoRdreq, InfifoRead, UNCHANGED host
  PROVE  /\ infifo_q' \in WordSet /\ Follows(infifo_q, infifo_q')
         /\ HostTypeOK' /\ StreamInv'
<1>1. /\ infifo' = Tail(infifo) /\ infifo_q' = infifo[1]
      /\ infifo # <<>> /\ infifo \in Seq(WordSet) /\ host' = host
  BY DEF InfifoRead, InfifoRdreq, SepPart, HostTypeOK
<1>2. infifo_q' \in WordSet /\ Follows(infifo_q, infifo_q')
  BY <1>1 DEF SepPart, StreamInv
<1>3. HostTypeOK'
  BY <1>1, ConstantsOK DEF SepPart, HostTypeOK, ConstantsOK
<1>4. StreamInv'
  <2>1. ASSUME NEW k \in 1 .. Len(infifo') - 1
        PROVE  Follows(infifo'[k], infifo'[k + 1])
    <3>1. /\ infifo'[k] = infifo[k + 1] /\ infifo'[k + 1] = infifo[k + 2]
          /\ k + 1 \in 1 .. Len(infifo) - 1 /\ (k + 1) + 1 = k + 2
      BY <1>1
    <3> QED  BY <3>1 DEF SepPart, StreamInv
  <2>2. CASE infifo' = <<>>
    <3>0. Len(infifo') = 0 /\ Len(infifo') = Len(infifo) - 1 /\ Len(infifo) \in Nat
      <4>1. Len(Tail(infifo)) = Len(infifo) - 1 /\ Len(infifo) \in Nat
        BY <1>1
      <4> QED  BY <4>1, <1>1, <2>2
    <3>1. Len(infifo) = 1 /\ Len(infifo') = 0
      BY <3>0
    <3>2. infifo_q' = host'
      BY <1>1, <3>1 DEF SepPart, StreamInv
    <3> QED  BY <2>1, <2>2, <3>2 DEF StreamInv, Follows, PacketEnds
  <2>3. CASE infifo' # <<>>
    <3>1. /\ infifo'[1] = infifo[2] /\ infifo'[Len(infifo')] = infifo[Len(infifo)]
          /\ 1 \in 1 .. Len(infifo) - 1 /\ 1 + 1 = 2
      BY <1>1, <2>3
    <3>2. Follows(infifo_q', infifo'[1]) /\ infifo'[Len(infifo')] = host'
      BY <1>1, <3>1 DEF SepPart, StreamInv
    <3> QED  BY <2>1, <2>3, <3>2 DEF StreamInv, Follows, PacketEnds
  <2> QED  BY <2>1, <2>2, <2>3 DEF StreamInv, Follows, PacketEnds
<1> QED  BY <1>2, <1>3, <1>4

\* Without a read the stream stays as it is.
LEMMA NoReadKeepsStream ==
  ASSUME SepPart, ~InfifoRdreq, InfifoRead, UNCHANGED host
  PROVE  infifo_q' = infifo_q /\ HostTypeOK' /\ StreamInv'
<1>1. infifo' = infifo /\ infifo_q' = infifo_q /\ host' = host
  BY DEF InfifoRead
<1> QED  BY <1>1 DEF SepPart, HostTypeOK, StreamInv, Follows, PacketEnds

\* While pct_separate_fsm reads, the next word of the stream is the one its
\* counter expects: the first word of a packet when the counter is 0, otherwise
\* the next word of the same packet.
LEMMA NextWordNumbered ==
  ASSUME NoShortPackets, SepPart, sep_state = "rd_pct",
         NEW v \in WordSet, Follows(infifo_q, v)
  PROVE  v.idx = rd_cnt + 1 /\ (rd_cnt > 0 => v.size = infifo_q.size)
<1>1. infifo_q \in WordSet /\ rd_cnt \in Nat /\ wr_cnt \in Nat
  BY DEF SepPart, SepTypeOK
<1>2. CASE rd_cnt = 0
  BY <1>2, <1>1 DEF SepPart, SepInv, Follows
<1>3. CASE rd_cnt > 0
  <2>1. infifo_q.size \in SizeFields \cup {0}
    BY <1>1 DEF WordSet
  <2>2. Words(infifo_q.size) \in Nat /\ Words(infifo_q.size) >= 3
    BY <2>1, WordsRange
  <2>3. infifo_q.idx = rd_cnt
    BY <1>3 DEF SepPart, SepInv
  <2>4. rd_cnt < Words(infifo_q.size)
    BY <1>1, <2>2 DEF SepPart, SepInv
  <2>5. ~PacketEnds(infifo_q)
    BY <1>1, <1>3, <2>3, <2>4, NotTheEnd
  <2> QED  BY <2>3, <2>5 DEF Follows
<1> QED  BY <1>1, <1>2, <1>3

\* The counters while pct_separate_fsm reads: a limit other than all ones is the
\* length of the packet being read, and the all ones limit is far away.
LEMMA LimitIsLength ==
  ASSUME NoShortPackets, SepPart, sep_state = "rd_pct"
  PROVE  /\ rd_cnt \in Nat /\ wr_cnt \in Nat
         /\ Words(infifo_q.size) \in Nat /\ Words(infifo_q.size) >= 3
         /\ Words(infifo_q.size) <= MaxPctWords
         /\ rd_cnt < rd_cnt_max /\ rd_cnt_max \in Nat
         /\ rd_cnt + 1 <= MaxPctWords
         /\ wr_cnt = 0 => rd_cnt_max = AllOnes /\ rd_cnt <= 1 /\ rd_cnt + 2 < AllOnes
         /\ wr_cnt > 0 => rd_cnt_max = Words(infifo_q.size) /\ rd_cnt > 0
<1>1. /\ infifo_q.size \in SizeFields \cup {0} /\ rd_cnt \in Nat /\ wr_cnt \in Nat
      /\ rd_cnt_max \in 0 .. AllOnes
  BY DEF SepPart, SepTypeOK, WordSet
<1>2. /\ Words(infifo_q.size) \in Nat /\ Words(infifo_q.size) >= 3
      /\ Words(infifo_q.size) <= MaxPctWords /\ MaxPctWords < AllOnes - 1
      /\ MaxPctWords \in Nat /\ AllOnes \in Nat
  BY <1>1, WordsRange
<1> QED  BY <1>1, <1>2 DEF SepPart, SepInv

\* A clock in which pct_separate_fsm reads a word.
LEMMA ReadClock ==
  ASSUME NoShortPackets, SepPart, SepClock, UNCHANGED host, InfifoRdreq
  PROVE  SepPart'
<1>1. /\ infifo_q' \in WordSet /\ Follows(infifo_q, infifo_q')
      /\ HostTypeOK' /\ StreamInv'
  BY ReadTakesNext DEF SepClock
<1>2. sep_state = "rd_pct" /\ infifo # <<>>
  BY DEF InfifoRdreq
<1>3. infifo_q'.idx = rd_cnt + 1 /\ (rd_cnt > 0 => infifo_q'.size = infifo_q.size)
  BY <1>1, <1>2, NextWordNumbered
<1> DEFINE W == Words(infifo_q.size)
<1>4. /\ rd_cnt \in Nat /\ wr_cnt \in Nat
      /\ W \in Nat /\ W >= 3 /\ W <= MaxPctWords
      /\ rd_cnt < rd_cnt_max /\ rd_cnt_max \in Nat
      /\ rd_cnt + 1 <= MaxPctWords
      /\ wr_cnt = 0 => rd_cnt_max = AllOnes /\ rd_cnt <= 1 /\ rd_cnt + 2 < AllOnes
      /\ wr_cnt > 0 => rd_cnt_max = W /\ rd_cnt > 0
  BY <1>2, LimitIsLength
<1>5. MaxPctWords \in Nat /\ AllOnes \in Nat /\ MaxPctWords < AllOnes
  BY ConstantsOK DEF ConstantsOK
<1>6. /\ rd_cnt' = rd_cnt + 1 /\ infifo_data_valid' = TRUE
      /\ wr_cnt' = IF infifo_data_valid THEN wr_cnt + 1 ELSE wr_cnt
      /\ rd_cnt_max' = IF HeaderHere THEN W ELSE rd_cnt_max
      /\ sep_state' = IF rd_cnt < rd_cnt_max - 1 THEN "rd_pct" ELSE "rd_done"
      /\ header_valid_reg' = HeaderHere
      /\ header' = IF HeaderHere THEN infifo_q ELSE header
  BY <1>2, <1>4 DEF SepClock, SepFsm, SepIdle, SepRdPct, SepRdDone, InfifoRead,
                    InfifoRdreq, RdCnt, WrCnt, RdCntMax, HdrCap
<1>7. /\ rd_cnt = wr_cnt + (IF infifo_data_valid THEN 1 ELSE 0)
      /\ infifo_data_valid \in BOOLEAN /\ infifo_q \in WordSet /\ header \in WordSet
      /\ rd_cnt_max \in 0 .. AllOnes
  BY DEF SepPart, SepInv, SepTypeOK
<1>8. SepTypeOK'
  <2>1. infifo_q' \in WordSet /\ header' \in WordSet /\ sep_state' \in {"idle", "rd_pct", "rd_done"}
    BY <1>1, <1>6, <1>7
  <2>2. rd_cnt' \in 0 .. MaxPctWords /\ wr_cnt' \in 0 .. MaxPctWords
    BY <1>4, <1>5, <1>6, <1>7
  <2>3. rd_cnt_max' \in 0 .. AllOnes
    BY <1>4, <1>5, <1>6, <1>7
  <2>4. infifo_data_valid' \in BOOLEAN /\ header_valid_reg' \in BOOLEAN
    BY <1>6, <1>7 DEF HeaderHere
  <2> QED  BY <2>1, <2>2, <2>3, <2>4 DEF SepTypeOK
<1>9. ASSUME wr_cnt' > 0
      PROVE  rd_cnt_max' = Words(infifo_q'.size) /\ rd_cnt > 0
  <2>1. rd_cnt > 0
    BY <1>4, <1>6, <1>7, <1>9
  <2>2. Words(infifo_q'.size) = W
    BY <2>1, <1>3
  <2>3. rd_cnt_max' = W
    BY <1>4, <1>6, <1>7, <1>9 DEF HeaderHere
  <2> QED  BY <2>1, <2>2, <2>3
<1>10. SepInv'
  <2>1. rd_cnt' = wr_cnt' + (IF infifo_data_valid' THEN 1 ELSE 0)
    BY <1>4, <1>6, <1>7
  <2>2. sep_state' # "idle" /\ rd_cnt' > 0
    BY <1>4, <1>6
  <2>3. infifo_q'.idx = rd_cnt'
    BY <1>3, <1>6
  <2>4. sep_state' = "rd_pct" => rd_cnt' < rd_cnt_max'
    BY <1>4, <1>6, <1>7 DEF HeaderHere
  <2>5. IF wr_cnt' = 0 THEN rd_cnt_max' = AllOnes ELSE rd_cnt_max' = Words(infifo_q'.size)
    <3>1. CASE wr_cnt' = 0
      BY <3>1, <1>4, <1>6, <1>7 DEF HeaderHere
    <3>2. CASE wr_cnt' # 0
      BY <3>2, <1>4, <1>6, <1>9
    <3> QED  BY <3>1, <3>2
  <2> QED  BY <2>1, <2>2, <2>3, <2>4, <2>5 DEF SepInv
<1>11. StopsAtPacketEnd'
  <2>1. SUFFICES ASSUME sep_state' = "rd_done"
                 PROVE  PacketEnds(infifo_q)'
    BY <1>6 DEF StopsAtPacketEnd
  <2>2. rd_cnt + 1 = rd_cnt_max
    BY <2>1, <1>4, <1>6
  <2>3. wr_cnt > 0 /\ rd_cnt + 1 = W
    BY <2>2, <1>4
  <2>4. infifo_q'.idx = Words(infifo_q'.size)
    BY <2>3, <1>3, <1>4
  <2> QED  BY <2>4 DEF PacketEnds
<1> QED  BY <1>1, <1>8, <1>10, <1>11 DEF SepPart

\* A clock in which it reads nothing: it waits, or the USB FIFO is empty.
LEMMA IdleClock ==
  ASSUME NoShortPackets, SepPart, SepClock, UNCHANGED host, ~InfifoRdreq
  PROVE  SepPart'
<1>1. infifo_q' = infifo_q /\ HostTypeOK' /\ StreamInv' /\ infifo_data_valid' = FALSE
  BY NoReadKeepsStream DEF SepClock, InfifoRead
<1>2. /\ infifo_q \in WordSet /\ header \in WordSet
      /\ rd_cnt \in 0 .. MaxPctWords /\ wr_cnt \in 0 .. MaxPctWords
      /\ rd_cnt_max \in 0 .. AllOnes
      /\ infifo_data_valid \in BOOLEAN
      /\ sep_state \in {"idle", "rd_pct", "rd_done"}
      /\ rd_cnt = wr_cnt + (IF infifo_data_valid THEN 1 ELSE 0)
      /\ sep_state = "idle" => ~infifo_data_valid
      /\ sep_state # "rd_pct" => PacketEnds(infifo_q)
  BY DEF SepPart, SepTypeOK, SepInv, StopsAtPacketEnd
<1>3. MaxPctWords \in Nat /\ AllOnes \in Nat /\ MaxPctWords + 1 < AllOnes
  BY ConstantsOK DEF ConstantsOK
<1>4. /\ header_valid_reg' = HeaderHere
      /\ header' = IF HeaderHere THEN infifo_q ELSE header
  BY DEF SepClock, HdrCap
<1>5. header' \in WordSet /\ header_valid_reg' \in BOOLEAN /\ infifo_data_valid' \in BOOLEAN
      /\ infifo_q' \in WordSet
  BY <1>1, <1>2, <1>4 DEF HeaderHere
<1>6. PacketEnds(infifo_q)' <=> PacketEnds(infifo_q)
  BY <1>1 DEF PacketEnds
<1>7. CASE sep_state = "idle"
  <2>1. rd_cnt' = 0 /\ wr_cnt' = 0 /\ rd_cnt_max' = AllOnes
        /\ sep_state' \in {"idle", "rd_pct"}
    BY <1>7 DEF SepClock, SepFsm, SepIdle, SepRdPct, SepRdDone, RdCnt, WrCnt, RdCntMax
  <2>2. SepTypeOK'
    BY <2>1, <1>3, <1>5 DEF SepTypeOK
  <2>3. SepInv' /\ StopsAtPacketEnd'
    BY <2>1, <1>1, <1>2, <1>3, <1>6, <1>7 DEF SepInv, StopsAtPacketEnd
  <2> QED  BY <2>2, <2>3, <1>1 DEF SepPart
<1>8. CASE sep_state = "rd_done"
  <2>1. /\ rd_cnt' = rd_cnt /\ sep_state' \in {"idle", "rd_done"}
        /\ wr_cnt' = IF infifo_data_valid THEN wr_cnt + 1 ELSE wr_cnt
        /\ rd_cnt_max' = IF HeaderHere THEN Words(infifo_q.size) ELSE rd_cnt_max
    BY <1>8 DEF SepClock, SepFsm, SepIdle, SepRdPct, SepRdDone, RdCnt, WrCnt, RdCntMax,
                InfifoRdreq
  <2>2. infifo_q.size \in SizeFields \cup {0}
    BY <1>2 DEF WordSet
  <2>3. Words(infifo_q.size) \in 0 .. AllOnes
    BY <2>2, WordsRange
  <2>4. wr_cnt' = rd_cnt /\ rd_cnt_max' \in 0 .. AllOnes
    BY <2>1, <2>3, <1>2
  <2>5. SepTypeOK'
    BY <2>1, <2>4, <1>2, <1>5 DEF SepTypeOK
  <2>6. SepInv' /\ StopsAtPacketEnd'
    BY <2>1, <2>4, <1>1, <1>2, <1>6, <1>8 DEF SepInv, StopsAtPacketEnd
  <2> QED  BY <2>5, <2>6, <1>1 DEF SepPart
<1>9. CASE sep_state = "rd_pct"
  <2> DEFINE W == Words(infifo_q.size)
  <2>1. /\ rd_cnt \in Nat /\ wr_cnt \in Nat
        /\ W \in Nat /\ W >= 3 /\ W <= MaxPctWords
        /\ rd_cnt < rd_cnt_max /\ rd_cnt_max \in Nat
        /\ rd_cnt + 1 <= MaxPctWords
        /\ wr_cnt = 0 => rd_cnt_max = AllOnes /\ rd_cnt <= 1 /\ rd_cnt + 2 < AllOnes
        /\ wr_cnt > 0 => rd_cnt_max = W /\ rd_cnt > 0
    BY <1>9, LimitIsLength
  <2>2. /\ rd_cnt' = rd_cnt
        /\ wr_cnt' = IF infifo_data_valid THEN wr_cnt + 1 ELSE wr_cnt
        /\ rd_cnt_max' = IF HeaderHere THEN W ELSE rd_cnt_max
    BY <1>9 DEF SepClock, RdCnt, WrCnt, RdCntMax, InfifoRdreq
  <2>3. infifo = <<>>
    BY <1>9 DEF InfifoRdreq
  <2>4. sep_state' = "rd_pct"
    BY <2>1, <2>3, <1>9 DEF SepClock, SepFsm, SepIdle, SepRdPct, SepRdDone
  <2>5. wr_cnt' = rd_cnt /\ rd_cnt_max' \in 0 .. AllOnes /\ rd_cnt < rd_cnt_max'
    BY <2>1, <2>2, <1>2, <1>3 DEF HeaderHere
  <2>6. SepTypeOK'
    BY <2>2, <2>4, <2>5, <1>2, <1>5 DEF SepTypeOK
  <2>7. /\ rd_cnt > 0 => infifo_q.idx = rd_cnt
        /\ rd_cnt = 0 => PacketEnds(infifo_q)
    BY <1>9 DEF SepPart, SepInv
  <2>8. IF wr_cnt' = 0 THEN rd_cnt_max' = AllOnes ELSE rd_cnt_max' = Words(infifo_q'.size)
    BY <2>1, <2>2, <2>5, <1>1, <1>2 DEF HeaderHere
  <2>9. SepInv'
    BY <2>2, <2>4, <2>5, <2>7, <2>8, <1>1, <1>2, <1>6 DEF SepInv
  <2> QED  BY <2>4, <2>6, <2>9, <1>1 DEF SepPart, StopsAtPacketEnd
<1> QED  BY <1>2, <1>7, <1>8, <1>9

-----------------------------------------------------------------------------
(***************************************************************************)
(* The clock of one_pct_fifo.                                              *)
(***************************************************************************)
FifoPart == FifoTypeOK /\ PtrInv

\* The delayed pointers are between rptr[0] and wptr[0], so the fill level the
\* read side computes is a number, and it never exceeds what the FIFO holds.
LEMMA FillLevel ==
  ASSUME FifoPart
  PROVE  PctRdusedw \in Nat /\ PctRdusedw <= Len(pctFifo)
<1>1. /\ Lag \in Nat /\ 0 \in Side /\ Lag \in Side
  BY ConstantsOK DEF ConstantsOK, Side
<1>2. wptr[0] \in Nat /\ wptr[Lag] \in Nat /\ rptr[0] \in Nat
  BY <1>1 DEF FifoPart, FifoTypeOK
<1>3. wptr[Lag] <= wptr[0] /\ rptr[0] <= wptr[Lag] /\ Len(pctFifo) = wptr[0] - rptr[0]
  BY <1>1 DEF FifoPart, PtrInv
<1> QED  BY <1>2, <1>3 DEF PctRdusedw

\* A read that is not blocked finds a word, and the pointers stay in order.
LEMMA DataFifoStep ==
  ASSUME FifoPart, SepTypeOK, DataFifo
  PROVE  /\ pctFifo' \in Seq(WordSet) /\ pct_q' \in WordSet
         /\ wptr' \in [Side -> Nat] /\ rptr' \in [Side -> Nat]
         /\ PtrInv'
<1>1. /\ Lag \in Nat /\ 0 \in Side /\ Lag \in Side
      /\ \A i \in Side : i # 0 => i - 1 \in Side
      /\ \A i \in Side : i \in Nat /\ i <= Lag
  BY ConstantsOK DEF ConstantsOK, Side
<1>2. /\ wptr \in [Side -> Nat] /\ rptr \in [Side -> Nat]
      /\ pctFifo \in Seq(WordSet) /\ pct_q \in WordSet
      /\ Len(pctFifo) = wptr[0] - rptr[0] /\ rptr[0] <= wptr[Lag]
      /\ \A i, j \in Side : i <= j => wptr[j] <= wptr[i]
  BY DEF FifoPart, FifoTypeOK, PtrInv
<1>3. infifo_q \in WordSet /\ infifo_data_valid \in BOOLEAN
  BY DEF SepTypeOK
<1>4. PctRead => pctFifo # <<>> /\ rptr[0] < wptr[Lag]
  <2>1. PctRead => PctRdusedw # 0
    BY DEF PctRead, PctRdempty
  <2>2. PctRead => rptr[0] < wptr[Lag] /\ Len(pctFifo) > 0
    BY <2>1, FillLevel, <1>1, <1>2 DEF PctRdusedw
  <2> QED  BY <2>2, <1>2
<1>5. pct_q' \in WordSet
  BY <1>2, <1>4 DEF DataFifo
<1>6. CASE ~Inst1ResetN
  BY <1>1, <1>5, <1>6 DEF DataFifo, PtrInv
<1>7. CASE Inst1ResetN
  <2> DEFINE kept == IF PctRead THEN Tail(pctFifo) ELSE pctFifo
             come == IF infifo_data_valid THEN <<infifo_q>> ELSE <<>>
  <2>1. /\ pctFifo' = kept \o come
        /\ wptr' = Shift(wptr, infifo_data_valid) /\ rptr' = Shift(rptr, PctRead)
    BY <1>7 DEF DataFifo
  <2>2. /\ kept \in Seq(WordSet)
        /\ Len(kept) = Len(pctFifo) - (IF PctRead THEN 1 ELSE 0)
    <3>1. CASE PctRead
      <4>1. Tail(pctFifo) \in Seq(WordSet) /\ Len(Tail(pctFifo)) = Len(pctFifo) - 1
        BY <3>1, <1>2, <1>4
      <4> QED  BY <3>1, <4>1
    <3>2. CASE ~PctRead
      BY <3>2, <1>2
    <3> QED  BY <3>1, <3>2
  <2>3. /\ come \in Seq(WordSet)
        /\ Len(come) = IF infifo_data_valid THEN 1 ELSE 0
    <3>1. CASE infifo_data_valid
      BY <3>1, <1>3
    <3>2. CASE ~infifo_data_valid
      BY <3>2
    <3> QED  BY <3>1, <3>2
  <2>4. /\ pctFifo' \in Seq(WordSet)
        /\ Len(pctFifo') = Len(kept) + Len(come)
    <3> HIDE DEF kept, come
    <3> QED  BY <2>1, <2>2, <2>3
  <2>5. /\ wptr' \in [Side -> Nat] /\ rptr' \in [Side -> Nat]
        /\ wptr'[0] = wptr[0] + (IF infifo_data_valid THEN 1 ELSE 0)
        /\ rptr'[0] = rptr[0] + (IF PctRead THEN 1 ELSE 0)
        /\ \A i \in Side : i # 0 => wptr'[i] = wptr[i - 1]
    <3>1. wptr \in [Side -> Nat] /\ rptr \in [Side -> Nat]
      BY <1>2
    <3>2. /\ wptr' \in [Side -> Nat]
          /\ wptr'[0] = wptr[0] + (IF infifo_data_valid THEN 1 ELSE 0)
          /\ \A i \in Side : i # 0 => wptr'[i] = wptr[i - 1]
      BY <2>1, <3>1, <1>1 DEF Shift
    <3>3. /\ rptr' \in [Side -> Nat]
          /\ rptr'[0] = rptr[0] + (IF PctRead THEN 1 ELSE 0)
      BY <2>1, <3>1, <1>1 DEF Shift
    <3> QED  BY <3>2, <3>3
  <2>6. Len(pctFifo') = wptr'[0] - rptr'[0]
    <3>1. wptr[0] \in Nat /\ rptr[0] \in Nat /\ Len(pctFifo) = wptr[0] - rptr[0]
      BY <1>1, <1>2
    <3> DEFINE in == IF infifo_data_valid THEN 1 ELSE 0
               out == IF PctRead THEN 1 ELSE 0
    <3>2. Len(kept) = Len(pctFifo) - out /\ Len(come) = in /\ in \in Nat /\ out \in Nat
      BY <2>2, <2>3
    <3>3. Len(pctFifo') = Len(kept) + Len(come)
      BY <2>4
    <3>4. wptr'[0] = wptr[0] + in /\ rptr'[0] = rptr[0] + out
      BY <2>5
    <3> HIDE DEF kept, come, in, out
    <3> QED  BY <3>1, <3>2, <3>3, <3>4
  <2>7. ASSUME NEW i \in Side, NEW j \in Side, i <= j
        PROVE  wptr'[j] <= wptr'[i]
    <3>1. CASE j = 0
      BY <3>1, <2>5, <2>7, <1>1
    <3>2. CASE i = 0 /\ j # 0
      <4>1. wptr'[j] = wptr[j - 1] /\ wptr[j - 1] <= wptr[0]
        BY <3>2, <2>5, <1>1, <1>2
      <4>2. wptr[0] \in Nat /\ wptr[j - 1] \in Nat
        BY <3>2, <1>1, <1>2
      <4> QED  BY <4>1, <4>2, <3>2, <2>5
    <3>3. CASE i # 0 /\ j # 0
      <4>1. i - 1 \in Side /\ j - 1 \in Side /\ i - 1 <= j - 1
        BY <3>3, <2>7, <1>1
      <4> QED  BY <4>1, <3>3, <2>5, <1>2
    <3> QED  BY <3>1, <3>2, <3>3, <2>7, <1>1
  <2>8. wptr[Lag] <= wptr'[Lag]
    <3>1. CASE Lag = 0
      BY <3>1, <2>5, <1>1, <1>2
    <3>2. CASE Lag # 0
      <4>1. wptr'[Lag] = wptr[Lag - 1] /\ Lag - 1 \in Side /\ Lag - 1 <= Lag
        BY <3>2, <2>5, <1>1
      <4> QED  BY <4>1, <1>1, <1>2
    <3> QED  BY <3>1, <3>2
  <2>9. rptr'[0] <= wptr'[Lag]
    <3>1. /\ rptr[0] \in Nat /\ wptr[Lag] \in Nat /\ wptr'[Lag] \in Nat
      BY <1>1, <1>2, <2>5
    <3> QED  BY <3>1, <1>2, <1>4, <2>5, <2>8
  <2> QED  BY <1>5, <2>4, <2>5, <2>6, <2>7, <2>9 DEF PtrInv
<1> QED  BY <1>6, <1>7

\* The registers around the data FIFO keep their types.
LEMMA FifoStep ==
  ASSUME NoShortPackets, FifoPart, SepTypeOK, FifoClock
  PROVE  FifoPart'
<1>1. /\ pctFifo' \in Seq(WordSet) /\ pct_q' \in WordSet
      /\ wptr' \in [Side -> Nat] /\ rptr' \in [Side -> Nat]
      /\ PtrInv'
  BY DataFifoStep DEF FifoClock
<1>2. rst_sync' \in 0 .. SyncStages
  BY DEF FifoClock, ResetSync, FifoPart, FifoTypeOK, SyncStages
<1>3. /\ Lag \in Nat /\ Lag \in Side
      /\ \A i \in Side : i > 0 => i - 1 \in Side
  BY ConstantsOK DEF ConstantsOK, Side
<1>4. /\ hdrFifo \in [Side -> WordSet] /\ inst2_q \in WordSet /\ header \in WordSet
      /\ pct_words \in 0 .. AllOnes
  BY DEF FifoPart, FifoTypeOK, SepTypeOK
<1>5. hdrFifo' \in [Side -> WordSet] /\ inst2_q' \in WordSet
  BY <1>3, <1>4, NoWordIsWord DEF FifoClock, HeaderFifo
<1>6. pct_words' \in 0 .. AllOnes
  <2>1. inst2_q.size \in SizeFields \cup {0}
    BY <1>4 DEF WordSet
  <2>2. Words(inst2_q.size) \in 0 .. AllOnes /\ AllOnes \in Nat
    BY <2>1, WordsRange
  <2> QED  BY <2>2, <1>4 DEF FifoClock, PctWords
<1>7. pct_header_valid' \in BOOLEAN /\ pct_rdy_reg' \in BOOLEAN
  BY DEF FifoClock, HeaderFifo, HdrRdreq, Inst1ResetN, PctRdy
<1> QED  BY <1>1, <1>2, <1>5, <1>6, <1>7 DEF FifoPart, FifoTypeOK

-----------------------------------------------------------------------------
(***************************************************************************)
(* The reader's clock.                                                     *)
(***************************************************************************)

\* The number of words left to read is bounded by the length in the header.
LEMMA ReaderStep ==
  ASSUME NoShortPackets, ReaderTypeOK, FifoTypeOK, Reader
  PROVE  ReaderTypeOK'
<1>1. phase \in {"idle", "hdr", "hold", "read", "clr"} /\ left \in 0 .. MaxPctWords
  BY DEF ReaderTypeOK
<1>2. pct_q.size \in SizeFields \cup {0}
  BY DEF FifoTypeOK, WordSet
<1>3. /\ Words(pct_q.size) \in Nat /\ Words(pct_q.size) <= MaxPctWords
      /\ MaxPctWords \in Nat
  BY <1>2, WordsRange
<1>4. ASSUME NEW p \in {"idle", "hdr", "hold", "read", "clr"}, NEW l \in 0 .. MaxPctWords,
             Drive(p, l)
      PROVE  ReaderTypeOK'
  BY <1>4 DEF Drive, ReaderTypeOK
<1>5. 0 \in 0 .. MaxPctWords
  BY <1>3
<1>6. CASE WaitPacket
  BY <1>1, <1>4, <1>6 DEF WaitPacket
<1>7. CASE StartPacket \/ ReadHeader \/ DropPacket \/ Cleared
  BY <1>4, <1>5, <1>7 DEF StartPacket, ReadHeader, DropPacket, Cleared
<1>8. CASE TakePacket
  <2>1. CASE Words(pct_q.size) > 1
    <3>1. Words(pct_q.size) - 1 \in 0 .. MaxPctWords
      BY <2>1, <1>3
    <3>2. Drive("read", Words(pct_q.size) - 1)
      BY <1>8, <2>1 DEF TakePacket
    <3> QED  BY <3>1, <3>2, <1>4
  <2>2. CASE ~(Words(pct_q.size) > 1)
    BY <1>4, <1>5, <1>8, <2>2 DEF TakePacket
  <2> QED  BY <2>1, <2>2
<1>9. CASE ReadWord
  <2>1. CASE left > 1
    <3>1. left - 1 \in 0 .. MaxPctWords
      BY <2>1, <1>1, <1>3
    <3>2. Drive("read", left - 1)
      BY <1>9, <2>1 DEF ReadWord
    <3> QED  BY <3>1, <3>2, <1>4
  <2>2. CASE ~(left > 1)
    BY <1>4, <1>5, <1>9, <2>2 DEF ReadWord
  <2> QED  BY <2>1, <2>2
<1> QED  BY <1>6, <1>7, <1>8, <1>9 DEF Reader, ReaderMoves

-----------------------------------------------------------------------------
(***************************************************************************)
(* The inductive invariant and what it implies.                            *)
(***************************************************************************)

\* The reset state satisfies the inductive invariant.
LEMMA InitIInv ==
  ASSUME NoShortPackets, Init
  PROVE  IInv
<1>1. /\ MaxPctWords \in Nat /\ AllOnes \in Nat /\ InfifoDepth \in Nat
      /\ Lag \in Nat /\ 0 \in Side /\ Lag \in Side
  BY ConstantsOK DEF ConstantsOK, Side
<1>2. HostTypeOK /\ SepTypeOK /\ ReaderTypeOK
  BY <1>1, NoWordIsWord DEF Init, PctInit, HostTypeOK, SepTypeOK, ReaderTypeOK
<1>3. FifoTypeOK
  BY <1>1, NoWordIsWord DEF Init, PctInit, FifoTypeOK, SyncStages
<1>4. StreamInv
  BY DEF Init, PctInit, StreamInv
<1>5. SepInv /\ StopsAtPacketEnd
  BY DEF Init, PctInit, SepInv, StopsAtPacketEnd, PacketEnds
<1>6. PtrInv
  BY <1>1 DEF Init, PctInit, PtrInv
<1> QED  BY <1>2, <1>3, <1>4, <1>5, <1>6 DEF IInv, TypeOK

\* A clock edge preserves it: each part of the clock its own conjuncts.
LEMMA ClockKeepsIInv ==
  ASSUME NoShortPackets, IInv, Clock
  PROVE  IInv'
<1>1. SepPart /\ FifoPart /\ ReaderTypeOK /\ SepTypeOK /\ FifoTypeOK
  BY DEF IInv, TypeOK, SepPart, FifoPart
<1>2. SepClock /\ FifoClock /\ Reader /\ UNCHANGED host
  BY DEF Clock, PctClock
<1>3. SepPart'
  <2>1. CASE InfifoRdreq
    BY <2>1, <1>1, <1>2, ReadClock
  <2>2. CASE ~InfifoRdreq
    BY <2>2, <1>1, <1>2, IdleClock
  <2> QED  BY <2>1, <2>2
<1>4. FifoPart'
  BY <1>1, <1>2, FifoStep
<1>5. ReaderTypeOK'
  BY <1>1, <1>2, ReaderStep
<1> QED  BY <1>3, <1>4, <1>5 DEF IInv, TypeOK, SepPart, FifoPart

\* The inductive invariant holds in every state: the stream is unbroken, the
\* counters of pct_separate_fsm number its words, the pointers of the FIFO are
\* in order.
THEOREM Invariance ==
  ASSUME NoShortPackets
  PROVE  Spec => []IInv
<1>1. Init => IInv
  BY InitIInv
<1>2. IInv /\ [Next]_vars => IInv'
  <2> SUFFICES ASSUME IInv, [Next]_vars
               PROVE  IInv'
    OBVIOUS
  <2>1. CASE HostStep
    BY <2>1, HostKeepsIInv
  <2>2. CASE Clock
    BY <2>2, ClockKeepsIInv
  <2>3. CASE UNCHANGED vars
    <3>1. /\ UNCHANGED hostVars /\ UNCHANGED sepVars /\ UNCHANGED fifoVars
          /\ UNCHANGED <<pct_data_rdreq, pct_aclr_n, phase, left>>
      BY <2>3 DEF vars
    <3>2. TypeOK'
      BY <3>1 DEF IInv, TypeOK, HostTypeOK, SepTypeOK, FifoTypeOK, ReaderTypeOK,
                  hostVars, sepVars, fifoVars
    <3>3. StreamInv' /\ SepInv' /\ StopsAtPacketEnd' /\ PtrInv'
      BY <3>1 DEF IInv, StreamInv, Follows, PacketEnds, SepInv, StopsAtPacketEnd, PtrInv,
                  hostVars, sepVars, fifoVars
    <3> QED  BY <3>2, <3>3 DEF IInv
  <2> QED  BY <2>1, <2>2, <2>3 DEF Next
<1> QED  BY <1>1, <1>2, PTL DEF Spec

\* The counters, FIFOs and pointers of the packet separator stay in their
\* ranges, whatever sizes (of three words or more) the packets have and whenever
\* the host and the reader move.
THEOREM TypeCorrect ==
  ASSUME NoShortPackets
  PROVE  Spec => []TypeOK
<1>1. IInv => TypeOK
  BY DEF IInv
<1> QED  BY <1>1, Invariance, PTL

\* pct_separate_fsm stops reading exactly at the end of a packet, for every
\* packet length of at least three words and every pause of the stream.
THEOREM StopsAtTheEnd ==
  ASSUME NoShortPackets
  PROVE  Spec => []StopsAtPacketEnd
<1>1. IInv => StopsAtPacketEnd
  BY DEF IInv
<1> QED  BY <1>1, Invariance, PTL

-----------------------------------------------------------------------------
(***************************************************************************)
(* That one_pct_fifo stores one packet at a time, whole, and announces it  *)
(* when it is.                                                             *)
(*                                                                         *)
(* The invariant is about the packet that infifo_q belongs to: how much of *)
(* it the reader has taken, how much is in the FIFO, where its header is   *)
(* on the way to pct_words, and in which phase of the reader which of      *)
(* these can be.                                                           *)
(***************************************************************************)
\* pct_separate_fsm has taken a word of the packet.
Started == sep_state # "idle" /\ rd_cnt > 0

\* The reader has taken the packet's header, and Taken words in all.
HeaderTaken == pct_q.pkt = infifo_q.pkt
Taken == IF HeaderTaken THEN pct_q.idx ELSE 0

\* No header is on its way to pct_words.
HdrFifoEmpty == \A i \in Side : hdrFifo[i] = NoWord
NoToken == ~header_valid_reg /\ ~pct_header_valid /\ HdrFifoEmpty

DriveInv == /\ pct_data_rdreq <=> phase \in {"hdr", "read"}
            /\ pct_aclr_n <=> phase # "clr"

RptrInv == \A i \in Side : rptr[i] <= rptr[0]

DoneInv == sep_state = "rd_done" => infifo_q.idx = rd_cnt /\ rd_cnt = Words(infifo_q.size)

\* What the reader has taken and what the FIFO holds make up what was written.
HeldWord(k) == [pkt |-> infifo_q.pkt, idx |-> Taken + k, size |-> infifo_q.size]
ContentInv ==
  /\ Started =>
       /\ \/ pct_q.pkt = infifo_q.pkt /\ pct_q.size = infifo_q.size
          \/ pct_q.pkt + 1 = infifo_q.pkt
       /\ wr_cnt = Taken + Len(pctFifo)
       /\ \A k \in 1 .. Len(pctFifo) : pctFifo[k] = HeldWord(k)
  /\ ~Started => pctFifo = <<>> /\ HeaderTaken

\* From the header to the last word, and while it clears, the reader has a
\* packet that is complete, and pct_separate_fsm waits.
ReadInv ==
  phase # "idle" =>
    /\ sep_state = "rd_done" /\ rd_cnt > 0 /\ ~infifo_data_valid
    /\ rst_sync = SyncStages /\ wptr[Lag] = wptr[0] /\ NoToken
    /\ phase = "hdr" => ~HeaderTaken
    /\ phase # "hdr" => HeaderTaken /\ pct_words = AllOnes
    /\ phase = "hold" => pct_q.idx = 1
    /\ phase = "read" => left = Len(pctFifo) /\ left > 0

\* While the reader waits: of a packet it has begun nothing is left; the packet
\* announced is complete; in a reset nothing is on its way to the FIFO.
IdleInv ==
  phase = "idle" =>
    /\ Started /\ HeaderTaken => sep_state = "rd_done" /\ ~infifo_data_valid /\ pctFifo = <<>>
    /\ pct_rdy_reg =>
         /\ Started /\ ~HeaderTaken /\ NoToken
         /\ Len(pctFifo) = Words(infifo_q.size) /\ wptr[Lag] = wptr[0]
    /\ rst_sync < SyncStages =>
         /\ ~infifo_data_valid
         /\ sep_state = "idle" \/ (sep_state = "rd_pct" /\ rd_cnt = 0 /\ rst_sync = 1)

\* pct_words is the length of the packet in the FIFO, or all ones; its header is
\* in at most one of the registers and places of the header FIFO before that.
Unannounced == ~Started \/ wr_cnt = 0 \/ HeaderTaken
TokenInv ==
  /\ Unannounced => NoToken
  /\ Unannounced /\ phase # "hdr" => pct_words = AllOnes
  /\ pct_words # AllOnes => NoToken /\ pct_words = Words(infifo_q.size)
  /\ header_valid_reg => header.size = infifo_q.size /\ ~pct_header_valid /\ HdrFifoEmpty
  /\ pct_header_valid => inst2_q.size = infifo_q.size /\ HdrFifoEmpty
  /\ \A i \in Side : hdrFifo[i] # NoWord =>
       hdrFifo[i].size = infifo_q.size /\ \A j \in Side : j # i => hdrFifo[j] = NoWord

WInv ==
  /\ IInv /\ DriveInv /\ RptrInv /\ DoneInv /\ ContentInv /\ ReadInv /\ IdleInv /\ TokenInv

-----------------------------------------------------------------------------
(***************************************************************************)
(* The invariant implies the properties.                                   *)
(***************************************************************************)

\* Types and bounds that the steps below start from.
LEMMA Ranges ==
  ASSUME NoShortPackets, WInv
  PROVE  /\ infifo_q \in WordSet /\ pct_q \in WordSet /\ pctFifo \in Seq(WordSet)
         /\ rd_cnt \in Nat /\ wr_cnt \in Nat /\ wr_cnt <= rd_cnt /\ Len(pctFifo) \in Nat
         /\ infifo_data_valid \in BOOLEAN
         /\ rd_cnt = wr_cnt + (IF infifo_data_valid THEN 1 ELSE 0)
         /\ sep_state \in {"idle", "rd_pct", "rd_done"}
         /\ phase \in {"idle", "hdr", "hold", "read", "clr"}
         /\ Words(infifo_q.size) \in Nat /\ Words(infifo_q.size) >= 3
         /\ Words(infifo_q.size) < AllOnes /\ AllOnes \in Nat
         /\ pct_words \in Nat
         /\ Started => rd_cnt <= Words(infifo_q.size)
         /\ Started /\ sep_state = "rd_pct" =>
              infifo_q.idx = rd_cnt /\ rd_cnt < Words(infifo_q.size)
         /\ sep_state = "rd_done" => Started /\ rd_cnt = Words(infifo_q.size)
                                     /\ infifo_q.idx = rd_cnt
         /\ ~Started => ~infifo_data_valid
<1>1. SepPart /\ FifoTypeOK /\ ReaderTypeOK /\ SepTypeOK /\ SepInv /\ DoneInv
  BY DEF WInv, IInv, TypeOK, SepPart
<1>2. /\ infifo_q \in WordSet /\ pct_q \in WordSet /\ pctFifo \in Seq(WordSet)
      /\ infifo_data_valid \in BOOLEAN
      /\ sep_state \in {"idle", "rd_pct", "rd_done"}
      /\ phase \in {"idle", "hdr", "hold", "read", "clr"}
      /\ rd_cnt = wr_cnt + (IF infifo_data_valid THEN 1 ELSE 0)
      /\ rd_cnt \in Nat /\ wr_cnt \in Nat
      /\ sep_state = "idle" => ~infifo_data_valid
  BY <1>1 DEF SepTypeOK, FifoTypeOK, ReaderTypeOK, SepInv
<1>3. infifo_q.size \in SizeFields \cup {0}
  BY <1>2 DEF WordSet
<1>4. /\ Words(infifo_q.size) \in Nat /\ Words(infifo_q.size) >= 3
      /\ Words(infifo_q.size) < AllOnes /\ AllOnes \in Nat /\ pct_words \in Nat
  <2>1. /\ Words(infifo_q.size) \in Nat /\ Words(infifo_q.size) >= 3
        /\ Words(infifo_q.size) <= MaxPctWords /\ MaxPctWords < AllOnes - 1
        /\ MaxPctWords \in Nat /\ AllOnes \in Nat
    BY <1>3, WordsRange
  <2>2. pct_words \in 0 .. AllOnes
    BY <1>1 DEF FifoTypeOK
  <2> QED  BY <2>1, <2>2
<1>5. wr_cnt <= rd_cnt /\ Len(pctFifo) \in Nat
  BY <1>2
<1>6. sep_state = "rd_pct" /\ rd_cnt > 0 =>
        infifo_q.idx = rd_cnt /\ rd_cnt < Words(infifo_q.size)
  <2>1. SUFFICES ASSUME sep_state = "rd_pct", rd_cnt > 0
                 PROVE  infifo_q.idx = rd_cnt /\ rd_cnt < Words(infifo_q.size)
    OBVIOUS
  <2>2. infifo_q.idx = rd_cnt
    BY <1>1, <2>1 DEF SepInv
  <2>3. rd_cnt < rd_cnt_max /\ (wr_cnt > 0 => rd_cnt_max = Words(infifo_q.size))
        /\ (wr_cnt = 0 => rd_cnt <= 1)
    BY <1>1, <2>1, LimitIsLength
  <2> QED  BY <2>2, <2>3, <1>2, <1>4
<1>7. sep_state = "rd_done" => rd_cnt = Words(infifo_q.size) /\ infifo_q.idx = rd_cnt
  BY <1>1 DEF DoneInv
<1>8. sep_state = "rd_done" => Started
  BY <1>7, <1>4 DEF Started
<1>9. Started => rd_cnt <= Words(infifo_q.size)
  BY <1>2, <1>4, <1>6, <1>7 DEF Started
<1>10. ~Started => ~infifo_data_valid
  BY <1>2 DEF Started
<1> QED  BY <1>2, <1>4, <1>5, <1>6, <1>7, <1>8, <1>9, <1>10 DEF Started

\* Once a packet is begun, the reset that follows a clear is over.
LEMMA ResetReleased ==
  ASSUME NoShortPackets, WInv, phase # "clr", Started \/ infifo_data_valid
  PROVE  Inst1ResetN /\ rst_sync = SyncStages
<1>1. pct_aclr_n
  BY DEF WInv, DriveInv
<1>2. rst_sync \in 0 .. SyncStages
  BY DEF WInv, IInv, TypeOK, FifoTypeOK
<1>3. CASE phase = "idle"
  <2>1. ~(rst_sync < SyncStages)
    BY <1>3 DEF WInv, IdleInv, Started
  <2>2. rst_sync = SyncStages
    BY <2>1, <1>2 DEF SyncStages
  <2> QED  BY <2>2, <1>1 DEF Inst1ResetN
<1>4. CASE phase # "idle"
  BY <1>1, <1>4 DEF WInv, ReadInv, Inst1ResetN
<1> QED  BY <1>3, <1>4

\* With its content accounted for, the FIFO holds words of one packet.
LEMMA WInvGivesOnePacketOnly ==
  ASSUME NoShortPackets, WInv
  PROVE  OnePacketOnly
<1>1. CASE ~Started
  BY <1>1 DEF WInv, ContentInv, OnePacketOnly
<1>2. CASE Started
  <2>0. /\ Len(pctFifo) \in Nat /\ infifo_q.pkt \in Nat /\ pct_q.pkt \in Nat /\ pct_q.idx \in Nat
        /\ phase \in {"idle", "hdr", "hold", "read", "clr"}
    BY Ranges DEF WordSet
  <2>1. /\ HeaderTaken \/ pct_q.pkt + 1 = infifo_q.pkt
        /\ \A k \in 1 .. Len(pctFifo) : pctFifo[k] = HeldWord(k)
    BY <1>2 DEF WInv, ContentInv, HeaderTaken
  <2>2. Taken \in Nat
    BY <2>0 DEF Taken
  <2>3. \A k \in 1 .. Len(pctFifo) - 1 : FollowsInPacket(pctFifo[k], pctFifo[k + 1])
    <3>1. SUFFICES ASSUME NEW k \in 1 .. Len(pctFifo) - 1
                   PROVE  FollowsInPacket(pctFifo[k], pctFifo[k + 1])
      OBVIOUS
    <3>2. k \in 1 .. Len(pctFifo) /\ k + 1 \in 1 .. Len(pctFifo)
      BY <2>0
    <3>3. pctFifo[k] = HeldWord(k) /\ pctFifo[k + 1] = HeldWord(k + 1)
      BY <2>1, <3>2
    <3> QED  BY <3>3, <2>2 DEF HeldWord, FollowsInPacket
  <2>4. ASSUME pctFifo # <<>>, Inst1ResetN
        PROVE  IF InPacket THEN FollowsInPacket(pct_q, pctFifo[1])
               ELSE pctFifo[1].pkt = pct_q.pkt + 1 /\ pctFifo[1].idx = 1
    <3>1. Len(pctFifo) > 0
      BY <2>4, Ranges
    <3>2. pctFifo[1] = HeldWord(1)
      BY <3>1, <2>0, <2>1
    <3>3. phase # "clr"
      BY <2>4 DEF Inst1ResetN, WInv, DriveInv
    <3>4. CASE InPacket
      <4>1. HeaderTaken
        BY <3>4 DEF InPacket, WInv, ReadInv
      <4> QED  BY <4>1, <3>2, <3>4, <2>0 DEF HeldWord, Taken, HeaderTaken, FollowsInPacket
    <3>5. CASE ~InPacket
      <4>1. phase \in {"idle", "hdr"}
        BY <3>3, <3>5, <2>0 DEF InPacket
      <4>2. ~HeaderTaken
        BY <4>1, <1>2, <2>4 DEF WInv, ReadInv, IdleInv
      <4> QED  BY <4>2, <3>2, <3>5, <2>0, <2>1 DEF HeldWord, Taken
    <3> QED  BY <3>4, <3>5
  <2> QED  BY <2>3, <2>4 DEF OnePacketOnly
<1> QED  BY <1>1, <1>2

\* The level that pct_rdy was compared with is that of a whole packet.
LEMMA WInvGivesReadyMeansWhole ==
  ASSUME NoShortPackets, WInv
  PROVE  ReadyMeansWhole
<1>1. SUFFICES ASSUME phase = "idle", pct_rdy_reg
               PROVE  /\ pctFifo # <<>> /\ Len(pctFifo) = Words(pctFifo[1].size)
                      /\ PctRdusedw = Len(pctFifo)
  BY DEF ReadyMeansWhole
<1>2. Started /\ Len(pctFifo) = Words(infifo_q.size) /\ wptr[Lag] = wptr[0]
  BY <1>1 DEF WInv, IdleInv
<1>3. Words(infifo_q.size) \in Nat /\ Words(infifo_q.size) >= 3 /\ Len(pctFifo) \in Nat
  BY Ranges
<1>4. pctFifo[1] = HeldWord(1)
  BY <1>2, <1>3 DEF WInv, ContentInv
<1>5. pctFifo[1].size = infifo_q.size
  BY <1>4 DEF HeldWord
<1>6. Inst1ResetN
  BY <1>1, <1>2, ResetReleased
<1>7. PctRdusedw = Len(pctFifo)
  BY <1>2, <1>6 DEF PctRdusedw, WInv, IInv, PtrInv
<1>8. pctFifo # <<>>
  BY <1>2, <1>3
<1> QED  BY <1>2, <1>5, <1>7, <1>8

\* A word on its way to the FIFO finds it out of reset.
LEMMA WInvGivesNoWriteInReset ==
  ASSUME NoShortPackets, WInv
  PROVE  NoWriteInReset
<1>1. SUFFICES ASSUME infifo_data_valid  PROVE Inst1ResetN
  BY DEF NoWriteInReset
<1>2. phase # "clr"
  BY <1>1 DEF WInv, ReadInv
<1> QED  BY <1>1, <1>2, ResetReleased

-----------------------------------------------------------------------------
(***************************************************************************)
(* A clock, seen from the packet.                                          *)
(***************************************************************************)
SameWord == infifo_q' = infifo_q /\ ~infifo_data_valid'
            /\ rd_cnt' = IF sep_state = "idle" THEN 0 ELSE rd_cnt
FirstWord == sep_state = "rd_pct" /\ rd_cnt = 0 /\ infifo_data_valid' /\ rd_cnt' = 1
             /\ infifo_q'.pkt = infifo_q.pkt + 1 /\ infifo_q'.idx = 1
NextWord == sep_state = "rd_pct" /\ rd_cnt > 0 /\ infifo_data_valid' /\ rd_cnt' = rd_cnt + 1
            /\ infifo_q'.pkt = infifo_q.pkt /\ infifo_q'.size = infifo_q.size
            /\ infifo_q'.idx = rd_cnt + 1

\* pct_separate_fsm reads no word, the first word of a packet, or another one.
LEMMA SepStep ==
  ASSUME NoShortPackets, WInv, Clock
  PROVE  /\ SameWord \/ FirstWord \/ NextWord
         /\ wr_cnt' = IF sep_state = "idle" THEN 0
                      ELSE IF infifo_data_valid THEN wr_cnt + 1 ELSE wr_cnt
         /\ sep_state = "idle" => sep_state' \in {"idle", "rd_pct"} /\ SameWord
         /\ sep_state = "rd_pct" => sep_state' \in {"rd_pct", "rd_done"}
         /\ sep_state = "rd_done" =>
              sep_state' = (IF PctWrempty THEN "idle" ELSE "rd_done") /\ SameWord
<1>1. SepPart /\ SepClock /\ UNCHANGED host
  BY DEF WInv, IInv, TypeOK, SepPart, Clock, PctClock
<1>2. wr_cnt' = IF sep_state = "idle" THEN 0
                ELSE IF infifo_data_valid THEN wr_cnt + 1 ELSE wr_cnt
  BY <1>1 DEF SepClock, WrCnt
<1>3. /\ sep_state = "idle" => sep_state' \in {"idle", "rd_pct"}
      /\ sep_state = "rd_pct" => sep_state' \in {"rd_pct", "rd_done"}
      /\ sep_state = "rd_done" => sep_state' = IF PctWrempty THEN "idle" ELSE "rd_done"
  BY <1>1 DEF SepClock, SepFsm, SepIdle, SepRdPct, SepRdDone
<1>4. CASE ~InfifoRdreq
  <2>1. SameWord
    BY <1>1, <1>4 DEF SepClock, InfifoRead, RdCnt, SameWord
  <2> QED  BY <2>1, <1>2, <1>3
<1>5. CASE InfifoRdreq
  <2>1. sep_state = "rd_pct" /\ infifo # <<>>
    BY <1>5 DEF InfifoRdreq
  <2>2. infifo_data_valid' /\ rd_cnt' = rd_cnt + 1
    BY <1>1, <1>5, <2>1 DEF SepClock, InfifoRead, RdCnt
  <2>3. infifo_q' \in WordSet /\ Follows(infifo_q, infifo_q')
    BY <1>1, <1>5, ReadTakesNext DEF SepClock
  <2>4. infifo_q'.idx = rd_cnt + 1 /\ (rd_cnt > 0 => infifo_q'.size = infifo_q.size)
    BY <1>1, <2>1, <2>3, NextWordNumbered
  <2>5. CASE rd_cnt = 0
    <3>1. PacketEnds(infifo_q)
      BY <1>1, <2>1, <2>5 DEF SepPart, SepInv
    <3>2. FirstWord
      BY <3>1, <2>1, <2>2, <2>3, <2>4, <2>5 DEF Follows, FirstWord
    <3> QED  BY <3>2, <2>1, <1>2, <1>3
  <2>6. CASE rd_cnt > 0
    <3>0. infifo_q \in WordSet /\ Words(infifo_q.size) \in Nat
      BY Ranges
    <3>1. infifo_q.idx > 0 /\ infifo_q.idx < Words(infifo_q.size)
      BY <2>1, <2>6, Ranges DEF Started
    <3>2. ~PacketEnds(infifo_q)
      BY <3>0, <3>1, NotTheEnd
    <3>3. infifo_q'.pkt = infifo_q.pkt
      BY <3>2, <2>3 DEF Follows
    <3>4. NextWord
      BY <3>3, <2>1, <2>2, <2>4, <2>6 DEF NextWord
    <3> QED  BY <3>4, <2>1, <1>2, <1>3
  <2>7. rd_cnt \in Nat
    BY Ranges
  <2> QED  BY <2>5, <2>6, <2>7
<1> QED  BY <1>4, <1>5

\* What it has read last when it stops is the last word, and its count says so.
LEMMA DoneStep ==
  ASSUME NoShortPackets, WInv, Clock
  PROVE  DoneInv'
<1>1. SUFFICES ASSUME sep_state' = "rd_done"
               PROVE  infifo_q'.idx = rd_cnt' /\ rd_cnt' = Words(infifo_q'.size)
  BY DEF DoneInv
<1>2. CASE sep_state = "rd_done"
  <2>1. infifo_q' = infifo_q /\ rd_cnt' = rd_cnt
    BY <1>2, SepStep DEF SameWord
  <2> QED  BY <1>2, <2>1 DEF WInv, DoneInv
<1>3. CASE sep_state = "rd_pct"
  <2>1. /\ rd_cnt < rd_cnt_max /\ rd_cnt_max \in Nat /\ rd_cnt \in Nat
    BY <1>3, LimitIsLength DEF WInv, IInv, TypeOK, SepPart
  <2>2. /\ ~(rd_cnt < rd_cnt_max - 1)
        /\ ~(rd_cnt = rd_cnt_max - 1 /\ infifo = <<>>)
    BY <1>1, <1>3 DEF Clock, PctClock, SepClock, SepFsm, SepIdle, SepRdPct, SepRdDone
  <2>3. infifo # <<>>
    BY <2>1, <2>2
  <2>4. infifo_data_valid'
    BY <1>3, <2>3 DEF Clock, PctClock, SepClock, InfifoRead, InfifoRdreq
  <2>5. infifo_q'.idx = rd_cnt' /\ rd_cnt' > 0
    BY <2>1, <2>4, SepStep DEF SameWord, FirstWord, NextWord
  <2>6. IInv'
    BY ClockKeepsIInv DEF WInv
  <2>7. infifo_q' = NoWord \/ infifo_q'.idx = Words(infifo_q'.size)
    BY <1>1, <2>6 DEF IInv, StopsAtPacketEnd, PacketEnds
  <2> QED  BY <2>1, <2>5, <2>7 DEF NoWord
<1>4. sep_state # "idle"
  BY <1>1, SepStep
<1>5. sep_state \in {"idle", "rd_pct", "rd_done"}
  BY Ranges
<1> QED  BY <1>2, <1>3, <1>4, <1>5

\* The reader raises one request at most.
LEMMA DriveStep ==
  ASSUME Reader
  PROVE  DriveInv'
<1>1. \E p, l : Drive(p, l)
  BY DEF Reader, ReaderMoves, WaitPacket, StartPacket, ReadHeader, DropPacket, TakePacket,
         ReadWord, Cleared
<1>2. PICK p, l : Drive(p, l)
  BY <1>1
<1> QED  BY <1>2 DEF Drive, DriveInv

\* The read pointer never goes back but to zero.
LEMMA RptrStep ==
  ASSUME IInv, RptrInv, DataFifo
  PROVE  RptrInv'
<1>1. /\ rptr \in [Side -> Nat] /\ 0 \in Side
      /\ \A i \in Side : i # 0 => i - 1 \in Side
  BY ConstantsOK DEF ConstantsOK, Side, IInv, TypeOK, FifoTypeOK
<1>2. CASE ~Inst1ResetN
  BY <1>1, <1>2 DEF DataFifo, RptrInv
<1>3. CASE Inst1ResetN
  <2>1. rptr' = Shift(rptr, PctRead)
    BY <1>3 DEF DataFifo
  <2>2. rptr[0] <= rptr'[0] /\ rptr[0] \in Nat /\ rptr'[0] \in Nat
    BY <2>1, <1>1 DEF Shift
  <2>3. ASSUME NEW i \in Side, i # 0
        PROVE  rptr'[i] <= rptr'[0]
    <3>1. rptr'[i] = rptr[i - 1] /\ rptr[i - 1] <= rptr[0] /\ rptr[i - 1] \in Nat
      BY <2>1, <2>3, <1>1 DEF Shift, RptrInv
    <3> QED  BY <3>1, <2>2
  <2> QED  BY <2>2, <2>3 DEF RptrInv
<1> QED  BY <1>2, <1>3

\* A FIFO that is seen empty where it is written has been empty for a while.
LEMMA WremptyMeansEmpty ==
  ASSUME WInv, Inst1ResetN, PctWrempty
  PROVE  pctFifo = <<>>
<1>1. /\ wptr \in [Side -> Nat] /\ rptr \in [Side -> Nat] /\ pctFifo \in Seq(WordSet)
      /\ 0 \in Side /\ Lag \in Side
  BY ConstantsOK DEF ConstantsOK, Side, WInv, IInv, TypeOK, FifoTypeOK
<1>2. /\ wptr[0] = rptr[Lag] /\ rptr[Lag] <= rptr[0]
      /\ Len(pctFifo) = wptr[0] - rptr[0]
  BY <1>1 DEF PctWrempty, WInv, RptrInv, IInv, PtrInv
<1>3. wptr[0] \in Nat /\ rptr[0] \in Nat /\ rptr[Lag] \in Nat /\ Len(pctFifo) \in Nat
  BY <1>1
<1>4. Len(pctFifo) = 0
  BY <1>2, <1>3
<1> QED  BY <1>1, <1>4

\* Once a write pointer has been copied to the reader's side it stays so while
\* nothing is written.
LEMMA CopiedStaysCopied ==
  ASSUME WInv, Inst1ResetN, ~infifo_data_valid, wptr[Lag] = wptr[0], DataFifo
  PROVE  wptr'[Lag] = wptr'[0] /\ wptr'[0] = wptr[0]
<1>1. /\ wptr \in [Side -> Nat] /\ 0 \in Side /\ Lag \in Side /\ Lag \in Nat
      /\ Lag # 0 => Lag - 1 \in Side
      /\ \A i, j \in Side : i <= j => wptr[j] <= wptr[i]
  BY ConstantsOK DEF ConstantsOK, Side, WInv, IInv, TypeOK, FifoTypeOK, PtrInv
<1>2. wptr' = Shift(wptr, infifo_data_valid)
  BY DEF DataFifo
<1>3. wptr'[0] = wptr[0]
  BY <1>1, <1>2 DEF Shift
<1>4. CASE Lag = 0
  BY <1>3, <1>4
<1>5. CASE Lag # 0
  <2>1. wptr'[Lag] = wptr[Lag - 1]
    BY <1>1, <1>2, <1>5 DEF Shift
  <2>2. wptr[Lag] <= wptr[Lag - 1] /\ wptr[Lag - 1] <= wptr[0]
        /\ wptr[Lag - 1] \in Nat /\ wptr[0] \in Nat
    BY <1>1, <1>5
  <2> QED  BY <2>1, <2>2, <1>3
<1> QED  BY <1>3, <1>4, <1>5

-----------------------------------------------------------------------------
(***************************************************************************)
(* A clock in which the reader waits: three cases, by what there is of the *)
(* packet that infifo_q belongs to.                                        *)
(***************************************************************************)

\* Nothing is read, and what is written is the word on its way.
LEMMA IdleReadsNothing ==
  ASSUME NoShortPackets, WInv, Clock, phase = "idle"
  PROVE  /\ ~PctRead /\ pct_q' = pct_q
         /\ ~infifo_data_valid /\ pctFifo = <<>> => pctFifo' = <<>>
         /\ Inst1ResetN => pctFifo' = pctFifo \o (IF infifo_data_valid THEN <<infifo_q>> ELSE <<>>)
<1>1. ~PctRead
  BY DEF WInv, DriveInv, PctRead
<1>2. DataFifo
  BY DEF Clock, PctClock, FifoClock
<1>3. pct_q' = pct_q
  BY <1>1, <1>2 DEF DataFifo
<1>4. Inst1ResetN => pctFifo' = pctFifo \o (IF infifo_data_valid THEN <<infifo_q>> ELSE <<>>)
  BY <1>1, <1>2 DEF DataFifo
<1>5. ~Inst1ResetN => pctFifo' = <<>>
  BY <1>2 DEF DataFifo
<1>6. ~infifo_data_valid /\ pctFifo = <<>> => pctFifo' = <<>>
  <2>1. SUFFICES ASSUME ~infifo_data_valid, pctFifo = <<>>, Inst1ResetN  PROVE pctFifo' = <<>>
    BY <1>5
  <2>2. pctFifo' = pctFifo \o <<>>
    BY <1>4, <2>1
  <2> QED  BY <2>1, <2>2
<1> QED  BY <1>1, <1>3, <1>4, <1>6

\* No word of a packet has been taken: none is, or the first one.
LEMMA NotStartedStep ==
  ASSUME NoShortPackets, WInv, Clock, phase = "idle", ~Started
  PROVE  /\ pctFifo' = <<>> /\ NoToken /\ pct_words = AllOnes /\ ~infifo_data_valid
         /\ wr_cnt' = 0 /\ pct_q' = pct_q /\ sep_state' \in {"idle", "rd_pct", "rd_done"}
         /\ \/ SameWord /\ rd_cnt' = 0 /\ HeaderTaken'
            \/ FirstWord /\ ~HeaderTaken' /\ (pct_q.pkt + 1 = infifo_q.pkt)'
<1>1. pctFifo = <<>> /\ HeaderTaken /\ NoToken /\ pct_words = AllOnes
  BY DEF WInv, ContentInv, TokenInv, Unannounced
<1>2. ~infifo_data_valid /\ sep_state \in {"idle", "rd_pct"} /\ wr_cnt \in Nat /\ rd_cnt \in Nat
      /\ rd_cnt = wr_cnt /\ infifo_q \in WordSet /\ pct_q \in WordSet
  BY Ranges
<1>3. pctFifo' = <<>> /\ pct_q' = pct_q
  BY <1>1, <1>2, IdleReadsNothing
<1>4. sep_state = "rd_pct" => rd_cnt = 0
  BY <1>2 DEF Started
<1>5. wr_cnt' = 0 /\ sep_state' \in {"idle", "rd_pct", "rd_done"}
  BY <1>2, <1>4, SepStep
<1>6. CASE SameWord
  <2>1. rd_cnt' = 0
    BY <1>2, <1>4, <1>6 DEF SameWord
  <2>2. HeaderTaken'
    BY <1>1, <1>3, <1>6 DEF SameWord, HeaderTaken
  <2> QED  BY <2>1, <2>2, <1>1, <1>2, <1>3, <1>5, <1>6
<1>7. CASE FirstWord
  <2>1. pct_q.pkt = infifo_q.pkt /\ infifo_q'.pkt = infifo_q.pkt + 1 /\ infifo_q.pkt \in Nat
    BY <1>1, <1>2, <1>7 DEF FirstWord, HeaderTaken, WordSet
  <2>2. ~HeaderTaken' /\ (pct_q.pkt + 1 = infifo_q.pkt)'
    BY <2>1, <1>3 DEF HeaderTaken
  <2> QED  BY <2>2, <1>1, <1>2, <1>3, <1>5, <1>7
<1>8. ~NextWord
  BY <1>4 DEF NextWord
<1> QED  BY <1>6, <1>7, <1>8, SepStep

\* All of it is written and its reader has gone on: it may only be left.
LEMMA TakenStep ==
  ASSUME NoShortPackets, WInv, Clock, phase = "idle", Started, HeaderTaken
  PROVE  /\ pctFifo' = <<>> /\ NoToken /\ pct_words = AllOnes /\ ~infifo_data_valid
         /\ SameWord /\ rd_cnt' = rd_cnt /\ wr_cnt' = wr_cnt /\ HeaderTaken'
         /\ pct_q' = pct_q /\ sep_state' \in {"idle", "rd_done"} /\ pctFifo = <<>>
         /\ rst_sync = SyncStages
<1>1. sep_state = "rd_done" /\ ~infifo_data_valid /\ pctFifo = <<>>
  BY DEF WInv, IdleInv
<1>2. NoToken /\ pct_words = AllOnes
  BY DEF WInv, TokenInv, Unannounced
<1>3. SameWord /\ sep_state' \in {"idle", "rd_done"} /\ wr_cnt' = wr_cnt
  BY <1>1, SepStep
<1>4. pctFifo' = <<>> /\ pct_q' = pct_q
  BY <1>1, IdleReadsNothing
<1>5. rd_cnt' = rd_cnt /\ HeaderTaken'
  BY <1>1, <1>3, <1>4 DEF SameWord, HeaderTaken
<1>6. rst_sync = SyncStages
  BY ResetReleased
<1> QED  BY <1>1, <1>2, <1>3, <1>4, <1>5, <1>6

\* It is being written, or waits whole: pct_separate_fsm does not leave it.
LEMMA WrittenStep ==
  ASSUME NoShortPackets, WInv, Clock, phase = "idle", Started, ~HeaderTaken
  PROVE  /\ Started' /\ ~HeaderTaken' /\ pct_q' = pct_q /\ Inst1ResetN
         /\ infifo_q'.pkt = infifo_q.pkt /\ infifo_q'.size = infifo_q.size
         /\ pctFifo' = pctFifo \o (IF infifo_data_valid THEN <<infifo_q>> ELSE <<>>)
         /\ wr_cnt' = Len(pctFifo') /\ wr_cnt = Len(pctFifo) /\ wr_cnt' > 0
         /\ rst_sync = SyncStages
         /\ sep_state = "rd_done" => sep_state' = "rd_done" /\ SameWord
<1>1. /\ Inst1ResetN /\ rst_sync = SyncStages
  BY ResetReleased
<1>2. /\ sep_state \in {"idle", "rd_pct", "rd_done"} /\ rd_cnt > 0 /\ sep_state # "idle"
      /\ wr_cnt \in Nat /\ rd_cnt \in Nat /\ Len(pctFifo) \in Nat
      /\ rd_cnt = wr_cnt + (IF infifo_data_valid THEN 1 ELSE 0)
      /\ infifo_q \in WordSet /\ pctFifo \in Seq(WordSet)
      /\ sep_state = "rd_done" => rd_cnt >= 3
  BY Ranges DEF Started
<1>3. /\ pctFifo' = pctFifo \o (IF infifo_data_valid THEN <<infifo_q>> ELSE <<>>)
      /\ pct_q' = pct_q
  BY <1>1, IdleReadsNothing
<1>4. wr_cnt = Len(pctFifo)
  BY <1>2 DEF WInv, ContentInv, Taken
<1>5. wr_cnt' = IF infifo_data_valid THEN wr_cnt + 1 ELSE wr_cnt
  BY <1>2, SepStep
<1>6. wr_cnt' = Len(pctFifo') /\ wr_cnt' > 0
  <2>1. CASE infifo_data_valid
    BY <2>1, <1>2, <1>3, <1>4, <1>5
  <2>2. CASE ~infifo_data_valid
    BY <2>2, <1>2, <1>3, <1>4, <1>5
  <2> QED  BY <2>1, <2>2
<1>7. SameWord \/ NextWord
  BY <1>2, SepStep DEF FirstWord
<1>8. infifo_q'.pkt = infifo_q.pkt /\ infifo_q'.size = infifo_q.size /\ rd_cnt' > 0
  BY <1>2, <1>7 DEF SameWord, NextWord
<1>9. sep_state = "rd_done" => sep_state' = "rd_done" /\ SameWord
  <2>1. SUFFICES ASSUME sep_state = "rd_done"  PROVE ~PctWrempty
    BY SepStep
  <2>2. Len(pctFifo) > 0
    BY <2>1, <1>2, <1>4
  <2>3. pctFifo # <<>>
    BY <2>2
  <2> QED  BY <2>3, <1>1, WremptyMeansEmpty
<1>10. sep_state' # "idle"
  <2>1. CASE sep_state = "rd_pct"
    BY <2>1, SepStep
  <2>2. CASE sep_state = "rd_done"
    BY <2>2, <1>9
  <2> QED  BY <2>1, <2>2, <1>2
<1>11. Started' /\ ~HeaderTaken'
  BY <1>3, <1>8, <1>10 DEF Started, HeaderTaken
<1> QED  BY <1>1, <1>3, <1>4, <1>6, <1>8, <1>9, <1>11

\* The content, while the reader waits.
LEMMA IdleKeepsContent ==
  ASSUME NoShortPackets, WInv, Clock, phase = "idle"
  PROVE  ContentInv'
<1>1. CASE ~Started
  <2>1. pctFifo' = <<>> /\ wr_cnt' = 0 /\ Len(pctFifo') = 0
    BY <1>1, NotStartedStep
  <2>2. CASE SameWord /\ rd_cnt' = 0 /\ HeaderTaken'
    <3>1. ~Started'
      BY <2>2 DEF Started
    <3> QED  BY <3>1, <2>1, <2>2 DEF ContentInv
  <2>3. CASE ~HeaderTaken' /\ FirstWord /\ (pct_q.pkt + 1 = infifo_q.pkt)'
    <3>1. Started'
      BY <2>3, SepStep DEF FirstWord, Started
    <3>2. Taken' = 0
      BY <2>3 DEF Taken
    <3>3. wr_cnt' = Taken' + Len(pctFifo')
      BY <2>1, <3>2
    <3> QED  BY <2>1, <2>3, <3>1, <3>3 DEF ContentInv
  <2> QED  BY <1>1, <2>2, <2>3, NotStartedStep
<1>2. CASE Started /\ HeaderTaken
  <2>1. /\ pctFifo' = <<>> /\ SameWord /\ wr_cnt' = wr_cnt /\ HeaderTaken' /\ pct_q' = pct_q
        /\ pctFifo = <<>>
    BY <1>2, TakenStep
  <2>2. /\ pct_q.size = infifo_q.size /\ wr_cnt = Taken + Len(pctFifo)
    BY <1>2, Ranges DEF WInv, ContentInv, HeaderTaken, WordSet
  <2>3. infifo_q' = infifo_q
    BY <2>1 DEF SameWord
  <2>4. Taken' = Taken
    BY <2>1, <2>3, <1>2 DEF Taken
  <2>5. wr_cnt' = Taken' + Len(pctFifo')
    BY <2>1, <2>2, <2>4
  <2>6. (pct_q.pkt = infifo_q.pkt /\ pct_q.size = infifo_q.size)'
    BY <1>2, <2>1, <2>2, <2>3 DEF HeaderTaken
  <2>7. \A k \in 1 .. Len(pctFifo') : pctFifo'[k] = HeldWord(k)'
    BY <2>1
  <2> QED  BY <2>1, <2>5, <2>6, <2>7 DEF ContentInv
<1>3. CASE Started /\ ~HeaderTaken
  <2>1. /\ Started' /\ ~HeaderTaken' /\ pct_q' = pct_q
        /\ infifo_q'.pkt = infifo_q.pkt /\ infifo_q'.size = infifo_q.size
        /\ pctFifo' = pctFifo \o (IF infifo_data_valid THEN <<infifo_q>> ELSE <<>>)
        /\ wr_cnt' = Len(pctFifo') /\ wr_cnt = Len(pctFifo)
    BY <1>3, WrittenStep
  <2>2. /\ infifo_q \in WordSet /\ pctFifo \in Seq(WordSet) /\ Len(pctFifo) \in Nat
        /\ wr_cnt \in Nat /\ infifo_data_valid \in BOOLEAN
        /\ rd_cnt = wr_cnt + (IF infifo_data_valid THEN 1 ELSE 0)
    BY Ranges
  <2>3. Taken = 0 /\ Taken' = 0
    BY <2>1, <1>3 DEF Taken
  <2>4. /\ pct_q.pkt + 1 = infifo_q.pkt
        /\ \A k \in 1 .. Len(pctFifo) : pctFifo[k] = HeldWord(k)
    BY <1>3 DEF WInv, ContentInv, HeaderTaken
  <2>5. \A k : HeldWord(k)' = HeldWord(k)
    BY <2>1, <2>3 DEF HeldWord
  <2>6. infifo_data_valid => infifo_q = HeldWord(Len(pctFifo) + 1)
    <3>1. SUFFICES ASSUME infifo_data_valid  PROVE infifo_q = HeldWord(Len(pctFifo) + 1)
      OBVIOUS
    <3>2. infifo_q.idx = rd_cnt
      BY <1>3, Ranges DEF Started
    <3>3. infifo_q.idx = Len(pctFifo) + 1
      BY <3>1, <3>2, <2>1, <2>2
    <3> QED  BY <3>3, <2>2, <2>3 DEF HeldWord, WordSet
  <2>7. \A k \in 1 .. Len(pctFifo') : pctFifo'[k] = HeldWord(k)
    <3>1. CASE infifo_data_valid
      <4>1. pctFifo' = pctFifo \o <<infifo_q>>
        BY <2>1, <3>1
      <4>2. Len(pctFifo') = Len(pctFifo) + 1
        BY <4>1, <2>2
      <4>3. SUFFICES ASSUME NEW k \in 1 .. Len(pctFifo) + 1
                     PROVE  pctFifo'[k] = HeldWord(k)
        BY <4>2
      <4>4. CASE k <= Len(pctFifo)
        <5>1. pctFifo'[k] = pctFifo[k] /\ k \in 1 .. Len(pctFifo)
          BY <4>1, <4>4, <2>2
        <5> QED  BY <5>1, <2>4
      <4>5. CASE k = Len(pctFifo) + 1
        <5>1. pctFifo'[k] = infifo_q
          BY <4>1, <4>5, <2>2
        <5> QED  BY <5>1, <4>5, <2>6, <3>1
      <4> QED  BY <4>4, <4>5, <2>2
    <3>2. CASE ~infifo_data_valid
      <4>1. pctFifo' = pctFifo
        BY <2>1, <2>2, <3>2
      <4> QED  BY <4>1, <2>4
    <3> QED  BY <3>1, <3>2
  <2>8. wr_cnt' = Taken' + Len(pctFifo')
    <3>1. pctFifo' \in Seq(WordSet)
      BY ClockKeepsIInv DEF WInv, IInv, TypeOK, FifoTypeOK
    <3>2. Len(pctFifo') \in Nat
      BY <3>1
    <3> QED  BY <2>1, <2>3, <3>2
  <2>9. (pct_q.pkt + 1 = infifo_q.pkt)'
    BY <2>1, <2>4
  <2> QED  BY <2>1, <2>5, <2>7, <2>8, <2>9 DEF ContentInv
<1> QED  BY <1>1, <1>2, <1>3

-----------------------------------------------------------------------------
(***************************************************************************)
(* The header's way to pct_words.                                          *)
(***************************************************************************)

\* With no header on its way and none coming, none is on its way after the
\* clock either, and pct_words stays or goes back to all ones.
LEMMA NoTokenStays ==
  ASSUME Clock, NoToken, ~HeaderHere
  PROVE  NoToken' /\ pct_words' \in {pct_words, AllOnes}
<1>1. ~header_valid_reg /\ ~pct_header_valid /\ \A i \in Side : hdrFifo[i] = NoWord
  BY DEF NoToken, HdrFifoEmpty
<1>2. /\ Lag \in Side /\ \A i \in Side : i > 0 => i - 1 \in Side
  BY ConstantsOK DEF ConstantsOK, Side
<1>3. /\ header_valid_reg' = HeaderHere /\ pct_header_valid' = HdrRdreq
      /\ hdrFifo' = [i \in Side |-> IF ~Inst1ResetN THEN NoWord
                                    ELSE IF i > 0 THEN hdrFifo[i - 1]
                                    ELSE IF header_valid_reg THEN header ELSE NoWord]
      /\ pct_words' = IF pct_data_rdreq \/ PctRdempty THEN AllOnes
                      ELSE IF pct_header_valid THEN Words(inst2_q.size) ELSE pct_words
  BY DEF Clock, PctClock, SepClock, FifoClock, HdrCap, HeaderFifo, PctWords
<1>4. HdrFifoEmpty'
  BY <1>1, <1>2, <1>3 DEF HdrFifoEmpty
<1>5. ~HdrRdreq
  BY <1>1, <1>2 DEF HdrRdreq
<1>6. pct_words' \in {pct_words, AllOnes}
  BY <1>1, <1>3
<1> QED  BY <1>3, <1>4, <1>5, <1>6 DEF NoToken

\* A header moves on by one place, and nothing else is on the way.
LEMMA HdrFifoStep ==
  ASSUME Clock, Inst1ResetN
  PROVE  /\ \A i \in Side : i > 0 => i - 1 \in Side /\ hdrFifo'[i] = hdrFifo[i - 1]
         /\ 0 \in Side /\ Lag \in Side
         /\ hdrFifo'[0] = IF header_valid_reg THEN header ELSE NoWord
         /\ pct_header_valid' <=> hdrFifo[Lag] # NoWord
         /\ hdrFifo[Lag] # NoWord => inst2_q' = hdrFifo[Lag]
<1>1. /\ 0 \in Side /\ Lag \in Side /\ \A i \in Side : i > 0 => i - 1 \in Side
  BY ConstantsOK DEF ConstantsOK, Side
<1>2. /\ pct_header_valid' = HdrRdreq
      /\ hdrFifo' = [i \in Side |-> IF ~Inst1ResetN THEN NoWord
                                    ELSE IF i > 0 THEN hdrFifo[i - 1]
                                    ELSE IF header_valid_reg THEN header ELSE NoWord]
      /\ inst2_q' = IF HdrRdreq THEN hdrFifo[Lag] ELSE inst2_q
  BY DEF Clock, PctClock, FifoClock, HeaderFifo
<1>3. HdrRdreq <=> hdrFifo[Lag] # NoWord
  BY DEF HdrRdreq
<1>4. \A i \in Side : i > 0 => hdrFifo'[i] = hdrFifo[i - 1]
  BY <1>2
<1>5. hdrFifo'[0] = IF header_valid_reg THEN header ELSE NoWord
  BY <1>1, <1>2
<1>6. pct_header_valid' <=> hdrFifo[Lag] # NoWord
  BY <1>2, <1>3
<1>7. hdrFifo[Lag] # NoWord => inst2_q' = hdrFifo[Lag]
  BY <1>2, <1>3
<1> QED  BY <1>1, <1>4, <1>5, <1>6, <1>7

\* The clock after which a header is on its way.
LEMMA TokenBegins ==
  ASSUME NoShortPackets, WInv, Clock, phase = "idle", HeaderHere
  PROVE  TokenInv'
<1>1. wr_cnt = 0 /\ infifo_data_valid
  BY DEF HeaderHere
<1>2. Started
  BY <1>1, Ranges
<1>3. ~HeaderTaken
  BY <1>1, <1>2, TakenStep
<1>4. Started' /\ ~HeaderTaken' /\ infifo_q'.size = infifo_q.size /\ wr_cnt' > 0 /\ Inst1ResetN
  BY <1>2, <1>3, WrittenStep
<1>5. NoToken /\ pct_words = AllOnes
  BY <1>1 DEF WInv, TokenInv, Unannounced
<1>6. ~Unannounced'
  BY <1>4 DEF Unannounced
<1>7. header_valid_reg' /\ header' = infifo_q
  BY DEF Clock, PctClock, SepClock, HdrCap, HeaderHere
<1>8. ~pct_header_valid' /\ HdrFifoEmpty'
  <2>1. ~header_valid_reg /\ \A i \in Side : hdrFifo[i] = NoWord
    BY <1>5 DEF NoToken, HdrFifoEmpty
  <2>2. \A i \in Side : i = 0 \/ i > 0
    BY ConstantsOK DEF ConstantsOK, Side
  <2>3. \A i \in Side : hdrFifo'[i] = NoWord
    BY <2>1, <2>2, <1>4, HdrFifoStep
  <2> QED  BY <2>1, <2>3, <1>4, HdrFifoStep DEF HdrFifoEmpty
<1>9. pct_words' = AllOnes
  BY <1>5 DEF NoToken, Clock, PctClock, FifoClock, PctWords
<1>10. header'.size = infifo_q'.size
  BY <1>4, <1>7
<1> QED  BY <1>6, <1>7, <1>8, <1>9, <1>10 DEF TokenInv, HdrFifoEmpty

\* A clock while the packet is written, or waits whole.
LEMMA TokenMoves ==
  ASSUME NoShortPackets, WInv, Clock, phase = "idle", Started, ~HeaderTaken, ~HeaderHere
  PROVE  TokenInv'
<1>1. /\ Started' /\ ~HeaderTaken' /\ infifo_q'.size = infifo_q.size /\ wr_cnt' > 0
      /\ Inst1ResetN
  BY WrittenStep
<1>2. ~Unannounced'
  BY <1>1 DEF Unannounced
<1>3. ~header_valid_reg'
  BY DEF Clock, PctClock, SepClock, HdrCap
<1>4. TokenInv
  BY DEF WInv
<1>5. pct_words' = IF PctRdempty THEN AllOnes
                   ELSE IF pct_header_valid THEN Words(inst2_q.size) ELSE pct_words
  BY DEF Clock, PctClock, FifoClock, PctWords, WInv, DriveInv
<1>6. CASE NoToken
  <2>1. NoToken' /\ pct_words' \in {pct_words, AllOnes}
    BY <1>6, NoTokenStays
  <2>2. pct_words # AllOnes => pct_words = Words(infifo_q.size)
    BY <1>4 DEF TokenInv
  <2>3. pct_words' = AllOnes \/ pct_words' = Words(infifo_q'.size)
    BY <2>1, <2>2, <1>1
  <2> QED  BY <2>1, <2>3, <1>2 DEF TokenInv, NoToken, HdrFifoEmpty
<1>7. CASE pct_header_valid
  <2>1. HdrFifoEmpty /\ inst2_q.size = infifo_q.size /\ ~header_valid_reg
    BY <1>4, <1>7 DEF TokenInv
  <2>2. pct_words' = AllOnes \/ pct_words' = Words(infifo_q'.size)
    BY <1>1, <1>5, <1>7, <2>1
  <2>3. \A i \in Side : i = 0 \/ i > 0
    BY ConstantsOK DEF ConstantsOK, Side
  <2>4. HdrFifoEmpty' /\ ~pct_header_valid'
    BY <1>1, <2>1, <2>3, HdrFifoStep DEF HdrFifoEmpty
  <2> QED  BY <1>2, <1>3, <2>2, <2>4 DEF TokenInv, NoToken, HdrFifoEmpty
<1>8. CASE ~NoToken /\ ~pct_header_valid
  <2>1. pct_words = AllOnes
    BY <1>4, <1>8 DEF TokenInv
  <2>2. pct_words' = AllOnes
    BY <2>1, <1>5, <1>8
  <2>3. \A i \in Side : i \in Nat /\ (i = 0 \/ i > 0)
    BY ConstantsOK DEF ConstantsOK, Side
  <2>4. CASE header_valid_reg
    <3>1. HdrFifoEmpty /\ header.size = infifo_q.size
      BY <1>4, <2>4 DEF TokenInv
    <3>2. ~pct_header_valid' /\ hdrFifo'[0] = header /\ \A i \in Side : i > 0 => hdrFifo'[i] = NoWord
      BY <1>1, <2>4, <3>1, HdrFifoStep DEF HdrFifoEmpty
    <3>3. \A i \in Side : hdrFifo'[i] # NoWord => i = 0
      BY <3>2, <2>3
    <3>4. \A i \in Side : hdrFifo'[i] # NoWord =>
            hdrFifo'[i].size = infifo_q'.size /\ \A j \in Side : j # i => hdrFifo'[j] = NoWord
      BY <3>1, <3>2, <3>3, <1>1
    <3> QED  BY <1>2, <1>3, <2>2, <3>2, <3>4 DEF TokenInv
  <2>5. CASE ~header_valid_reg
    <3>1. PICK i \in Side : hdrFifo[i] # NoWord
      BY <1>8, <2>5 DEF NoToken, HdrFifoEmpty
    <3>2. hdrFifo[i].size = infifo_q.size /\ \A j \in Side : j # i => hdrFifo[j] = NoWord
      BY <1>4, <3>1 DEF TokenInv
    <3>3. hdrFifo'[0] = NoWord
      BY <1>1, <2>5, HdrFifoStep
    <3>4. \A j \in Side : hdrFifo'[j] # NoWord =>
            j > 0 /\ j - 1 \in Side /\ hdrFifo'[j] = hdrFifo[j - 1] /\ j - 1 = i
      BY <1>1, <2>3, <3>2, <3>3, HdrFifoStep
    <3>5. \A j \in Side : hdrFifo'[j] # NoWord =>
            hdrFifo'[j].size = infifo_q'.size /\ \A k \in Side : k # j => hdrFifo'[k] = NoWord
      <4>1. SUFFICES ASSUME NEW j \in Side, hdrFifo'[j] # NoWord
                     PROVE  /\ hdrFifo'[j].size = infifo_q'.size
                            /\ \A k \in Side : k # j => hdrFifo'[k] = NoWord
        OBVIOUS
      <4>2. hdrFifo'[j].size = infifo_q'.size
        BY <4>1, <3>2, <3>4, <1>1
      <4>3. \A k \in Side : hdrFifo'[k] # NoWord => k = j
        <5>1. SUFFICES ASSUME NEW k \in Side, hdrFifo'[k] # NoWord  PROVE k = j
          OBVIOUS
        <5>2. k - 1 = i /\ j - 1 = i
          BY <5>1, <4>1, <3>4
        <5>3. k \in Nat /\ j \in Nat /\ i \in Nat
          BY <2>3
        <5> QED  BY <5>2, <5>3
      <4> QED  BY <4>2, <4>3
    <3>6. pct_header_valid' => inst2_q'.size = infifo_q'.size /\ HdrFifoEmpty'
      <4>1. SUFFICES ASSUME pct_header_valid'
                     PROVE  inst2_q'.size = infifo_q'.size /\ HdrFifoEmpty'
        OBVIOUS
      <4>2. hdrFifo[Lag] # NoWord /\ inst2_q' = hdrFifo[Lag] /\ Lag \in Side
        BY <4>1, <1>1, HdrFifoStep
      <4>3. i = Lag
        BY <4>2, <3>2
      <4>4. \A j \in Side : hdrFifo'[j] = NoWord
        <5>1. SUFFICES ASSUME NEW j \in Side, hdrFifo'[j] # NoWord  PROVE FALSE
          OBVIOUS
        <5>2. j - 1 = Lag
          BY <5>1, <3>4, <4>3
        <5> QED  BY <5>2, ConstantsOK DEF ConstantsOK, Side
      <4> QED  BY <4>2, <4>3, <4>4, <3>2, <1>1 DEF HdrFifoEmpty
    <3> QED  BY <1>2, <1>3, <2>2, <3>5, <3>6 DEF TokenInv
  <2> QED  BY <2>4, <2>5
<1> QED  BY <1>6, <1>7, <1>8

\* The header's way to pct_words, while the reader waits.
LEMMA IdleKeepsToken ==
  ASSUME NoShortPackets, WInv, Clock, phase = "idle"
  PROVE  TokenInv'
<1>1. CASE HeaderHere
  BY <1>1, TokenBegins
<1>2. CASE ~HeaderHere /\ Started /\ ~HeaderTaken
  BY <1>2, TokenMoves
<1>3. CASE ~HeaderHere /\ ~(Started /\ ~HeaderTaken)
  <2>1. NoToken /\ pct_words = AllOnes
    BY <1>3, NotStartedStep, TakenStep
  <2>2. NoToken' /\ pct_words' = AllOnes
    BY <2>1, <1>3, NoTokenStays
  <2> QED  BY <2>2 DEF TokenInv, NoToken, HdrFifoEmpty
<1> QED  BY <1>1, <1>2, <1>3

-----------------------------------------------------------------------------
(***************************************************************************)
(* The announcement.                                                       *)
(***************************************************************************)

\* A packet that is whole, with its end seen by the reader, stays as it is.
LEMMA WholeStays ==
  ASSUME NoShortPackets, WInv, Clock, phase = "idle", Started, ~HeaderTaken, NoToken,
         Len(pctFifo) = Words(infifo_q.size), wptr[Lag] = wptr[0]
  PROVE  /\ sep_state' = "rd_done" /\ rd_cnt' > 0 /\ ~infifo_data_valid'
         /\ rst_sync' = SyncStages /\ wptr'[Lag] = wptr'[0] /\ NoToken'
         /\ Started' /\ ~HeaderTaken' /\ Len(pctFifo') = Words(infifo_q'.size)
<1>1. /\ Started' /\ ~HeaderTaken' /\ Inst1ResetN /\ infifo_q'.size = infifo_q.size
      /\ pctFifo' = pctFifo \o (IF infifo_data_valid THEN <<infifo_q>> ELSE <<>>)
      /\ wr_cnt = Len(pctFifo) /\ rst_sync = SyncStages
      /\ sep_state = "rd_done" => sep_state' = "rd_done" /\ SameWord
  BY WrittenStep
<1>2. /\ rd_cnt \in Nat /\ wr_cnt \in Nat /\ rd_cnt = wr_cnt + (IF infifo_data_valid THEN 1 ELSE 0)
      /\ infifo_data_valid \in BOOLEAN /\ pctFifo \in Seq(WordSet)
      /\ rd_cnt <= Words(infifo_q.size) /\ Words(infifo_q.size) \in Nat
      /\ sep_state \in {"idle", "rd_pct", "rd_done"} /\ sep_state # "idle"
      /\ sep_state = "rd_pct" => rd_cnt < Words(infifo_q.size)
  BY Ranges DEF Started
<1>3. ~infifo_data_valid /\ sep_state = "rd_done"
  BY <1>1, <1>2
<1>4. pctFifo' = pctFifo
  BY <1>1, <1>2, <1>3
<1>5. wptr'[Lag] = wptr'[0]
  BY <1>1, <1>3, CopiedStaysCopied DEF Clock, PctClock, FifoClock
<1>6. NoToken'
  BY <1>3, NoTokenStays DEF HeaderHere
<1>7. rst_sync' = SyncStages
  BY <1>1 DEF Clock, PctClock, FifoClock, ResetSync, Inst1ResetN, SyncStages
<1>8. sep_state' = "rd_done" /\ SameWord
  BY <1>1, <1>3
<1>9. rd_cnt' > 0 /\ ~infifo_data_valid'
  BY <1>1, <1>8 DEF SameWord, Started
<1> QED  BY <1>1, <1>4, <1>5, <1>6, <1>7, <1>8, <1>9

\* The fill level reaches pct_words only when all of the packet is there.
LEMMA FullLevel ==
  ASSUME NoShortPackets, WInv, phase = "idle", PctRdusedw = pct_words
  PROVE  /\ Started /\ ~HeaderTaken /\ NoToken
         /\ Len(pctFifo) = Words(infifo_q.size) /\ wptr[Lag] = wptr[0]
<1>1. /\ rd_cnt \in Nat /\ wr_cnt \in Nat /\ wr_cnt <= rd_cnt /\ Len(pctFifo) \in Nat
      /\ Words(infifo_q.size) \in Nat /\ Words(infifo_q.size) >= 3
      /\ Words(infifo_q.size) < AllOnes /\ AllOnes \in Nat
      /\ Started => rd_cnt <= Words(infifo_q.size)
      /\ pct_q.idx \in Nat
  BY Ranges DEF WordSet
<1>2. PctRdusedw \in Nat /\ PctRdusedw <= Len(pctFifo)
  BY FillLevel DEF WInv, IInv, TypeOK, FifoPart
<1>3. CASE Unannounced
  <2>1. pct_words = AllOnes
    BY <1>3 DEF WInv, TokenInv
  <2>2. CASE ~Started
    <3>1. Len(pctFifo) = 0
      BY <2>2 DEF WInv, ContentInv
    <3> QED  BY <3>1, <2>1, <1>1, <1>2
  <2>3. CASE Started
    <3>1. wr_cnt = Taken + Len(pctFifo) /\ Taken \in Nat
      BY <2>3, <1>1 DEF WInv, ContentInv, Taken
    <3> QED  BY <3>1, <2>1, <2>3, <1>1, <1>2
  <2> QED  BY <2>2, <2>3
<1>4. CASE ~Unannounced
  <2>1. Started /\ ~HeaderTaken
    BY <1>4 DEF Unannounced
  <2>2. wr_cnt = Len(pctFifo)
    BY <2>1, <1>1 DEF WInv, ContentInv, Taken
  <2>3. pct_words # AllOnes
    BY <2>1, <2>2, <1>1, <1>2
  <2>4. NoToken /\ pct_words = Words(infifo_q.size)
    BY <2>3 DEF WInv, TokenInv
  <2>5. Len(pctFifo) = Words(infifo_q.size) /\ PctRdusedw = Len(pctFifo)
    BY <2>1, <2>2, <2>4, <1>1, <1>2
  <2>6. Inst1ResetN
    BY <2>1, ResetReleased
  <2>7. wptr[Lag] - rptr[0] = wptr[0] - rptr[0]
    BY <2>5, <2>6 DEF PctRdusedw, WInv, IInv, PtrInv
  <2>8. wptr[Lag] \in Nat /\ wptr[0] \in Nat /\ rptr[0] \in Nat
    BY ConstantsOK DEF ConstantsOK, Side, WInv, IInv, TypeOK, FifoTypeOK
  <2> QED  BY <2>1, <2>4, <2>5, <2>7, <2>8
<1> QED  BY <1>3, <1>4

\* The phases, while the reader waits.
LEMMA IdleStep ==
  ASSUME NoShortPackets, WInv, Clock, phase = "idle"
  PROVE  ReadInv' /\ IdleInv'
<1>1. \/ phase' = "idle"
      \/ phase' = "hdr" /\ pct_rdy_reg
  BY DEF Clock, Reader, ReaderMoves, WaitPacket, StartPacket, ReadHeader, DropPacket,
         TakePacket, ReadWord, Cleared, Drive
<1>2. CASE phase' = "hdr" /\ pct_rdy_reg
  <2>1. /\ Started /\ ~HeaderTaken /\ NoToken
        /\ Len(pctFifo) = Words(infifo_q.size) /\ wptr[Lag] = wptr[0]
    BY <1>2 DEF WInv, IdleInv
  <2>2. /\ sep_state' = "rd_done" /\ rd_cnt' > 0 /\ ~infifo_data_valid'
        /\ rst_sync' = SyncStages /\ wptr'[Lag] = wptr'[0] /\ NoToken' /\ ~HeaderTaken'
    BY <2>1, WholeStays
  <2> QED  BY <1>2, <2>2 DEF ReadInv, IdleInv
<1>3. CASE phase' = "idle"
  <2>1. ASSUME Started', HeaderTaken'
        PROVE  sep_state' = "rd_done" /\ ~infifo_data_valid' /\ pctFifo' = <<>>
    <3>1. Started
      <4>1. SUFFICES ASSUME ~Started  PROVE FALSE
        OBVIOUS
      <4>2. SameWord /\ rd_cnt' = 0
        BY <4>1, <2>1, NotStartedStep
      <4> QED  BY <4>2, <2>1 DEF Started
    <3>2. HeaderTaken
      BY <3>1, <2>1, WrittenStep
    <3>3. pctFifo' = <<>> /\ SameWord /\ sep_state' \in {"idle", "rd_done"}
      BY <3>1, <3>2, TakenStep
    <3> QED  BY <3>3, <2>1 DEF SameWord, Started
  <2>2. ASSUME pct_rdy_reg'
        PROVE  /\ Started' /\ ~HeaderTaken' /\ NoToken'
               /\ Len(pctFifo') = Words(infifo_q'.size) /\ wptr'[Lag] = wptr'[0]
    <3>1. PctRdusedw = pct_words
      BY <2>2 DEF Clock, PctClock, FifoClock, PctRdy
    <3> QED  BY <3>1, FullLevel, WholeStays
  <2>3. ASSUME rst_sync' < SyncStages
        PROVE  /\ ~infifo_data_valid'
               /\ sep_state' = "idle" \/ (sep_state' = "rd_pct" /\ rd_cnt' = 0 /\ rst_sync' = 1)
    <3>1. /\ pct_aclr_n /\ rst_sync \in 0 .. SyncStages
          /\ rst_sync' = IF ~pct_aclr_n THEN 0
                         ELSE IF rst_sync < SyncStages THEN rst_sync + 1 ELSE rst_sync
      BY DEF Clock, PctClock, FifoClock, ResetSync, WInv, DriveInv, IInv, TypeOK, FifoTypeOK
    <3>2. rst_sync = 0 /\ rst_sync' = 1
      BY <3>1, <2>3 DEF SyncStages
    <3>3. sep_state = "idle"
      BY <3>2 DEF WInv, IdleInv, SyncStages
    <3>4. SameWord /\ sep_state' \in {"idle", "rd_pct"} /\ rd_cnt' = 0
      BY <3>3, SepStep DEF SameWord
    <3> QED  BY <3>2, <3>4 DEF SameWord
  <2> QED  BY <1>3, <2>1, <2>2, <2>3 DEF ReadInv, IdleInv
<1> QED  BY <1>1, <1>2, <1>3

-----------------------------------------------------------------------------
(***************************************************************************)
(* A clock in which the reader has the packet.                             *)
(***************************************************************************)

\* The rest of the system stands still until the reader clears.
LEMMA RestStands ==
  ASSUME NoShortPackets, WInv, Clock, phase # "idle"
  PROVE  /\ SameWord /\ infifo_q' = infifo_q /\ rd_cnt' = rd_cnt /\ wr_cnt' = wr_cnt
         /\ ~infifo_data_valid' /\ rd_cnt > 0
         /\ NoToken' /\ pct_words' = AllOnes /\ TokenInv'
         /\ sep_state' = IF PctWrempty THEN "idle" ELSE "rd_done"
<1>1. /\ sep_state = "rd_done" /\ ~infifo_data_valid /\ NoToken /\ rd_cnt > 0
      /\ phase # "hdr" => pct_words = AllOnes
      /\ phase = "hdr" => pct_data_rdreq
  BY DEF WInv, ReadInv, DriveInv
<1>2. SameWord /\ wr_cnt' = wr_cnt /\ sep_state' = IF PctWrempty THEN "idle" ELSE "rd_done"
  BY <1>1, SepStep
<1>3. NoToken' /\ pct_words' \in {pct_words, AllOnes}
  BY <1>1, NoTokenStays DEF HeaderHere
<1>4. pct_words' = AllOnes
  <2>1. CASE phase = "hdr"
    BY <2>1, <1>1 DEF Clock, PctClock, FifoClock, PctWords
  <2>2. CASE phase # "hdr"
    BY <2>2, <1>1, <1>3
  <2> QED  BY <2>1, <2>2
<1>5. TokenInv'
  BY <1>3, <1>4 DEF TokenInv, NoToken, HdrFifoEmpty
<1>6. infifo_q' = infifo_q /\ rd_cnt' = rd_cnt /\ ~infifo_data_valid'
  BY <1>1, <1>2 DEF SameWord
<1> QED  BY <1>1, <1>2, <1>3, <1>4, <1>5, <1>6

\* The FIFO in such a clock, unless the reader clears it: while words are left
\* it is not seen empty, and a read finds the next of them.
LEMMA FifoServes ==
  ASSUME NoShortPackets, WInv, Clock, phase \in {"hdr", "hold", "read"}, pctFifo # <<>>
  PROVE  /\ sep_state' = "rd_done" /\ rst_sync' = SyncStages /\ wptr'[Lag] = wptr'[0]
         /\ phase = "hold" => pctFifo' = pctFifo /\ pct_q' = pct_q
         /\ phase # "hold" => pctFifo' = Tail(pctFifo) /\ pct_q' = pctFifo[1]
         /\ PctRdusedw = Len(pctFifo)
<1>1. /\ Inst1ResetN /\ rst_sync = SyncStages /\ ~infifo_data_valid /\ wptr[Lag] = wptr[0]
      /\ phase = "hold" => ~pct_data_rdreq
      /\ phase # "hold" => pct_data_rdreq
  BY DEF WInv, ReadInv, DriveInv, Inst1ResetN
<1>2. DataFifo /\ ResetSync
  BY DEF Clock, PctClock, FifoClock
<1>3. ~PctWrempty
  BY <1>1, WremptyMeansEmpty
<1>4. sep_state' = "rd_done"
  BY <1>3, RestStands
<1>5. wptr'[Lag] = wptr'[0]
  BY <1>1, <1>2, CopiedStaysCopied
<1>6. rst_sync' = SyncStages
  BY <1>1, <1>2 DEF ResetSync, Inst1ResetN, SyncStages
<1>7. PctRdusedw = Len(pctFifo)
  BY <1>1 DEF PctRdusedw, WInv, IInv, PtrInv
<1>8. pctFifo \in Seq(WordSet) /\ Len(pctFifo) # 0
  BY Ranges
<1>9. PctRead <=> phase # "hold"
  BY <1>1, <1>7, <1>8 DEF PctRead, PctRdempty
<1>10. /\ pctFifo' = (IF PctRead THEN Tail(pctFifo) ELSE pctFifo) \o <<>>
       /\ pct_q' = IF PctRead THEN Head(pctFifo) ELSE pct_q
  BY <1>1, <1>2 DEF DataFifo
<1>11. CASE phase = "hold"
  <2>1. pctFifo' = pctFifo /\ pct_q' = pct_q
    BY <1>8, <1>9, <1>10, <1>11
  <2> QED  BY <2>1, <1>4, <1>5, <1>6, <1>7, <1>11
<1>12. CASE phase # "hold"
  <2>1. Tail(pctFifo) \in Seq(WordSet) /\ Head(pctFifo) = pctFifo[1]
    BY <1>8
  <2>2. pctFifo' = Tail(pctFifo) /\ pct_q' = pctFifo[1]
    BY <2>1, <1>9, <1>10, <1>12
  <2> QED  BY <2>2, <1>4, <1>5, <1>6, <1>7, <1>12
<1> QED  BY <1>11, <1>12

\* Reading a word moves it from the FIFO to what is taken.
LEMMA ReadKeepsContent ==
  ASSUME NoShortPackets, WInv, Clock, phase \in {"hdr", "read"}, pctFifo # <<>>
  PROVE  /\ ContentInv' /\ HeaderTaken' /\ pct_q'.idx = Taken + 1
         /\ Len(pctFifo') = Len(pctFifo) - 1 /\ Len(pctFifo) > 0
<1>1. /\ sep_state' = "rd_done" /\ pctFifo' = Tail(pctFifo) /\ pct_q' = pctFifo[1]
  BY FifoServes
<1>2. /\ infifo_q' = infifo_q /\ rd_cnt' = rd_cnt /\ wr_cnt' = wr_cnt /\ rd_cnt > 0
  BY RestStands
<1>3. /\ pctFifo \in Seq(WordSet) /\ Len(pctFifo) \in Nat /\ wr_cnt \in Nat
      /\ pct_q.idx \in Nat /\ infifo_q.pkt \in Nat
  BY Ranges DEF WordSet
<1>4. /\ Len(pctFifo) > 0 /\ Len(pctFifo') = Len(pctFifo) - 1
      /\ \A k \in 1 .. Len(pctFifo') : pctFifo'[k] = pctFifo[k + 1] /\ k + 1 \in 1 .. Len(pctFifo)
  BY <1>1, <1>3
<1>5. Started
  BY <1>2 DEF WInv, ReadInv, Started
<1>6. /\ wr_cnt = Taken + Len(pctFifo)
      /\ \A k \in 1 .. Len(pctFifo) : pctFifo[k] = HeldWord(k)
  BY <1>5 DEF WInv, ContentInv
<1>7. pct_q' = HeldWord(1)
  BY <1>1, <1>3, <1>4, <1>6
<1>8. Taken \in Nat
  BY <1>3 DEF Taken
<1>9. pct_q'.pkt = infifo_q'.pkt /\ pct_q'.size = infifo_q'.size /\ pct_q'.idx = Taken + 1
  BY <1>7, <1>2 DEF HeldWord
<1>10. HeaderTaken' /\ Taken' = Taken + 1
  BY <1>9 DEF HeaderTaken, Taken
<1>11. wr_cnt' = Taken' + Len(pctFifo')
  BY <1>2, <1>3, <1>4, <1>6, <1>8, <1>10
<1>12. \A k \in 1 .. Len(pctFifo') : pctFifo'[k] = HeldWord(k)'
  <2>1. SUFFICES ASSUME NEW k \in 1 .. Len(pctFifo')
                 PROVE  pctFifo'[k] = HeldWord(k)'
    OBVIOUS
  <2>2. pctFifo'[k] = HeldWord(k + 1)
    BY <1>4, <1>6
  <2>3. Taken' + k = Taken + (k + 1)
    BY <1>8, <1>10
  <2> QED  BY <2>2, <2>3, <1>2 DEF HeldWord
<1>13. Started'
  BY <1>1, <1>2 DEF Started
<1> QED  BY <1>4, <1>9, <1>10, <1>11, <1>12, <1>13 DEF ContentInv

\* The clock in which the reader takes the header.
LEMMA HdrStep ==
  ASSUME NoShortPackets, WInv, Clock, phase = "hdr"
  PROVE  ContentInv' /\ ReadInv' /\ IdleInv'
<1>1. ~HeaderTaken /\ rd_cnt > 0 /\ sep_state = "rd_done" /\ ~infifo_data_valid
  BY DEF WInv, ReadInv
<1>2. /\ wr_cnt = Taken + Len(pctFifo) /\ Taken = 0
  BY <1>1 DEF WInv, ContentInv, Started, Taken
<1>3. Len(pctFifo) > 0
  BY <1>1, <1>2, Ranges
<1>4. pctFifo # <<>>
  BY <1>3
<1>5. /\ ContentInv' /\ HeaderTaken' /\ pct_q'.idx = 1
  BY <1>2, <1>4, ReadKeepsContent
<1>6. phase' = "hold"
  BY DEF Clock, Reader, ReaderMoves, WaitPacket, StartPacket, ReadHeader, DropPacket,
         TakePacket, ReadWord, Cleared, Drive
<1>7. sep_state' = "rd_done" /\ rst_sync' = SyncStages /\ wptr'[Lag] = wptr'[0]
  BY <1>4, FifoServes
<1>8. rd_cnt' > 0 /\ ~infifo_data_valid' /\ NoToken' /\ pct_words' = AllOnes
  BY RestStands
<1> QED  BY <1>5, <1>6, <1>7, <1>8 DEF ReadInv, IdleInv

\* A clock in which the reader has the header and decides to read, to clear or to wait.
LEMMA HoldStep ==
  ASSUME NoShortPackets, WInv, Clock, phase = "hold"
  PROVE  ContentInv' /\ ReadInv' /\ IdleInv'
<1>1. /\ HeaderTaken /\ pct_q.idx = 1 /\ rd_cnt > 0 /\ sep_state = "rd_done"
      /\ ~infifo_data_valid
  BY DEF WInv, ReadInv
<1>2. /\ infifo_q \in WordSet /\ pct_q \in WordSet /\ Len(pctFifo) \in Nat
      /\ Words(infifo_q.size) \in Nat /\ Words(infifo_q.size) >= 3
      /\ wr_cnt = Words(infifo_q.size) /\ wr_cnt \in Nat
  BY <1>1, Ranges
<1>3. pct_q.size = infifo_q.size /\ wr_cnt = 1 + Len(pctFifo)
  BY <1>1, <1>2 DEF WInv, ContentInv, Started, Taken, HeaderTaken, WordSet
<1>4. Len(pctFifo) > 0 /\ Len(pctFifo) = Words(pct_q.size) - 1 /\ Words(pct_q.size) > 1
  BY <1>2, <1>3
<1>5. pctFifo # <<>>
  BY <1>4
<1>6. /\ sep_state' = "rd_done" /\ rst_sync' = SyncStages /\ wptr'[Lag] = wptr'[0]
      /\ pctFifo' = pctFifo /\ pct_q' = pct_q
  BY <1>5, FifoServes
<1>7. /\ rd_cnt' > 0 /\ ~infifo_data_valid' /\ NoToken' /\ pct_words' = AllOnes
      /\ infifo_q' = infifo_q /\ rd_cnt' = rd_cnt /\ wr_cnt' = wr_cnt
  BY RestStands
<1>8. ContentInv' /\ HeaderTaken'
  <2>1. Started <=> Started'
    BY <1>1, <1>6, <1>7 DEF Started
  <2>2. Taken' = Taken /\ (HeaderTaken' <=> HeaderTaken) /\ \A k : HeldWord(k)' = HeldWord(k)
    BY <1>6, <1>7 DEF Taken, HeaderTaken, HeldWord
  <2>3. ContentInv
    BY DEF WInv
  <2> QED  BY <1>1, <1>6, <1>7, <2>1, <2>2, <2>3 DEF ContentInv
<1>9. \/ phase' \in {"hold", "clr"}
      \/ phase' = "read" /\ left' = Words(pct_q.size) - 1
  BY <1>4 DEF Clock, Reader, ReaderMoves, WaitPacket, StartPacket, ReadHeader, DropPacket,
         TakePacket, ReadWord, Cleared, Drive
<1>10. pct_q'.idx = 1 /\ (phase' = "read" => left' = Len(pctFifo') /\ left' > 0)
  BY <1>1, <1>4, <1>6, <1>9
<1> QED  BY <1>6, <1>7, <1>8, <1>9, <1>10 DEF ReadInv, IdleInv

\* A clock in which the reader takes a word.
LEMMA ReadStep ==
  ASSUME NoShortPackets, WInv, Clock, phase = "read"
  PROVE  ContentInv' /\ ReadInv' /\ IdleInv'
<1>1. /\ HeaderTaken /\ rd_cnt > 0 /\ sep_state = "rd_done" /\ ~infifo_data_valid
      /\ left = Len(pctFifo) /\ left > 0 /\ pct_words = AllOnes
  BY DEF WInv, ReadInv
<1>2. /\ pct_q \in WordSet /\ Len(pctFifo) \in Nat /\ pctFifo \in Seq(WordSet)
      /\ wr_cnt = Words(infifo_q.size) /\ wr_cnt \in Nat /\ wr_cnt < AllOnes /\ AllOnes \in Nat
  BY <1>1, Ranges
<1>3. pctFifo # <<>>
  BY <1>1
<1>4. /\ ContentInv' /\ HeaderTaken' /\ Len(pctFifo') = Len(pctFifo) - 1
  BY <1>3, ReadKeepsContent
<1>5. /\ sep_state' = "rd_done" /\ rst_sync' = SyncStages /\ wptr'[Lag] = wptr'[0]
      /\ PctRdusedw = Len(pctFifo)
  BY <1>3, FifoServes
<1>6. rd_cnt' > 0 /\ ~infifo_data_valid' /\ NoToken' /\ pct_words' = AllOnes
  BY RestStands
<1>7. \/ phase' = "read" /\ left' = left - 1 /\ left > 1
      \/ phase' = "idle" /\ ~(left > 1)
  BY DEF Clock, Reader, ReaderMoves, WaitPacket, StartPacket, ReadHeader, DropPacket,
         TakePacket, ReadWord, Cleared, Drive
<1>8. CASE phase' = "read" /\ left' = left - 1 /\ left > 1
  <2>1. left' = Len(pctFifo') /\ left' > 0
    BY <1>1, <1>2, <1>4, <1>8
  <2> QED  BY <1>4, <1>5, <1>6, <1>8, <2>1 DEF ReadInv, IdleInv
<1>9. CASE phase' = "idle" /\ ~(left > 1)
  <2>1. pctFifo' \in Seq(WordSet)
    BY ClockKeepsIInv DEF WInv, IInv, TypeOK, FifoTypeOK
  <2>2. Len(pctFifo') = 0
    BY <1>1, <1>2, <1>4, <1>9
  <2>3. pctFifo' = <<>>
    BY <2>1, <2>2
  <2>4. wr_cnt = Taken + Len(pctFifo) /\ Taken \in Nat
    BY <1>1, <1>2 DEF WInv, ContentInv, Started, Taken, WordSet
  <2>5. PctRdusedw # pct_words
    BY <1>1, <1>2, <1>5, <2>4
  <2>6. ~pct_rdy_reg'
    BY <2>5 DEF Clock, PctClock, FifoClock, PctRdy
  <2>7. ~(rst_sync' < SyncStages)
    BY <1>5 DEF SyncStages
  <2> QED  BY <1>4, <1>5, <1>6, <1>9, <2>3, <2>6, <2>7 DEF ReadInv, IdleInv
<1> QED  BY <1>7, <1>8, <1>9

\* The clock in which the reader clears the packet.
LEMMA ClearStep ==
  ASSUME NoShortPackets, WInv, Clock, phase = "clr"
  PROVE  ContentInv' /\ ReadInv' /\ IdleInv'
<1>1. HeaderTaken /\ pct_words = AllOnes
  BY DEF WInv, ReadInv
<1>2. ~pct_aclr_n /\ ~pct_data_rdreq
  BY DEF WInv, DriveInv
<1>3. ~Inst1ResetN /\ PctWrempty /\ PctRdusedw = 0 /\ ~PctRead
  BY <1>2 DEF Inst1ResetN, PctWrempty, PctRdusedw, PctRead
<1>4. pctFifo' = <<>> /\ pct_q' = pct_q /\ rst_sync' = 0
  BY <1>2, <1>3 DEF Clock, PctClock, FifoClock, DataFifo, ResetSync
<1>5. sep_state' = "idle" /\ infifo_q' = infifo_q /\ ~infifo_data_valid'
  BY <1>3, RestStands
<1>6. phase' = "idle"
  BY DEF Clock, Reader, ReaderMoves, WaitPacket, StartPacket, ReadHeader, DropPacket,
         TakePacket, ReadWord, Cleared, Drive
<1>7. ~Started' /\ HeaderTaken'
  BY <1>1, <1>4, <1>5 DEF Started, HeaderTaken
<1>8. ~pct_rdy_reg'
  <2>1. pct_words # 0
    BY <1>1, Ranges
  <2> QED  BY <2>1, <1>3 DEF Clock, PctClock, FifoClock, PctRdy
<1> QED  BY <1>4, <1>5, <1>6, <1>7, <1>8 DEF ContentInv, ReadInv, IdleInv

-----------------------------------------------------------------------------
(***************************************************************************)
(* The invariant, and the properties.                                      *)
(***************************************************************************)
LEMMA InitWInv ==
  ASSUME NoShortPackets, Init
  PROVE  WInv
<1>1. IInv
  BY InitIInv
<1>2. 0 \in Side /\ Lag \in Side
  BY ConstantsOK DEF ConstantsOK, Side
<1>3. DriveInv /\ DoneInv
  BY DEF Init, PctInit, DriveInv, DoneInv
<1>4. RptrInv
  BY <1>2 DEF Init, PctInit, RptrInv
<1>5. ~Started /\ HeaderTaken /\ pctFifo = <<>> /\ NoToken /\ pct_words = AllOnes
  BY DEF Init, PctInit, Started, HeaderTaken, NoToken, HdrFifoEmpty
<1>6. ContentInv
  BY <1>5 DEF ContentInv
<1>7. ReadInv /\ IdleInv
  BY <1>5 DEF Init, PctInit, ReadInv, IdleInv
<1>8. TokenInv
  BY <1>5 DEF TokenInv, NoToken, HdrFifoEmpty
<1> QED  BY <1>1, <1>3, <1>4, <1>6, <1>7, <1>8 DEF WInv

\* So every clock keeps the invariant.
LEMMA ClockKeepsWInv ==
  ASSUME NoShortPackets, WInv, Clock
  PROVE  WInv'
<1>1. IInv'
  BY ClockKeepsIInv DEF WInv
<1>2. DriveInv' /\ DoneInv'
  BY DriveStep, DoneStep DEF Clock
<1>3. RptrInv'
  BY RptrStep DEF WInv, Clock, PctClock, FifoClock
<1>4. ContentInv' /\ ReadInv' /\ IdleInv' /\ TokenInv'
  <2>1. CASE phase = "idle"
    BY <2>1, IdleKeepsContent, IdleStep, IdleKeepsToken
  <2>2. CASE phase # "idle"
    <3>1. TokenInv'
      BY <2>2, RestStands
    <3>2. phase \in {"hdr", "hold", "read", "clr"}
      BY <2>2, Ranges
    <3> QED  BY <3>1, <3>2, HdrStep, HoldStep, ReadStep, ClearStep
  <2> QED  BY <2>1, <2>2
<1> QED  BY <1>1, <1>2, <1>3, <1>4 DEF WInv

\* The host's steps, and steps of nobody, change nothing the invariant adds.
LEMMA OthersKeepWInv ==
  ASSUME WInv, IInv',
         UNCHANGED <<sepVars, fifoVars, pct_data_rdreq, pct_aclr_n, phase, left>>
  PROVE  WInv'
<1>1. UNCHANGED sepVars /\ UNCHANGED fifoVars
      /\ UNCHANGED <<pct_data_rdreq, pct_aclr_n, phase, left>>
  OBVIOUS
<1>2. /\ DriveInv' /\ RptrInv' /\ DoneInv'
  BY <1>1 DEF WInv, DriveInv, RptrInv, DoneInv, sepVars, fifoVars
<1>3. /\ Started' <=> Started
      /\ HeaderTaken' <=> HeaderTaken
      /\ NoToken' <=> NoToken
      /\ HdrFifoEmpty' <=> HdrFifoEmpty
      /\ Unannounced' <=> Unannounced
      /\ Taken' = Taken /\ \A k : HeldWord(k)' = HeldWord(k)
  BY <1>1 DEF Started, HeaderTaken, NoToken, HdrFifoEmpty, Unannounced, Taken, HeldWord,
              sepVars, fifoVars
<1>4. ContentInv'
  BY <1>1, <1>3 DEF WInv, ContentInv, sepVars, fifoVars
<1>5. ReadInv'
  BY <1>1, <1>3 DEF WInv, ReadInv, sepVars, fifoVars
<1>6. IdleInv'
  BY <1>1, <1>3 DEF WInv, IdleInv, sepVars, fifoVars
<1>7. TokenInv'
  BY <1>1, <1>3 DEF WInv, TokenInv, sepVars, fifoVars
<1> QED  BY <1>2, <1>4, <1>5, <1>6, <1>7 DEF WInv

\* The inductive invariant of the packet holds in every state.
THEOREM PacketInvariance ==
  ASSUME NoShortPackets
  PROVE  Spec => []WInv
<1>1. Init => WInv
  BY InitWInv
<1>2. WInv /\ IInv' /\ [Next]_vars => WInv'
  <2> SUFFICES ASSUME WInv, IInv', [Next]_vars
               PROVE  WInv'
    OBVIOUS
  <2>1. CASE HostStep
    BY <2>1, OthersKeepWInv DEF HostStep
  <2>2. CASE Clock
    BY <2>2, ClockKeepsWInv
  <2>3. CASE UNCHANGED vars
    BY <2>3, OthersKeepWInv DEF vars
  <2> QED  BY <2>1, <2>2, <2>3 DEF Next
<1> QED  BY <1>1, <1>2, Invariance, PTL DEF Spec

\* For packets of any sizes of three words or more, any delay of the dual-clock
\* FIFO's pointers, any pace of the host and any choice of the reader, the FIFO
\* holds words of one packet only, from where the reader stopped.
THEOREM HoldsOnePacket ==
  ASSUME NoShortPackets
  PROVE  Spec => []OnePacketOnly
<1>1. WInv => OnePacketOnly
  BY WInvGivesOnePacketOnly
<1> QED  BY <1>1, PacketInvariance, PTL

\* And a packet is announced only when all of it is in the FIFO.
THEOREM AnnouncesWhole ==
  ASSUME NoShortPackets
  PROVE  Spec => []ReadyMeansWhole
<1>1. WInv => ReadyMeansWhole
  BY WInvGivesReadyMeansWhole
<1> QED  BY <1>1, PacketInvariance, PTL

\* And no word is written into a FIFO that is still in reset after a clear,
\* although pct_separate_fsm does not know of the reset.
THEOREM ResetLosesNothing ==
  ASSUME NoShortPackets
  PROVE  Spec => []NoWriteInReset
<1>1. WInv => NoWriteInReset
  BY WInvGivesNoWriteInReset
<1> QED  BY <1>1, PacketInvariance, PTL

-----------------------------------------------------------------------------
(***************************************************************************)
(* The separator, the FIFO and the reader implement PacketFeed.            *)
(***************************************************************************)
\* The host sends sizes of SizeFields only.
Sized(w) == w = NoWord \/ w.size \in SizeFields
SizesInv == Sized(host) /\ Sized(infifo_q) /\ \A k \in 1 .. Len(infifo) : Sized(infifo[k])

\* All packets on their way are of the sizes that the host sends.
LEMMA HostSizes ==
  ASSUME NoShortPackets
  PROVE  Spec => []SizesInv
<1>1. Init => SizesInv
  BY DEF Init, PctInit, SizesInv, Sized
<1>2. IInv /\ SizesInv /\ [Next]_vars => SizesInv'
  <2> SUFFICES ASSUME IInv, SizesInv, [Next]_vars
               PROVE  SizesInv'
    OBVIOUS
  <2>1. infifo \in Seq(WordSet) /\ host \in WordSet
    BY DEF IInv, TypeOK, HostTypeOK
  <2>2. CASE HostStep
    <3>1. HostWrite /\ infifo_q' = infifo_q
      BY <2>2 DEF HostStep, sepVars
    <3>2. Sized(host')
      <4>1. CASE \E f \in SizeFields : host' = [pkt |-> host.pkt + 1, idx |-> 1, size |-> f]
        BY <4>1 DEF Sized
      <4>2. CASE ~PacketEnds(host) /\ host' = [host EXCEPT !.idx = @ + 1]
        BY <2>1, <4>2 DEF Sized, SizesInv, PacketEnds, WordSet
      <4> QED  BY <3>1, <4>1, <4>2 DEF HostWrite
    <3>3. infifo' = Append(infifo, host')
      BY <3>1 DEF HostWrite
    <3>4. \A k \in 1 .. Len(infifo') :
            \/ infifo'[k] = host'
            \/ k \in 1 .. Len(infifo) /\ infifo'[k] = infifo[k]
      BY <2>1, <3>3
    <3> QED  BY <3>1, <3>2, <3>4 DEF SizesInv
  <2>3. CASE Clock
    <3>1. host' = host /\ InfifoRead
      BY <2>3 DEF Clock, PctClock, SepClock
    <3>2. CASE InfifoRdreq
      <4>1. infifo # <<>> /\ infifo' = Tail(infifo) /\ infifo_q' = Head(infifo)
        BY <3>1, <3>2 DEF InfifoRead, InfifoRdreq
      <4>2. infifo_q' = infifo[1] /\ 1 \in 1 .. Len(infifo)
        BY <2>1, <4>1
      <4>3. \A k \in 1 .. Len(infifo') : infifo'[k] = infifo[k + 1] /\ k + 1 \in 1 .. Len(infifo)
        BY <2>1, <4>1
      <4> QED  BY <3>1, <4>2, <4>3 DEF SizesInv
    <3>3. CASE ~InfifoRdreq
      BY <3>1, <3>3 DEF InfifoRead, SizesInv
    <3> QED  BY <3>2, <3>3
  <2>4. CASE UNCHANGED vars
    BY <2>4 DEF vars, hostVars, sepVars, SizesInv
  <2> QED  BY <2>2, <2>3, <2>4 DEF Next
<1> QED  BY <1>1, <1>2, Invariance, PTL DEF Spec

\* The packet the reader takes is the next one, and as long as its header says.
LEMMA HdrTakesHeader ==
  ASSUME NoShortPackets, WInv, SizesInv, Clock, phase = "hdr"
  PROVE  Feed!Header
<1>1. ~HeaderTaken /\ rd_cnt > 0 /\ sep_state = "rd_done" /\ ~infifo_data_valid
  BY DEF WInv, ReadInv
<1>2. Started /\ Taken = 0
  BY <1>1 DEF Started, Taken
<1>3. /\ infifo_q \in WordSet /\ pct_q \in WordSet /\ Len(pctFifo) \in Nat
      /\ pctFifo \in Seq(WordSet)
      /\ Words(infifo_q.size) \in Nat /\ Words(infifo_q.size) >= 3
      /\ wr_cnt = Words(infifo_q.size) /\ wr_cnt \in Nat
  BY <1>1, Ranges
<1>4. Len(pctFifo) = Words(infifo_q.size)
  BY <1>2, <1>3 DEF WInv, ContentInv
<1>5. pctFifo # <<>> /\ 1 \in 1 .. Len(pctFifo)
  BY <1>3, <1>4
<1>6. /\ pct_q' = pctFifo[1] /\ Len(pctFifo') = Words(infifo_q.size) - 1
  BY <1>4, <1>5, FifoServes, ReadKeepsContent
<1>7. pctFifo[1] = HeldWord(1)
  BY <1>2, <1>5 DEF WInv, ContentInv
<1>8. infifo_q.pkt = pct_q.pkt + 1
  BY <1>1, <1>2, <1>3 DEF WInv, ContentInv, HeaderTaken, WordSet
<1>9. pct_q' = [pkt |-> pct_q.pkt + 1, idx |-> 1, size |-> infifo_q.size]
  BY <1>2, <1>6, <1>7, <1>8 DEF HeldWord
<1>10. infifo_q.size \in SizeFields
  <2>1. infifo_q # NoWord
    BY <1>1, Ranges DEF NoWord
  <2> QED  BY <2>1 DEF SizesInv, Sized
<1>11. phase' = "hold"
  BY DEF Clock, Reader, ReaderMoves, WaitPacket, StartPacket, ReadHeader, DropPacket,
         TakePacket, ReadWord, Cleared, Drive
<1> QED  BY <1>6, <1>9, <1>10, <1>11 DEF Feed!Header, InPacket

\* While it holds the header it waits, drops the packet or goes on to read it.
LEMMA HoldWaitsOrDrops ==
  ASSUME NoShortPackets, WInv, Clock, phase = "hold"
  PROVE  Feed!Drop \/ (pct_q' = pct_q /\ InPacket' /\ InPacket /\ Len(pctFifo') = Len(pctFifo))
<1>1. /\ HeaderTaken /\ pct_q.idx = 1 /\ rd_cnt > 0 /\ sep_state = "rd_done"
  BY DEF WInv, ReadInv
<1>2. /\ infifo_q \in WordSet /\ pct_q \in WordSet /\ Len(pctFifo) \in Nat
      /\ Words(infifo_q.size) \in Nat /\ Words(infifo_q.size) >= 3
      /\ wr_cnt = Words(infifo_q.size) /\ wr_cnt \in Nat
  BY <1>1, Ranges DEF WInv, ReadInv
<1>3. pct_q.size = infifo_q.size /\ wr_cnt = 1 + Len(pctFifo)
  BY <1>1, <1>2 DEF WInv, ContentInv, Started, Taken, HeaderTaken, WordSet
<1>4. Len(pctFifo) > 0 /\ Words(pct_q.size) > 1
  BY <1>2, <1>3
<1>5. pctFifo # <<>>
  BY <1>4
<1>6. pctFifo' = pctFifo /\ pct_q' = pct_q
  BY <1>5, FifoServes
<1>7. phase' \in {"hold", "read", "clr"}
  BY <1>4 DEF Clock, Reader, ReaderMoves, WaitPacket, StartPacket, ReadHeader, DropPacket,
         TakePacket, ReadWord, Cleared, Drive
<1>8. CASE phase' = "clr"
  BY <1>1, <1>4, <1>6, <1>8 DEF Feed!Drop, InPacket
<1>9. CASE phase' \in {"hold", "read"}
  BY <1>6, <1>9 DEF InPacket
<1> QED  BY <1>7, <1>8, <1>9

\* Reading a word gives the packet's next one.
LEMMA ReadGivesWord ==
  ASSUME NoShortPackets, WInv, Clock, phase = "read"
  PROVE  Feed!Word
<1>1. /\ HeaderTaken /\ rd_cnt > 0 /\ sep_state = "rd_done"
      /\ left = Len(pctFifo) /\ left > 0
  BY DEF WInv, ReadInv
<1>2. pct_q \in WordSet /\ infifo_q \in WordSet /\ Len(pctFifo) \in Nat /\ pctFifo \in Seq(WordSet)
  BY Ranges
<1>3. pctFifo # <<>> /\ 1 \in 1 .. Len(pctFifo)
  BY <1>1, <1>2
<1>4. Started /\ Taken = pct_q.idx
  BY <1>1 DEF Started, Taken
<1>5. pct_q' = HeldWord(1) /\ Len(pctFifo') = Len(pctFifo) - 1
  BY <1>3, <1>4, FifoServes, ReadKeepsContent DEF WInv, ContentInv
<1>6. pct_q.pkt = infifo_q.pkt /\ pct_q.size = infifo_q.size
  BY <1>1, <1>2, <1>4 DEF WInv, ContentInv, HeaderTaken, WordSet
<1>7. pct_q' = [pct_q EXCEPT !.idx = @ + 1]
  BY <1>2, <1>4, <1>5, <1>6 DEF HeldWord, WordSet
<1>8. phase' = "read" \/ (phase' = "idle" /\ left = 1)
  <2>1. phase' = "read" \/ (phase' = "idle" /\ ~(left > 1))
    BY DEF Clock, Reader, ReaderMoves, WaitPacket, StartPacket, ReadHeader, DropPacket,
         TakePacket, ReadWord, Cleared, Drive
  <2> QED  BY <2>1, <1>1, <1>2
<1> QED  BY <1>1, <1>2, <1>5, <1>7, <1>8 DEF Feed!Word, InPacket

\* Between packets, and while it clears, the reader gets nothing.
LEMMA OtherwiseNothing ==
  ASSUME NoShortPackets, WInv, Clock, phase \in {"idle", "clr"}
  PROVE  pct_q' = pct_q /\ ~InPacket /\ ~InPacket'
<1>1. ~pct_data_rdreq
  BY DEF WInv, DriveInv
<1>2. pct_q' = pct_q
  BY <1>1 DEF Clock, PctClock, FifoClock, DataFifo, PctRead
<1>3. phase' \in {"idle", "hdr"}
  BY DEF Clock, Reader, ReaderMoves, WaitPacket, StartPacket, ReadHeader, DropPacket,
         TakePacket, ReadWord, Cleared, Drive
<1> QED  BY <1>2, <1>3 DEF InPacket

\* The separator, the FIFO and the reader implement PacketFeed: for packets of
\* any sizes of three words or more, the reader gets the host's packets in order
\* and of each all words or the header alone.
THEOREM ImplementsPacketFeed ==
  ASSUME NoShortPackets
  PROVE  Spec => FeedsPackets
<1>1. Init => Feed!Init
  BY DEF Init, PctInit, Feed!Init, InPacket, NoWord
<1>2. WInv /\ SizesInv /\ [Next]_vars => [Feed!Next]_<<pct_q, IF InPacket THEN Len(pctFifo) ELSE 0>>
  <2> SUFFICES ASSUME WInv, SizesInv, [Next]_vars
               PROVE  [Feed!Next]_<<pct_q, IF InPacket THEN Len(pctFifo) ELSE 0>>
    OBVIOUS
  <2>1. CASE HostStep
    BY <2>1 DEF HostStep, fifoVars, InPacket
  <2>2. CASE Clock
    <3>1. CASE phase = "hdr"
      BY <2>2, <3>1, HdrTakesHeader DEF Feed!Next
    <3>2. CASE phase = "hold"
      BY <2>2, <3>2, HoldWaitsOrDrops DEF Feed!Next
    <3>3. CASE phase = "read"
      BY <2>2, <3>3, ReadGivesWord DEF Feed!Next
    <3>4. CASE phase \in {"idle", "clr"}
      BY <2>2, <3>4, OtherwiseNothing
    <3> QED  BY <3>1, <3>2, <3>3, <3>4, Ranges
  <2>3. CASE UNCHANGED vars
    BY <2>3 DEF vars, fifoVars, InPacket
  <2> QED  BY <2>1, <2>2, <2>3 DEF Next
<1> QED  BY <1>1, <1>2, PacketInvariance, HostSizes, PTL DEF Spec, FeedsPackets, Feed!Safety
=============================================================================
