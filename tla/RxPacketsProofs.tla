-------------------------- MODULE RxPacketsProofs --------------------------
(***************************************************************************)
(* Proofs about RxPackets, for all lengths of packets, sizes of the FIFOs  *)
(* and delays of their pointers: no sample is lost, what is handed on are  *)
(* whole packets with the number of their first sample, and they fit.      *)
(*                                                                         *)
(* From the first read of a packet to the state machine's return to idle   *)
(* the path is a schedule: what each register holds c clocks after the     *)
(* first read is a function of the width w, of the packet's first sample   *)
(* b, of c, and of whether the packet is sent or thrown away.  The         *)
(* invariant says so (Sched(w, b, c)), and that between two packets        *)
(* everything has come to rest (RestInv).  The samples that wait are       *)
(* counted twice: one comes in every other clock at most, so that twice    *)
(* their number grows by one a clock, and falls by two in a clock of       *)
(* reading (WaitingInv).                                                   *)
(***************************************************************************)
EXTENDS RxPackets, Integers, TLAPS

-----------------------------------------------------------------------------
(***************************************************************************)
(* A packet of width w with first sample b.                                *)
(***************************************************************************)
N(w) == SmplRdSize[w]
L(w) == Latency[w]

\* The i-th data word, from 0, begins with this sample of the packet.
FirstOf(w, i) == IF w = "16" THEN i ELSE i + i \div (Group[w] - 1)

\* The words of the packet.  The 14-bit packer is later than the number in the header
\* is delayed, by one sample.
PctWord(w, b, j) ==
  IF j = 1 THEN Hdr(0)
  ELSE IF j = 2 THEN [Hdr(1) EXCEPT !.a = IF w = "14" THEN b + 1 ELSE b]
  ELSE Data(b + FirstOf(w, j - 3), b + FirstOf(w, j - 3) + IF w = "16" THEN 0 ELSE 1)

Part(w, b, n) == [j \in 1 .. n |-> PctWord(w, b, j)]

\* The m-th sample of the packet completes a word; so many words are complete then.
Completes(w, m) == m \in 1 .. N(w) /\ (w = "16" \/ (m - 1) % Group[w] # 0)
Complete(w, m) ==
  IF m <= 0 THEN 0 ELSE IF m >= N(w) THEN DataWords(w)
  ELSE IF w = "16" THEN m ELSE m - (m + Group[w] - 1) \div Group[w]

Made(w, b, m) ==
  IF Completes(w, m) THEN Data(IF w = "16" THEN b + m - 1 ELSE b + m - 2, b + m - 1) ELSE None

-----------------------------------------------------------------------------
(***************************************************************************)
(* The schedule: c is the number of clocks since the first read, as long   *)
(* as the machine is not back in idle.                                     *)
(***************************************************************************)
End(w) == N(w) + L(w) + 4
Read(w, c) == IF c < 0 THEN 0 ELSE IF c < N(w) THEN c ELSE N(w)

\* The registers of data2packets are shifted in clock c, and were so many times before.
Shifting(w, c) == Completes(w, c - L(w)) \/ c = L(w) + N(w) + 1 \/ c = L(w) + N(w) + 2
Shifts(w, c) == IF c <= L(w) + N(w) + 1 THEN Complete(w, c - 1 - L(w))
                ELSE IF c = L(w) + N(w) + 2 THEN PctSize[w] - 1 ELSE PctSize[w]

FsmSched(w, c) ==
  /\ fsm_state = IF c < N(w) THEN "rd_smpl_buff" ELSE "wait_data2packets_done"
  /\ smpl_buff_rd_cnt = IF c <= N(w) THEN c ELSE 0
  /\ c < N(w) => (smpl_buff_rd_done <=> c = N(w) - 1)
  /\ c >= N(w) => (data2packets_done <=> c = End(w))
  /\ data_in_valid <=> c \in 1 .. N(w)

PackSched(w, b, c) ==
  /\ smpl_cnt = b + Read(w, c)
  /\ pack_cnt = IF w # "16" /\ c \in 1 .. N(w) THEN (c - 1) % Group[w] ELSE 0
  /\ c \in 1 .. N(w) => smpl_q = b + c - 1
  /\ c \in 2 .. N(w) => pack_reg = b + c - 2
  /\ pack_pipe = [i \in 1 .. L(w) |-> Made(w, b, c - i)]
  /\ delay_chain = [i \in 1 .. DelayStages |-> b + Read(w, c - i)]

D2pSched(w, c) ==
  /\ d2p_state = IF Shifts(w, c) = 0 \/ c >= L(w) + N(w) + 3 THEN "idle"
                 ELSE IF c < L(w) + N(w) THEN "s0" ELSE IF c = L(w) + N(w) THEN "s1" ELSE "s2"
  /\ pct_data_wr_cnt = IF c <= L(w) + N(w) THEN Shifts(w, c) ELSE 0
  /\ c = L(w) + N(w) + 1 => pct_end_cnt = 1
  /\ c = L(w) + N(w) + 2 => pct_end_cnt = 0

RegSched(w, b, c) ==
  Shifts(w, c) >= 1 =>
    /\ reg_0 = PctWord(w, b, Shifts(w, c))
    /\ Shifts(w, c) + 1 <= PctSize[w] => reg_1 = PctWord(w, b, Shifts(w, c) + 1)
    /\ Shifts(w, c) + 2 <= PctSize[w] => reg_2 = PctWord(w, b, Shifts(w, c) + 2)

\* Whole packets only, except while one is written.
Whole(w) == \E b \in Nat, n \in {0, PctSize[w]} : pkt = Part(w, b, n)

WriteSched(w, b, c) ==
  /\ pct_wrreq_int <=> Shifting(w, c - 1)
  /\ pct_buff_wrreq_reg <=> Shifting(w, c - 2) /\ pct_buff_wr_dis
  /\ pct_buff_wrreq_reg => pct_buff_wrdata_reg = PctWord(w, b, Shifts(w, c - 1))
  /\ IF pct_buff_wr_dis /\ Shifts(w, c - 2) > 0 THEN pkt = Part(w, b, Shifts(w, c - 2))
                                                ELSE Whole(w)
  /\ pct_buff_wr_dis => pct_used + (PctSize[w] - Shifts(w, c - 2)) <= PctBuffWords

-----------------------------------------------------------------------------
(***************************************************************************)
(* Samples that wait: Waiting(i) is twice what the side of the FIFO sees   *)
(* that is i clocks late with the reads.                                   *)
(***************************************************************************)
Half == IF wrote THEN 1 ELSE 0
Waiting(i) == 2 * (sW[0] - sR[i])
MostWaiting(w) == 2 * N(w) + Lag + 5

OrderInv(w) ==
  /\ sW[0] = smpl_nr /\ sR[0] = smpl_cnt /\ smpl_cnt <= smpl_nr
  /\ smplFifo = [j \in 1 .. smpl_nr - smpl_cnt |-> smpl_cnt + j - 1]
  /\ \A i \in Side : sW[i] <= sW[0] /\ 2 * (sW[0] - sW[i]) <= i + Half
  /\ \A i \in Side : i > 0 => sW[i] <= sW[i - 1]
  /\ \A i \in Side : Waiting(i) <= MostWaiting(w) + i + Half

\* What was registered of the level when nothing is read: it is no more than there is,
\* and not much less; and when it is not enough for a packet there is little.
LevelInv ==
  rdusedw_reg <= Rdusedw /\ 2 * (sW[0] - sR[0] - rdusedw_reg) <= Lag + 1 + Half

WaitingInv(w, c) ==
  /\ Waiting(0) <= MostWaiting(w) + c - 2 * Read(w, c) + Half
  /\ c < N(w) => Rdusedw + c > N(w)
  /\ c > N(w) => LevelInv
  /\ c > N(w) + 1 => (smpl_buff_rdy => Rdusedw > N(w))

Sched(w, b, c) ==
  /\ FsmSched(w, c) /\ PackSched(w, b, c) /\ D2pSched(w, c) /\ RegSched(w, b, c)
  /\ WriteSched(w, b, c) /\ WaitingInv(w, c)

\* Between packets.
RestInv(w) ==
  /\ smpl_buff_rd_cnt = 0 /\ ~smpl_buff_rd_done /\ ~data_in_valid /\ pack_cnt = 0
  /\ pack_pipe = [i \in 1 .. L(w) |-> None]
  /\ \A i \in 1 .. DelayStages :
       i < DelayStages \/ fsm_state = "check_pct_buff" => delay_chain[i] = smpl_cnt
  /\ d2p_state = "idle" /\ pct_data_wr_cnt = 0 /\ ~pct_wrreq_int /\ ~pct_buff_wrreq_reg
  /\ Whole(w) /\ LevelInv
  /\ smpl_buff_rdy => Rdusedw > N(w)
  /\ ~smpl_buff_rdy => Waiting(0) <= 2 * N(w) + Lag + 2 + Half
  /\ fsm_state = "check_pct_buff" =>
       /\ Rdusedw > N(w) /\ Waiting(0) <= MostWaiting(w) - 1 + Half
       /\ pct_buff_rdy => pct_used + PctSize[w] <= PctBuffWords
  /\ fsm_state = "idle" =>
       /\ Waiting(0) <= MostWaiting(w) - 2 + Half
       /\ pct_used <= pct_wusedw + 1

\* All variables have their types.
TypeInv ==
  /\ TypeOK
  /\ {smpl_q, pack_reg} \subseteq 0 .. MaxSmpl /\ smpl_cnt \in Nat
  /\ delay_chain \in [1 .. DelayStages -> 0 .. MaxSmpl]
  /\ sW \in [Side -> Nat] /\ sR \in [Side -> Nat] /\ rdusedw_reg \in Int
  /\ pct_used \in 0 .. PctBuffWords /\ pct_wusedw \in Nat

Resting == fsm_state \in {"idle", "check_pct_buff"}

PathInv(w) ==
  /\ OrderInv(w)
  /\ Resting => RestInv(w)
  /\ ~Resting => \E b \in Nat, c \in 0 .. End(w) : Sched(w, b, c)

IInv == TypeInv /\ \E w \in Widths : width = w /\ PathInv(w)

-----------------------------------------------------------------------------
(***************************************************************************)
(* Words and samples.                                                      *)
(***************************************************************************)

\* The three widths, and what the assumptions say of each.
LEMMA Width ==
  ASSUME NEW w \in Widths
  PROVE  /\ N(w) \in Nat /\ N(w) >= L(w) + 7 /\ PctSize[w] \in Nat
         /\ PctSize[w] <= PctBuffWords /\ PctBuffWords \in Nat
         /\ \/ w = "16" /\ Group[w] = 1 /\ L(w) = 1 /\ PctSize[w] = N(w) + 2
               /\ DataWords(w) = N(w)
            \/ w = "14" /\ Group[w] = 8 /\ L(w) = 6 /\ PctSize[w] = (N(w) \div 8) * 7 + 2
               /\ N(w) % 8 = 0 /\ DataWords(w) = (N(w) \div 8) * 7
            \/ w = "12" /\ Group[w] = 4 /\ L(w) = 4 /\ PctSize[w] = (N(w) \div 4) * 3 + 2
               /\ N(w) % 4 = 0 /\ DataWords(w) = (N(w) \div 4) * 3
<1>1. /\ w \in {"16", "14", "12"} /\ PctSize[w] \in Nat /\ SmplRdSize[w] \in Nat
      /\ SmplRdSize[w] % Group[w] = 0 /\ SmplRdSize[w] >= Latency[w] + 7
      /\ PctSize[w] = DataWords(w) + HdrWords /\ PctSize[w] <= PctBuffWords
      /\ PctBuffWords \in Nat
  BY ConstantsOK DEF ConstantsOK, AllWidths
<1>2. CASE w = "16"
  <2>1. Group[w] = 1 /\ Latency[w] = 1  BY <1>2 DEF Group, Latency, AllWidths
  <2> QED  BY <1>1, <1>2, <2>1 DEF N, L, DataWords, HdrWords
<1>3. CASE w = "14"
  <2>1. Group[w] = 8 /\ Latency[w] = 6  BY <1>3 DEF Group, Latency, AllWidths
  <2>2. DataWords(w) = (SmplRdSize[w] \div 8) * 7  BY <1>3, <2>1 DEF DataWords
  <2>3. N(w) % 8 = 0  BY <1>1, <2>1 DEF N
  <2> QED  BY <1>1, <1>3, <2>1, <2>2, <2>3 DEF N, L, HdrWords
<1>4. CASE w = "12"
  <2>1. Group[w] = 4 /\ Latency[w] = 4  BY <1>4 DEF Group, Latency, AllWidths
  <2>2. DataWords(w) = (SmplRdSize[w] \div 4) * 3  BY <1>4, <2>1 DEF DataWords
  <2>3. N(w) % 4 = 0  BY <1>1, <2>1 DEF N
  <2> QED  BY <1>1, <1>4, <2>1, <2>2, <2>3 DEF N, L, HdrWords
<1> QED  BY <1>1, <1>2, <1>3, <1>4

\* Of the words of a packet, each that is completed is one more.
LEMMA OneMoreWord ==
  ASSUME NEW w \in Widths, NEW m \in Int
  PROVE  /\ Complete(w, m) \in Nat
         /\ Complete(w, m) = Complete(w, m - 1) + IF Completes(w, m) THEN 1 ELSE 0
<1>1. CASE w = "16"
  BY <1>1, Width DEF Complete, Completes
<1>2. CASE w = "14"
  <2>1. PICK q \in Nat : N(w) = 8 * q /\ DataWords(w) = 7 * q /\ Group[w] = 8 /\ w # "16"
    <3>1. N(w) \div 8 \in Nat /\ N(w) = 8 * (N(w) \div 8)  BY <1>2, Width
    <3> QED  BY <1>2, <3>1, Width
  <2> QED  BY <2>1 DEF Complete, Completes
<1>3. CASE w = "12"
  <2>1. PICK q \in Nat : N(w) = 4 * q /\ DataWords(w) = 3 * q /\ Group[w] = 4 /\ w # "16"
    <3>1. N(w) \div 4 \in Nat /\ N(w) = 4 * (N(w) \div 4)  BY <1>3, Width
    <3> QED  BY <1>3, <3>1, Width
  <2> QED  BY <2>1 DEF Complete, Completes
<1> QED  BY <1>1, <1>2, <1>3, Width

\* The word that is completed is the next one, and made of these samples.
LEMMA NextWord ==
  ASSUME NEW w \in Widths, NEW b \in Nat, NEW m \in Int, Completes(w, m)
  PROVE  Made(w, b, m) = PctWord(w, b, Complete(w, m - 1) + 3)
<1>1. m \in 1 .. N(w) /\ Complete(w, m - 1) \in Nat
  BY OneMoreWord DEF Completes
<1>2. FirstOf(w, Complete(w, m - 1)) = IF w = "16" THEN m - 1 ELSE m - 2
  <2>1. CASE w = "16"
    BY <1>1, <2>1, Width DEF Complete, FirstOf
  <2>2. CASE w = "14"
    <3>1. Group[w] = 8 /\ w # "16" /\ N(w) \in Nat  BY <2>2, Width
    <3>2. (m - 1) % 8 # 0  BY <3>1 DEF Completes
    <3>3. Complete(w, m - 1) = (m - 1) - (m + 6) \div 8
      BY <1>1, <3>1, <3>2 DEF Complete
    <3>4. ((m - 1) - (m + 6) \div 8) + ((m - 1) - (m + 6) \div 8) \div 7 = m - 2
      BY <1>1, <3>1, <3>2
    <3> QED  BY <3>1, <3>3, <3>4 DEF FirstOf
  <2>3. CASE w = "12"
    <3>1. Group[w] = 4 /\ w # "16" /\ N(w) \in Nat  BY <2>3, Width
    <3>2. (m - 1) % 4 # 0  BY <3>1 DEF Completes
    <3>3. Complete(w, m - 1) = (m - 1) - (m + 2) \div 4
      BY <1>1, <3>1, <3>2 DEF Complete
    <3>4. ((m - 1) - (m + 2) \div 4) + ((m - 1) - (m + 2) \div 4) \div 3 = m - 2
      BY <1>1, <3>1, <3>2
    <3> QED  BY <3>1, <3>3, <3>4 DEF FirstOf
  <2> QED  BY <2>1, <2>2, <2>3, Width
<1>3. PctWord(w, b, Complete(w, m - 1) + 3) =
        Data(b + FirstOf(w, Complete(w, m - 1)),
             b + FirstOf(w, Complete(w, m - 1)) + IF w = "16" THEN 0 ELSE 1)
  <2> DEFINE k == Complete(w, m - 1)
             j == k + 3
  <2>1. j # 1 /\ j # 2 /\ j - 3 = k  BY <1>1
  <2>2. PctWord(w, b, j) = Data(b + FirstOf(w, j - 3),
                                b + FirstOf(w, j - 3) + IF w = "16" THEN 0 ELSE 1)
    <3> HIDE DEF j
    <3> QED  BY <2>1 DEF PctWord
  <2> HIDE DEF k, j
  <2>3. PctWord(w, b, j) = Data(b + FirstOf(w, k),
                                b + FirstOf(w, k) + IF w = "16" THEN 0 ELSE 1)
    BY <2>1, <2>2, Zenon
  <2> QED  BY <2>3 DEF k, j
<1>4. Made(w, b, m) = Data(IF w = "16" THEN b + m - 1 ELSE b + m - 2, b + m - 1)
  BY DEF Made
<1>5. CASE w = "16"
  <2>1. b + (m - 1) = b + m - 1 /\ b + m - 1 + 0 = b + m - 1  BY <1>1
  <2> QED  BY <1>2, <1>3, <1>4, <1>5, <2>1
<1>6. CASE w # "16"
  <2>1. b + (m - 2) = b + m - 2 /\ b + m - 2 + 1 = b + m - 1  BY <1>1
  <2> QED  BY <1>2, <1>3, <1>4, <1>6, <2>1
<1> QED  BY <1>5, <1>6

\* The words a packet begins and ends with.
LEMMA FirstAndLastWords ==
  ASSUME NEW w \in Widths, NEW m \in Int
  PROVE  /\ m <= 0 => Complete(w, m) = 0
         /\ Complete(w, m) = 0 <=> m <= 0 \/ (m <= 1 /\ w # "16")
         /\ m >= N(w) => Complete(w, m) = PctSize[w] - 2
         /\ m = N(w) - 1 => Complete(w, m) = PctSize[w] - 3
         /\ m = N(w) \/ m = N(w) - 1 => Completes(w, m)
         /\ m <= N(w) - 2 => Complete(w, m) <= PctSize[w] - 4
         /\ m > N(w) \/ m < 1 => ~Completes(w, m)
<1>1. CASE w = "16"
  BY <1>1, Width DEF Complete, Completes
<1>2. CASE w = "14"
  <2>1. PICK q \in Nat : /\ N(w) = 8 * q /\ DataWords(w) = 7 * q /\ Group[w] = 8 /\ w # "16"
                         /\ PctSize[w] = 7 * q + 2 /\ q >= 1
    <3>1. N(w) \div 8 \in Nat /\ N(w) = 8 * (N(w) \div 8)  BY <1>2, Width
    <3> QED  BY <1>2, <3>1, Width
  <2> QED  BY <2>1 DEF Complete, Completes
<1>3. CASE w = "12"
  <2>1. PICK q \in Nat : /\ N(w) = 4 * q /\ DataWords(w) = 3 * q /\ Group[w] = 4 /\ w # "16"
                         /\ PctSize[w] = 3 * q + 2 /\ q >= 1
    <3>1. N(w) \div 4 \in Nat /\ N(w) = 4 * (N(w) \div 4)  BY <1>3, Width
    <3> QED  BY <1>3, <3>1, Width
  <2> QED  BY <2>1 DEF Complete, Completes
<1> QED  BY <1>1, <1>2, <1>3, Width

\* What that makes of the shifts of the registers of data2packets.
LEMMA OneMoreShift ==
  ASSUME NEW w \in Widths, NEW c \in Int
  PROVE  /\ Shifts(w, c) \in 0 .. PctSize[w]
         /\ Shifts(w, c + 1) = Shifts(w, c) + IF Shifting(w, c) THEN 1 ELSE 0
<1>1. c - 1 - L(w) \in Int /\ c - L(w) \in Int /\ (c - L(w)) - 1 = c - 1 - L(w)
      /\ (c + 1) - 1 - L(w) = c - L(w)
  BY Width
<1>2. /\ N(w) \in Nat /\ L(w) \in Nat /\ PctSize[w] \in Nat /\ PctSize[w] >= 5
  BY Width
<1>3. Complete(w, c - 1 - L(w)) \in Nat /\ Complete(w, c - L(w)) \in Nat
  BY <1>1, OneMoreWord
<1>4. Complete(w, c - L(w)) =
        Complete(w, c - 1 - L(w)) + IF Completes(w, c - L(w)) THEN 1 ELSE 0
  BY <1>1, OneMoreWord
<1>5. /\ c - 1 - L(w) >= N(w) => Complete(w, c - 1 - L(w)) = PctSize[w] - 2
      /\ c - 1 - L(w) = N(w) - 1 => Complete(w, c - 1 - L(w)) = PctSize[w] - 3
      /\ c - 1 - L(w) <= N(w) - 2 => Complete(w, c - 1 - L(w)) <= PctSize[w] - 4
      /\ c - L(w) > N(w) \/ c - L(w) < 1 => ~Completes(w, c - L(w))
  BY <1>1, FirstAndLastWords
<1>6. Shifts(w, c) \in 0 .. PctSize[w]
  BY <1>2, <1>3, <1>5 DEF Shifts
<1>7. Shifts(w, c + 1) = Shifts(w, c) + IF Shifting(w, c) THEN 1 ELSE 0
  <2>1. CASE c <= L(w) + N(w)
    BY <1>1, <1>2, <1>4, <2>1 DEF Shifts, Shifting
  <2>2. CASE c > L(w) + N(w)
    BY <1>1, <1>2, <1>3, <1>5, <2>2 DEF Shifts, Shifting
  <2> QED  BY <1>2, <2>1, <2>2
<1> QED  BY <1>6, <1>7

-----------------------------------------------------------------------------
(***************************************************************************)
(* A clock of the schedule, part by part.                                  *)
(***************************************************************************)

\* What reaches data2packets, and when it shifts.
LEMMA WhatArrives ==
  ASSUME NEW w \in Widths, width = w, NEW b \in Nat, NEW c \in Nat,
         PackSched(w, b, c), D2pSched(w, c)
  PROVE  /\ PctData = Made(w, b, c - L(w))
         /\ PctDataWrreq <=> Completes(w, c - L(w))
         /\ RegShift <=> Shifting(w, c)
         /\ RegLoad <=> Completes(w, c - L(w)) /\ Shifts(w, c) = 0
<1>1. L(w) \in 1 .. L(w) /\ L(w) \in Nat /\ N(w) \in Nat /\ N(w) >= L(w) + 7  BY Width
<1>2. PctData = Made(w, b, c - L(w))
  BY <1>1 DEF PackSched, PctData, L
<1>3. PctDataWrreq <=> Completes(w, c - L(w))
  BY <1>2 DEF PctDataWrreq, Made, Data, None
<1>4. /\ c - 1 - L(w) > 1 => Complete(w, c - 1 - L(w)) # 0
      /\ Complete(w, c - 1 - L(w)) \in Nat
      /\ c - L(w) > N(w) => ~Completes(w, c - L(w))
  BY <1>1, FirstAndLastWords, OneMoreWord
<1>5. d2p_state = "s2" <=> c = L(w) + N(w) + 1 \/ c = L(w) + N(w) + 2
  <2>1. c > L(w) + N(w) => Shifts(w, c) # 0
    BY <1>1, <1>4, Width DEF Shifts
  <2> QED  BY <1>1, <2>1 DEF D2pSched
<1>6. RegShift <=> Shifting(w, c)
  BY <1>3, <1>5 DEF RegShift, Shifting
<1>7. RegLoad <=> Completes(w, c - L(w)) /\ Shifts(w, c) = 0
  <2>1. Completes(w, c - L(w)) => c < L(w) + N(w) + 3  BY <1>1, <1>4
  <2> QED  BY <1>1, <1>3, <2>1 DEF RegLoad, D2pSched
<1> QED  BY <1>2, <1>3, <1>6, <1>7

\* The state machine reads N(w) samples and waits for the end of the packet.
LEMMA FsmStep ==
  ASSUME NEW w \in Widths, width = w, NEW c \in 0 .. End(w) - 1,
         FsmSched(w, c), D2pSched(w, c), Clock
  PROVE  FsmSched(w, c + 1)'
<1>1. /\ N(w) \in Nat /\ L(w) \in Nat /\ N(w) >= L(w) + 7
      /\ c \in Nat /\ c <= N(w) + L(w) + 3
  BY Width DEF End
<1>2. Fsm /\ RdCount /\ Flags  BY DEF Clock, ClockWith
<1>3. RdReq <=> c < N(w)  BY DEF RdReq, FsmSched
<1>4. fsm_state' = IF c + 1 < N(w) THEN "rd_smpl_buff" ELSE "wait_data2packets_done"
  <2>1. CASE c < N(w)
    BY <1>1, <1>2, <2>1 DEF FsmSched, Fsm, Go
  <2>2. CASE c >= N(w)
    <3>1. ~data2packets_done  BY <1>1, <2>2 DEF FsmSched, End
    <3> QED  BY <1>1, <1>2, <2>2, <3>1 DEF FsmSched, Fsm, Go
  <2> QED  BY <1>1, <2>1, <2>2
<1>5. smpl_buff_rd_cnt' = IF c + 1 <= N(w) THEN c + 1 ELSE 0
  BY <1>1, <1>2, <1>3 DEF RdCount, FsmSched
<1>6. c + 1 < N(w) => (smpl_buff_rd_done' <=> c + 1 = N(w) - 1)
  <2> SUFFICES ASSUME c + 1 < N(w)
               PROVE  smpl_buff_rd_done' <=> c + 1 = N(w) - 1
    OBVIOUS
  <2>1. smpl_buff_rd_done' = (smpl_buff_rd_cnt >= SmplRdSize[width] - 2)
    BY <1>2 DEF RdCount
  <2>2. smpl_buff_rd_cnt = c  BY <1>1 DEF FsmSched
  <2>3. smpl_buff_rd_done' <=> c >= N(w) - 2  BY <2>1, <2>2 DEF N
  <2> QED  BY <1>1, <2>3
<1>7. c + 1 >= N(w) => (data2packets_done' <=> c + 1 = End(w))
  <2> SUFFICES ASSUME c + 1 >= N(w)
               PROVE  data2packets_done' <=> c + 1 = End(w)
    OBVIOUS
  <2>1. data2packets_done' <=> d2p_state = "idle"
    BY <1>2 DEF Flags, PctState
  <2>2. Shifts(w, c) # 0
    <3>1. c - 1 - L(w) \in Int /\ c - 1 - L(w) > 1  BY <1>1
    <3>2. Complete(w, c - 1 - L(w)) # 0  BY <3>1, FirstAndLastWords
    <3> QED  BY <3>2, Width DEF Shifts
  <2>3. d2p_state = "idle" <=> c >= L(w) + N(w) + 3  BY <2>2 DEF D2pSched
  <2> QED  BY <1>1, <2>1, <2>3 DEF End
<1>8. data_in_valid' <=> c + 1 \in 1 .. N(w)
  BY <1>1, <1>2, <1>3 DEF Flags
<1> QED  BY <1>4, <1>5, <1>6, <1>7, <1>8 DEF FsmSched

\* The sample at the head of the FIFO is read.
LEMMA SampleStep ==
  ASSUME NEW w \in Widths, width = w, NEW c \in Nat, TypeInv, OrderInv(w),
         fsm_state = "rd_smpl_buff", Rdusedw > 0, Clock
  PROVE  smpl_q' = smpl_cnt
<1>1. smpl_q' = Head(smplFifo)
  BY DEF Clock, ClockWith, Sample, SmplRead, RdReq
<1>2. smpl_nr - smpl_cnt >= 1 /\ smpl_nr \in Int /\ smpl_cnt \in Nat
  <2>1. Lag \in Side /\ 0 \in Side  BY ConstantsOK DEF ConstantsOK, Side
  <2>2. sW[Lag] \in Nat /\ sR[0] \in Nat /\ sW[0] \in Nat  BY <2>1 DEF TypeInv
  <2>3. sW[Lag] <= sW[0]  BY <2>1 DEF OrderInv
  <2> QED  BY <2>2, <2>3 DEF Rdusedw, OrderInv
<1>3. smplFifo[1] = smpl_cnt /\ smplFifo # <<>>
  BY <1>2 DEF OrderInv
<1>4. Head(smplFifo) = smplFifo[1]
  <2>1. smplFifo \in Seq(Nat)
    <3>1. \A j \in 1 .. smpl_nr - smpl_cnt : smpl_cnt + j - 1 \in Nat  BY <1>2
    <3>2. smpl_nr - smpl_cnt \in Nat  BY <1>2
    <3> QED  BY <3>1, <3>2 DEF OrderInv
  <2> QED  BY <1>3, <2>1
<1> QED  BY <1>1, <1>3, <1>4

\* The packer and the delay chain of the sample counter.
LEMMA PackStep ==
  ASSUME NEW w \in Widths, width = w, NEW b \in Nat, NEW c \in 0 .. End(w),
         TypeInv, OrderInv(w), FsmSched(w, c), PackSched(w, b, c), WaitingInv(w, c), Clock
  PROVE  PackSched(w, b, c + 1)'
<1>1. /\ N(w) \in Nat /\ L(w) \in Nat /\ N(w) >= L(w) + 7 /\ c \in Nat
  BY Width DEF End
<1>2. Pack /\ CountReads /\ (RdReq <=> c < N(w))
  BY DEF Clock, ClockWith, RdReq, FsmSched
<1>3. c < N(w) => smpl_q' = b + c
  <2> SUFFICES ASSUME c < N(w)
               PROVE  smpl_q' = b + c
    OBVIOUS
  <2>1. Rdusedw > 0
    <3>1. Rdusedw \in Int
      BY ConstantsOK DEF ConstantsOK, Rdusedw, TypeInv, Side
    <3> QED  BY <1>1, <3>1 DEF WaitingInv
  <2>2. fsm_state = "rd_smpl_buff"  BY DEF FsmSched
  <2>3. smpl_q' = smpl_cnt  BY <1>1, <2>1, <2>2, SampleStep
  <2> QED  BY <1>1, <2>3 DEF PackSched, Read
<1>4. Packed = Made(w, b, c)
  <2>1. CASE c \notin 1 .. N(w)
    BY <2>1 DEF Packed, Made, Completes, FsmSched
  <2>2. CASE c \in 1 .. N(w) /\ w = "16"
    BY <1>1, <2>2 DEF Packed, Made, Completes, FsmSched, PackSched
  <2>3. CASE c \in 1 .. N(w) /\ w # "16"
    <3>1. data_in_valid /\ pack_cnt = (c - 1) % Group[w] /\ smpl_q = b + c - 1
      BY <2>3 DEF FsmSched, PackSched
    <3>2. (c - 1) % Group[w] \in Nat /\ (c = 1 => (c - 1) % Group[w] = 0)
      <4>1. Group[w] = 8 \/ Group[w] = 4  BY <2>3, Width
      <4> QED  BY <1>1, <2>3, <4>1
    <3>3. CASE (c - 1) % Group[w] # 0
      <4>1. pack_reg = b + c - 2  BY <1>1, <2>3, <3>2, <3>3 DEF PackSched
      <4>2. pack_cnt > 0  BY <3>1, <3>2, <3>3
      <4> QED  BY <2>3, <3>1, <3>3, <4>1, <4>2 DEF Packed, Made, Completes
    <3>4. CASE (c - 1) % Group[w] = 0
      BY <2>3, <3>1, <3>4 DEF Packed, Made, Completes
    <3> QED  BY <3>3, <3>4
  <2> QED  BY <2>1, <2>2, <2>3
<1>5. smpl_cnt' = b + Read(w, c + 1)
  <2>1. Read(w, c) \in Nat /\ Read(w, c + 1) = Read(w, c) + IF c < N(w) THEN 1 ELSE 0
    BY <1>1 DEF Read
  <2>2. smpl_cnt = b + Read(w, c) /\ smpl_cnt' = IF RdReq THEN smpl_cnt + 1 ELSE smpl_cnt
    BY <1>2 DEF CountReads, PackSched
  <2> QED  BY <1>2, <2>1, <2>2
<1>6. pack_cnt' = IF w # "16" /\ c + 1 \in 1 .. N(w) THEN ((c + 1) - 1) % Group[w] ELSE 0
  <2>1. pack_cnt' = IF data_in_valid /\ width # "16" THEN (pack_cnt + 1) % Group[width]
                    ELSE pack_cnt
    BY <1>2 DEF Pack
  <2>2. CASE w = "16"
    BY <2>1, <2>2 DEF PackSched
  <2>3. CASE w # "16"
    <3>1. PICK q \in Nat : (Group[w] = 8 /\ N(w) = 8 * q) \/ (Group[w] = 4 /\ N(w) = 4 * q)
      <4>1. CASE w = "14"
        <5>1. N(w) \div 8 \in Nat /\ N(w) = 8 * (N(w) \div 8)  BY <4>1, Width
        <5> QED  BY <4>1, <5>1, Width
      <4>2. CASE w = "12"
        <5>1. N(w) \div 4 \in Nat /\ N(w) = 4 * (N(w) \div 4)  BY <4>2, Width
        <5> QED  BY <4>2, <5>1, Width
      <4> QED  BY <2>3, <4>1, <4>2, Width
    <3>2. data_in_valid <=> c \in 1 .. N(w)  BY DEF FsmSched
    <3>3. pack_cnt = IF c \in 1 .. N(w) THEN (c - 1) % Group[w] ELSE 0
      BY <2>3 DEF PackSched
    <3>4. CASE Group[w] = 8 /\ N(w) = 8 * q
      BY <1>1, <2>1, <2>3, <3>2, <3>3, <3>4
    <3>5. CASE Group[w] = 4 /\ N(w) = 4 * q
      BY <1>1, <2>1, <2>3, <3>2, <3>3, <3>5
    <3> QED  BY <3>1, <3>4, <3>5
  <2> QED  BY <2>2, <2>3
<1>7. c + 1 \in 2 .. N(w) => pack_reg' = b + (c + 1) - 2
  BY <1>1, <1>2 DEF Pack, PackSched, FsmSched
<1>8. pack_pipe' = [i \in 1 .. L(w) |-> Made(w, b, (c + 1) - i)]
  <2>1. pack_pipe' = [i \in 1 .. L(w) |-> IF i = 1 THEN Packed ELSE pack_pipe[i - 1]]
    BY <1>2 DEF Pack, L
  <2>2. ASSUME NEW i \in 1 .. L(w)
        PROVE  (IF i = 1 THEN Packed ELSE pack_pipe[i - 1]) = Made(w, b, (c + 1) - i)
    <3>1. CASE i = 1
      <4>1. (c + 1) - i = c  BY <1>1, <3>1
      <4> QED  BY <1>4, <3>1, <4>1
    <3>2. CASE i # 1
      <4>1. i - 1 \in 1 .. L(w) /\ c - (i - 1) = (c + 1) - i  BY <1>1, <3>2
      <4>2. pack_pipe[i - 1] = Made(w, b, c - (i - 1))  BY <4>1 DEF PackSched
      <4> QED  BY <3>2, <4>1, <4>2
    <3> QED  BY <3>1, <3>2
  <2> QED  BY <2>1, <2>2, Zenon
<1>9. delay_chain' = [i \in 1 .. DelayStages |-> b + Read(w, (c + 1) - i)]
  <2>1. delay_chain' = [i \in 1 .. DelayStages |-> IF i = 1 THEN smpl_cnt ELSE delay_chain[i - 1]]
    BY <1>2 DEF CountReads
  <2>2. ASSUME NEW i \in 1 .. DelayStages
        PROVE  (IF i = 1 THEN smpl_cnt ELSE delay_chain[i - 1]) = b + Read(w, (c + 1) - i)
    <3>1. CASE i = 1
      <4>1. (c + 1) - i = c  BY <1>1, <3>1
      <4> QED  BY <3>1, <4>1 DEF PackSched
    <3>2. CASE i # 1
      <4>1. i - 1 \in 1 .. DelayStages /\ c - (i - 1) = (c + 1) - i
        BY <1>1, <3>2 DEF DelayStages
      <4>2. delay_chain[i - 1] = b + Read(w, c - (i - 1))  BY <4>1 DEF PackSched
      <4> QED  BY <3>2, <4>1, <4>2
    <3> QED  BY <3>1, <3>2
  <2> QED  BY <2>1, <2>2, Zenon
<1>10. c + 1 \in 1 .. N(w) => smpl_q' = b + (c + 1) - 1
  BY <1>1, <1>3
<1> QED  BY <1>5, <1>6, <1>7, <1>8, <1>9, <1>10 DEF PackSched

\* The state machine of data2packets, whose count tells it the last word but one.
LEMMA D2pStep ==
  ASSUME NEW w \in Widths, width = w, NEW b \in Nat, NEW c \in 0 .. End(w),
         PackSched(w, b, c), D2pSched(w, c), Clock
  PROVE  D2pSched(w, c + 1)'
<1>1. /\ N(w) \in Nat /\ L(w) \in Nat /\ N(w) >= L(w) + 7 /\ L(w) >= 1 /\ c \in Nat
      /\ PctSize[w] \in Nat /\ c <= N(w) + L(w) + 4
  BY Width DEF End
<1>2. D2pFsm /\ D2pCounters  BY DEF Clock, ClockWith
<1>3. PctDataWrreq <=> Completes(w, c - L(w))  BY <1>1, WhatArrives
<1>4. /\ Shifts(w, c) \in 0 .. PctSize[w] /\ Shifts(w, c + 1) \in 0 .. PctSize[w]
      /\ Shifts(w, c + 1) = Shifts(w, c) + IF Shifting(w, c) THEN 1 ELSE 0
  BY <1>1, OneMoreShift
<1>5. c <= L(w) + N(w) => Shifts(w, c) = Complete(w, c - 1 - L(w))  BY <1>1 DEF Shifts
<1>6. /\ Shifts(w, c) = 0 => c <= L(w) + 2
      /\ c >= L(w) + N(w) => Shifts(w, c) # 0
  <2>1. c - 1 - L(w) > 1 => Complete(w, c - 1 - L(w)) # 0
    BY <1>1, FirstAndLastWords
  <2>2. PctSize[w] >= 5  BY Width
  <2> QED  BY <1>1, <2>1, <2>2 DEF Shifts
<1>7. /\ c - L(w) > N(w) => ~Completes(w, c - L(w))
      /\ c - L(w) = N(w) \/ c - L(w) = N(w) - 1 => Completes(w, c - L(w))
  BY <1>1, FirstAndLastWords
<1>8. c < L(w) + N(w) /\ Completes(w, c - L(w)) =>
        (Shifts(w, c) = PctSize[w] - 4 <=> c = L(w) + N(w) - 1)
  <2> SUFFICES ASSUME c < L(w) + N(w), Completes(w, c - L(w))
               PROVE  Shifts(w, c) = PctSize[w] - 4 <=> c = L(w) + N(w) - 1
    OBVIOUS
  <2> DEFINE m == c - L(w)
  <2>1. m \in Int /\ c - 1 - L(w) = m - 1  BY <1>1
  <2>2. Complete(w, m) = Complete(w, m - 1) + 1 /\ Complete(w, m - 1) \in Nat
    BY <2>1, OneMoreWord
  <2>3. /\ m = N(w) - 1 => Complete(w, m) = PctSize[w] - 3
        /\ m <= N(w) - 2 => Complete(w, m) <= PctSize[w] - 4
    BY <2>1, FirstAndLastWords
  <2>4. Shifts(w, c) = Complete(w, m - 1)  BY <1>1, <1>5, <2>1
  <2> QED  BY <1>1, <2>2, <2>3, <2>4
<1>9. c < L(w) + N(w) => (Shifting(w, c) <=> Completes(w, c - L(w)))
  BY <1>1 DEF Shifting
<1>10. d2p_state' = IF Shifts(w, c + 1) = 0 \/ c + 1 >= L(w) + N(w) + 3 THEN "idle"
                    ELSE IF c + 1 < L(w) + N(w) THEN "s0"
                    ELSE IF c + 1 = L(w) + N(w) THEN "s1" ELSE "s2"
  <2>1. CASE Shifts(w, c) = 0
    <3>1. d2p_state = "idle" /\ c + 1 < L(w) + N(w)  BY <1>1, <1>6, <2>1 DEF D2pSched
    <3>2. d2p_state' = IF PctDataWrreq THEN "s0" ELSE "idle"
      BY <1>2, <3>1 DEF D2pFsm, D2pGo
    <3> QED  BY <1>1, <1>3, <1>4, <1>9, <2>1, <3>1, <3>2
  <2>2. CASE c >= L(w) + N(w) + 3
    <3>1. d2p_state = "idle" /\ ~PctDataWrreq  BY <1>1, <1>3, <1>7, <2>2 DEF D2pSched
    <3>2. d2p_state' = "idle"  BY <1>2, <3>1 DEF D2pFsm, D2pGo
    <3> QED  BY <1>1, <2>2, <3>2
  <2>3. CASE Shifts(w, c) # 0 /\ c < L(w) + N(w)
    <3>1. d2p_state = "s0" /\ pct_data_wr_cnt = Shifts(w, c)
      BY <1>1, <2>3 DEF D2pSched
    <3>2. d2p_state' = IF PctDataWrreq /\ pct_data_wr_cnt = PctSize[w] - 4 THEN "s1" ELSE "s0"
      BY <1>2, <3>1 DEF D2pFsm, D2pGo
    <3>3. d2p_state' = IF c + 1 = L(w) + N(w) THEN "s1" ELSE "s0"
      BY <1>1, <1>3, <1>7, <1>8, <2>3, <3>1, <3>2
    <3> QED  BY <1>1, <1>4, <2>3, <3>3
  <2>4. CASE c = L(w) + N(w)
    <3>1. d2p_state = "s1" /\ PctDataWrreq  BY <1>1, <1>3, <1>6, <1>7, <2>4 DEF D2pSched
    <3>2. d2p_state' = "s2"  BY <1>2, <3>1 DEF D2pFsm, D2pGo
    <3> QED  BY <1>1, <1>4, <1>6, <2>4, <3>2
  <2>5. CASE c = L(w) + N(w) + 1
    <3>1. d2p_state = "s2" /\ pct_end_cnt = 1  BY <1>1, <1>6, <2>5 DEF D2pSched
    <3>2. d2p_state' = "s2"  BY <1>2, <3>1 DEF D2pFsm, D2pGo
    <3> QED  BY <1>1, <1>4, <1>6, <2>5, <3>2
  <2>6. CASE c = L(w) + N(w) + 2
    <3>1. d2p_state = "s2" /\ pct_end_cnt = 0  BY <1>1, <1>6, <2>6 DEF D2pSched
    <3>2. d2p_state' = "idle"  BY <1>2, <3>1 DEF D2pFsm, D2pGo
    <3> QED  BY <1>1, <2>6, <3>2
  <2> QED  BY <1>1, <2>1, <2>2, <2>3, <2>4, <2>5, <2>6
<1>11. pct_data_wr_cnt' = IF c + 1 <= L(w) + N(w) THEN Shifts(w, c + 1) ELSE 0
  <2>1. pct_data_wr_cnt' = IF d2p_state = "s1" THEN 0
                           ELSE IF PctDataWrreq THEN pct_data_wr_cnt + 1 ELSE pct_data_wr_cnt
    BY <1>2 DEF D2pCounters
  <2>2. CASE c < L(w) + N(w)
    <3>1. d2p_state # "s1" /\ pct_data_wr_cnt = Shifts(w, c)  BY <1>1, <2>2 DEF D2pSched
    <3> QED  BY <1>1, <1>3, <1>4, <1>9, <2>1, <2>2, <3>1
  <2>3. CASE c = L(w) + N(w)
    <3>1. d2p_state = "s1"  BY <1>1, <1>6, <2>3 DEF D2pSched
    <3> QED  BY <1>1, <2>1, <2>3, <3>1
  <2>4. CASE c > L(w) + N(w)
    <3>1. ~PctDataWrreq /\ pct_data_wr_cnt = 0  BY <1>1, <1>3, <1>7, <2>4 DEF D2pSched
    <3> QED  BY <1>1, <2>1, <2>4, <3>1
  <2> QED  BY <1>1, <2>2, <2>3, <2>4
<1>12. /\ c + 1 = L(w) + N(w) + 1 => pct_end_cnt' = 1
       /\ c + 1 = L(w) + N(w) + 2 => pct_end_cnt' = 0
  <2>1. pct_end_cnt' = IF d2p_state = "s2" THEN (pct_end_cnt + 255) % 256 ELSE 1
    BY <1>2 DEF D2pCounters
  <2>2. CASE c = L(w) + N(w)
    <3>1. d2p_state = "s1"  BY <1>1, <1>6, <2>2 DEF D2pSched
    <3> QED  BY <1>1, <2>1, <2>2, <3>1
  <2>3. CASE c = L(w) + N(w) + 1
    <3>1. d2p_state = "s2" /\ pct_end_cnt = 1  BY <1>1, <1>6, <2>3 DEF D2pSched
    <3> QED  BY <1>1, <2>1, <2>3, <3>1
  <2> QED  BY <1>1, <2>2, <2>3
<1> QED  BY <1>10, <1>11, <1>12 DEF D2pSched

\* The three registers through which headers and words go.
LEMMA RegStep ==
  ASSUME NEW w \in Widths, width = w, NEW b \in Nat, NEW c \in 0 .. End(w),
         PackSched(w, b, c), D2pSched(w, c), RegSched(w, b, c), Clock
  PROVE  RegSched(w, b, c + 1)'
<1> DEFINE S == Shifts(w, c)
           T == Shifts(w, c + 1)
           m == c - L(w)
<1>1. /\ N(w) \in Nat /\ L(w) \in Nat /\ N(w) >= L(w) + 7 /\ L(w) >= 1 /\ c \in Nat
      /\ PctSize[w] \in Nat /\ PctSize[w] >= 5 /\ c <= N(w) + L(w) + 4
  BY Width DEF End
<1>2. Registers  BY DEF Clock, ClockWith
<1>3. /\ PctData = Made(w, b, m) /\ (PctDataWrreq <=> Completes(w, m))
      /\ (RegShift <=> Shifting(w, c)) /\ (RegLoad <=> Completes(w, m) /\ S = 0)
  BY <1>1, WhatArrives
<1>4. S \in 0 .. PctSize[w] /\ T \in 0 .. PctSize[w] /\ T = S + IF Shifting(w, c) THEN 1 ELSE 0
  BY <1>1, OneMoreShift
<1>5. Completes(w, m) => PctData = PctWord(w, b, S + 3)
  <2> SUFFICES ASSUME Completes(w, m)
               PROVE  PctData = PctWord(w, b, S + 3)
    OBVIOUS
  <2>1. m \in Int /\ m <= N(w) /\ m - 1 = c - 1 - L(w)
    BY <1>1 DEF Completes
  <2>2. S = Complete(w, m - 1)
    <3>1. c <= L(w) + N(w) + 1  BY <1>1, <2>1
    <3> QED  BY <2>1, <3>1 DEF Shifts
  <2>3. Made(w, b, m) = PctWord(w, b, Complete(w, m - 1) + 3)  BY <2>1, NextWord
  <2> QED  BY <1>3, <2>2, <2>3
<1>6. CASE RegLoad
  <2>1. Completes(w, m) /\ S = 0 /\ T = 1
    <3>1. Completes(w, m) /\ S = 0 /\ Shifting(w, c)
      BY <1>3, <1>6 DEF Shifting
    <3> QED  BY <1>4, <3>1
  <2>2. reg_0' = Hdr(0) /\ reg_1' = [Hdr(1) EXCEPT !.a = delay_chain[DelayStages]]
        /\ reg_2' = PctData
    BY <1>2, <1>3, <1>6, <2>1 DEF Registers
  <2>3. delay_chain[DelayStages] = IF w = "14" THEN b + 1 ELSE b
    <3>1. delay_chain[DelayStages] = b + Read(w, c - 7)
      BY DEF PackSched, DelayStages
    <3>2. IF w = "16" THEN m = 1 ELSE m = 2
      <4>1. m \in Int /\ m >= 1 /\ m - 1 = c - 1 - L(w)  BY <1>1, <2>1 DEF Completes
      <4>2. Complete(w, m - 1) = 0
        <5>1. c <= L(w) + N(w) + 1  BY <1>1, <2>1 DEF Completes
        <5> QED  BY <2>1, <4>1, <5>1 DEF Shifts
      <4>3. m - 1 \in Int /\ (m - 1 <= 0 \/ (m - 1 <= 1 /\ w # "16"))
        BY <4>1, <4>2, FirstAndLastWords
      <4>4. w # "16" => m # 1
        <5> SUFFICES ASSUME w # "16", m = 1
                     PROVE  FALSE
          OBVIOUS
        <5>1. Group[w] = 8 \/ Group[w] = 4  BY Width
        <5> QED  BY <2>1, <5>1 DEF Completes
      <4> QED  BY <4>1, <4>3, <4>4
    <3>3. Read(w, c - 7) = IF w = "14" THEN 1 ELSE 0
      <4>1. CASE w = "16"
        <5>1. L(w) = 1  BY <4>1, Width
        <5> QED  BY <1>1, <3>2, <4>1, <5>1 DEF Read
      <4>2. CASE w = "14"
        <5>1. L(w) = 6  BY <4>2, Width
        <5> QED  BY <1>1, <3>2, <4>2, <5>1 DEF Read
      <4>3. CASE w = "12"
        <5>1. L(w) = 4  BY <4>3, Width
        <5> QED  BY <1>1, <3>2, <4>3, <5>1 DEF Read
      <4> QED  BY <4>1, <4>2, <4>3, Width
    <3> QED  BY <3>1, <3>3
  <2>4. /\ PctWord(w, b, 1) = Hdr(0)
        /\ PctWord(w, b, 2) = [Hdr(1) EXCEPT !.a = IF w = "14" THEN b + 1 ELSE b]
    BY DEF PctWord
  <2>5. T = 1 /\ T + 1 = 2 /\ T + 2 = 3 /\ S + 3 = 3  BY <2>1
  <2>6. PctData = PctWord(w, b, 3)  BY <1>5, <2>1, <2>5
  <2> HIDE DEF S, T
  <2> QED  BY <2>2, <2>3, <2>4, <2>5, <2>6 DEF RegSched, T
<1>7. CASE ~RegLoad /\ RegShift
  <2>1. S >= 1 /\ T = S + 1
    <3>1. CASE Completes(w, m)
      BY <1>3, <1>4, <1>7, <3>1
    <3>2. CASE ~Completes(w, m)
      <4>1. c = L(w) + N(w) + 1 \/ c = L(w) + N(w) + 2
        BY <1>3, <1>7, <3>2 DEF Shifting
      <4>2. S >= PctSize[w] - 2
        <5>1. c - 1 - L(w) >= N(w) => Complete(w, c - 1 - L(w)) = PctSize[w] - 2
          BY <1>1, FirstAndLastWords
        <5> QED  BY <1>1, <4>1, <5>1 DEF Shifts
      <4> QED  BY <1>1, <1>3, <1>4, <1>7, <4>2
    <3> QED  BY <3>1, <3>2
  <2>2. reg_0' = reg_1 /\ reg_1' = reg_2
        /\ reg_2' = IF PctDataWrreq THEN PctData ELSE reg_2
    BY <1>2, <1>7 DEF Registers
  <2>3. reg_0' = PctWord(w, b, T)
    <3>1. S + 1 <= PctSize[w] /\ S + 1 = T  BY <1>4, <2>1
    <3> HIDE DEF T
    <3> QED  BY <2>1, <2>2, <3>1 DEF RegSched
  <2>4. T + 1 <= PctSize[w] => reg_1' = PctWord(w, b, T + 1)
    <3>1. S + 2 = T + 1  BY <1>4, <2>1
    <3> HIDE DEF T
    <3> QED  BY <2>1, <2>2, <3>1 DEF RegSched
  <2>5. T + 2 <= PctSize[w] => reg_2' = PctWord(w, b, T + 2)
    <3>1. CASE Completes(w, m)
      <4>1. S + 3 = T + 2  BY <1>4, <2>1
      <4> HIDE DEF T
      <4> QED  BY <1>3, <1>5, <2>2, <3>1, <4>1
    <3>2. CASE ~Completes(w, m)
      <4>1. c = L(w) + N(w) + 1 \/ c = L(w) + N(w) + 2
        BY <1>3, <1>7, <3>2 DEF Shifting
      <4>2. S >= PctSize[w] - 2
        <5>1. c - 1 - L(w) >= N(w) => Complete(w, c - 1 - L(w)) = PctSize[w] - 2
          BY <1>1, FirstAndLastWords
        <5> QED  BY <1>1, <4>1, <5>1 DEF Shifts
      <4>3. T + 2 > PctSize[w]
        <5> HIDE DEF S, T
        <5> QED  BY <1>1, <1>4, <2>1, <4>2
      <4> QED  BY <1>1, <1>4, <4>3
    <3> QED  BY <3>1, <3>2
  <2> HIDE DEF T
  <2> QED  BY <2>3, <2>4, <2>5 DEF RegSched, T
<1>8. CASE ~RegLoad /\ ~RegShift
  <2>1. ~PctDataWrreq /\ T = S  BY <1>3, <1>4, <1>8 DEF RegShift
  <2>2. UNCHANGED <<reg_0, reg_1, reg_2>>
    BY <1>2, <1>8, <2>1 DEF Registers
  <2> QED  BY <2>1, <2>2 DEF RegSched
<1> QED  BY <1>6, <1>7, <1>8

\* A word more of a packet.
LEMMA PartGrows ==
  ASSUME NEW w, NEW b, NEW n \in Nat
  PROVE  /\ Len(Part(w, b, n)) = n
         /\ Append(Part(w, b, n), PctWord(w, b, n + 1)) = Part(w, b, n + 1)
         /\ Part(w, b, 1) = <<PctWord(w, b, 1)>> /\ Part(w, b, 0) = <<>>
<1> DEFINE S == {PctWord(w, b, j) : j \in Nat}
<1>1. \A k \in Nat : Part(w, b, k) \in Seq(S) /\ Len(Part(w, b, k)) = k
  <2> SUFFICES ASSUME NEW k \in Nat
               PROVE  Part(w, b, k) \in Seq(S) /\ Len(Part(w, b, k)) = k
    OBVIOUS
  <2>1. Part(w, b, k) \in [1 .. k -> S]
    <3>1. \A j \in 1 .. k : PctWord(w, b, j) \in S  OBVIOUS
    <3> HIDE DEF S
    <3> QED  BY <3>1 DEF Part
  <2> HIDE DEF S
  <2>2. Part(w, b, k) \in Seq(S)  BY <2>1
  <2> QED  BY <2>1, <2>2
<1>2. PctWord(w, b, n + 1) \in S  OBVIOUS
<1> HIDE DEF S
<1>3. Append(Part(w, b, n), PctWord(w, b, n + 1)) = Part(w, b, n + 1)
  BY <1>1, <1>2 DEF Part
<1>4. Part(w, b, 1) = <<PctWord(w, b, 1)>>  BY DEF Part
<1>5. Part(w, b, 0) = <<>>  BY DEF Part
<1> QED  BY <1>1, <1>3, <1>4, <1>5

\* What is written to the USB FIFO, or left out.
LEMMA WriteStep ==
  ASSUME NEW w \in Widths, width = w, NEW b \in Nat, NEW c \in 0 .. End(w),
         TypeInv, FsmSched(w, c), PackSched(w, b, c), D2pSched(w, c), RegSched(w, b, c),
         WriteSched(w, b, c), Clock
  PROVE  WriteSched(w, b, c + 1)'
<1> DEFINE A == Shifts(w, c - 2)
           B == Shifts(w, c - 1)
<1>1. /\ N(w) \in Nat /\ L(w) \in Nat /\ c \in Nat /\ PctSize[w] \in Nat
      /\ PctSize[w] >= 5 /\ PctBuffWords \in Nat
  BY Width DEF End
<1>2. PICK take \in BOOLEAN : PctBuffer(take)  BY DEF Clock, ClockWith
<1>3. Registers /\ OutRegs /\ Flags /\ width' = width  BY DEF Clock, ClockWith
<1>4. pct_buff_wr_dis' = pct_buff_wr_dis
  BY <1>3 DEF Flags, FsmSched
<1>5. /\ c - 2 \in Int /\ c - 1 \in Int /\ (c - 2) + 1 = c - 1 /\ (c - 1) + 1 = c
      /\ (c + 1) - 1 = c /\ (c + 1) - 2 = c - 1
  BY <1>1
<1>6. /\ A \in 0 .. PctSize[w] /\ B \in 0 .. PctSize[w]
      /\ B = A + IF Shifting(w, c - 2) THEN 1 ELSE 0
      /\ Shifts(w, c) = B + IF Shifting(w, c - 1) THEN 1 ELSE 0
  BY <1>5, OneMoreShift
<1>7. pct_wrreq_int' <=> Shifting(w, (c + 1) - 1)
  BY <1>1, <1>3, <1>5, WhatArrives DEF Registers
<1>8. pct_buff_wrreq_reg' <=> Shifting(w, (c + 1) - 2) /\ pct_buff_wr_dis'
  BY <1>3, <1>4, <1>5 DEF OutRegs, WriteSched
<1>9. pct_buff_wrreq_reg' => pct_buff_wrdata_reg' = PctWord(w, b, Shifts(w, (c + 1) - 1))
  <2> SUFFICES ASSUME pct_buff_wrreq_reg'
               PROVE  pct_buff_wrdata_reg' = PctWord(w, b, Shifts(w, (c + 1) - 1))
    OBVIOUS
  <2>1. Shifting(w, c - 1)  BY <1>5, <1>8
  <2>2. Shifts(w, c) >= 1  BY <1>6, <2>1
  <2>3. pct_buff_wrdata_reg' = reg_0  BY <1>3 DEF OutRegs
  <2> QED  BY <1>5, <2>2, <2>3 DEF RegSched
<1>10. IF pct_buff_wr_dis' /\ Shifts(w, (c + 1) - 2) > 0
       THEN pkt' = Part(w, b, Shifts(w, (c + 1) - 2)) ELSE Whole(w)'
  <2>1. pkt' = IF ~pct_buff_wrreq_reg THEN pkt
               ELSE IF Len(pkt) = PctSize[w] THEN <<pct_buff_wrdata_reg>>
               ELSE Append(pkt, pct_buff_wrdata_reg)
    BY <1>2 DEF PctBuffer
  <2>2. CASE pct_buff_wrreq_reg
    <3>1. pct_buff_wr_dis /\ B = A + 1 /\ pct_buff_wrdata_reg = PctWord(w, b, B)
      BY <1>6, <2>2 DEF WriteSched
    <3>2. CASE A = 0
      <4>1. PICK d \in Nat, n \in {0, PctSize[w]} : pkt = Part(w, d, n)
        BY <3>1, <3>2 DEF WriteSched, Whole
      <4>2. Len(pkt) = n /\ (n = 0 => pkt = <<>>)  BY <1>1, <4>1, PartGrows
      <4>3. ASSUME n = 0 PROVE pkt' = Part(w, b, 1)
        <5>1. pkt' = Append(Part(w, b, 0), pct_buff_wrdata_reg)
          BY <1>1, <2>1, <2>2, <4>2, <4>3, PartGrows
        <5>2. B = 0 + 1 /\ 0 \in Nat  BY <3>1, <3>2
        <5> QED  BY <3>1, <5>1, <5>2, PartGrows
      <4>4. ASSUME n = PctSize[w] PROVE pkt' = Part(w, b, 1)
        BY <2>1, <2>2, <3>1, <3>2, <4>2, <4>4, PartGrows
      <4>5. pkt' = Part(w, b, 1) /\ B = 1  BY <3>1, <3>2, <4>1, <4>3, <4>4
      <4> QED  BY <1>4, <1>5, <3>1, <4>5
    <3>3. CASE A # 0
      <4>1. A \in Nat /\ A > 0 /\ A < PctSize[w]  BY <1>1, <1>6, <3>1, <3>3
      <4>2. pkt = Part(w, b, A)  BY <3>1, <4>1 DEF WriteSched
      <4>3. Len(pkt) = A  BY <4>1, <4>2, PartGrows
      <4>4. pkt' = Append(Part(w, b, A), PctWord(w, b, A + 1))
        BY <2>1, <2>2, <3>1, <4>1, <4>2, <4>3
      <4>5. pkt' = Part(w, b, B)  BY <3>1, <4>1, <4>4, PartGrows
      <4>6. B > 0  BY <3>1, <4>1
      <4> QED  BY <1>4, <1>5, <3>1, <4>5, <4>6
    <3> QED  BY <3>2, <3>3
  <2>3. CASE ~pct_buff_wrreq_reg
    <3>1. pkt' = pkt  BY <2>1, <2>3
    <3>2. pct_buff_wr_dis => A = B  BY <1>6, <2>3 DEF WriteSched
    <3>3. Whole(w)' <=> Whole(w)  BY <3>1 DEF Whole
    <3> QED  BY <1>4, <1>5, <3>1, <3>2, <3>3 DEF WriteSched
  <2> QED  BY <2>2, <2>3
<1>11. pct_buff_wr_dis' => pct_used' + (PctSize[w] - Shifts(w, (c + 1) - 2)) <= PctBuffWords
  <2> SUFFICES ASSUME pct_buff_wr_dis
               PROVE  pct_used' + (PctSize[w] - B) <= PctBuffWords
    BY <1>4, <1>5
  <2>1. pct_used + (PctSize[w] - A) <= PctBuffWords  BY DEF WriteSched
  <2>2. pct_used \in Nat  BY DEF TypeInv
  <2>3. pct_used' = (IF take THEN pct_used - 1 ELSE pct_used)
                    + (IF pct_buff_wrreq_reg THEN 1 ELSE 0)
    BY <1>2 DEF PctBuffer
  <2>4. pct_buff_wrreq_reg <=> Shifting(w, c - 2)  BY DEF WriteSched
  <2> HIDE DEF A, B
  <2> QED  BY <1>1, <1>6, <2>1, <2>2, <2>3, <2>4
<1> QED  BY <1>7, <1>8, <1>9, <1>10, <1>11 DEF WriteSched

-----------------------------------------------------------------------------
(***************************************************************************)
(* A clock of the sample FIFO.                                             *)
(***************************************************************************)

\* The sides of a FIFO that are 0 to Lag clocks late.
LEMMA Sides ==
  /\ Lag \in Nat /\ 0 \in Side /\ Lag \in Side
  /\ \A i \in Side : i \in Nat /\ i <= Lag /\ (i # 0 => i - 1 \in Side)
BY ConstantsOK DEF ConstantsOK, Side

\* The sample FIFO is never full, and a sample that arrives is stored.
LEMMA NeverFull ==
  ASSUME NEW w \in Widths, TypeInv, OrderInv(w)
  PROVE  ~Wrfull
<1>1. Waiting(Lag) <= MostWaiting(w) + Lag + Half  BY Sides DEF OrderInv
<1>2. SmplFifoWords \in Nat /\ SmplFifoWords >= N(w) + Lag + 4 /\ N(w) \in Nat
  BY ConstantsOK, Width DEF ConstantsOK, N
<1>3. sW[0] \in Nat /\ sR[Lag] \in Nat  BY Sides DEF TypeInv
<1>4. Half \in {0, 1}  BY DEF Half
<1> QED  BY <1>1, <1>2, <1>3, <1>4, Sides DEF Waiting, MostWaiting, Wrfull

\* The samples from a to before z, in order.
Queue(a, z) == [j \in 1 .. z - a |-> a + j - 1]

\* A sample comes at the end, and the first one goes.
LEMMA QueueMoves ==
  ASSUME NEW a \in Nat, NEW z \in Nat, a <= z
  PROVE  /\ Queue(a, z) \o <<>> = Queue(a, z)
         /\ Queue(a, z) \o <<z>> = Queue(a, z + 1)
         /\ a < z => Tail(Queue(a, z)) = Queue(a + 1, z) /\ Head(Queue(a, z)) = a
<1>1. \A x, y \in Nat : x <= y => Queue(x, y) \in Seq(Nat) /\ Len(Queue(x, y)) = y - x
  <2> SUFFICES ASSUME NEW x \in Nat, NEW y \in Nat, x <= y
               PROVE  Queue(x, y) \in Seq(Nat) /\ Len(Queue(x, y)) = y - x
    OBVIOUS
  <2>1. y - x \in Nat /\ \A j \in 1 .. y - x : x + j - 1 \in Nat  OBVIOUS
  <2>2. Queue(x, y) \in Seq(Nat)  BY <2>1 DEF Queue
  <2> QED  BY <2>1, <2>2 DEF Queue
<1>2. Queue(a, z) \o <<>> = Queue(a, z)  BY <1>1
<1>3. Queue(a, z) \o <<z>> = Queue(a, z + 1)
  BY <1>1 DEF Queue
<1>4. a < z => Tail(Queue(a, z)) = Queue(a + 1, z) /\ Head(Queue(a, z)) = a
  BY <1>1 DEF Queue
<1> QED  BY <1>2, <1>3, <1>4

\* The pointers in a clock in which nothing is read from an empty FIFO.
LEMMA Pointers ==
  ASSUME NEW w \in Widths, TypeInv, OrderInv(w), RdReq => Rdusedw > 0, Clock
  PROVE  /\ sW'[0] \in {sW[0], sW[0] + 1} /\ sW'[0] = smpl_nr'
         /\ sR'[0] = sR[0] + IF RdReq THEN 1 ELSE 0
         /\ \A i \in Side : i # 0 => sW'[i] = sW[i - 1] /\ sR'[i] = sR[i - 1]
         /\ sW' \in [Side -> Nat] /\ sR' \in [Side -> Nat]
         /\ 2 * (sW'[0] - sW[0]) <= 1 + Half' - Half
         /\ smplFifo' = (IF RdReq THEN Tail(smplFifo) ELSE smplFifo)
                        \o (IF sW'[0] = sW[0] THEN <<>> ELSE <<smpl_nr>>)
         /\ smpl_nr' <= MaxSmpl \/ smpl_nr' = smpl_nr
<1>1. PICK arrives \in BOOLEAN : Sample(arrives)  BY DEF Clock, ClockWith
<1>2. ~Wrfull  BY NeverFull
<1>3. SmplRead <=> RdReq  BY DEF SmplRead
<1>4. sW' = Shift(sW, arrives) /\ sR' = Shift(sR, RdReq)
  <2>1. sW' = Shift(sW, arrives /\ ~Wrfull) /\ sR' = Shift(sR, SmplRead)
    BY <1>1 DEF Sample
  <2>2. Shift(sW, arrives /\ ~Wrfull) = Shift(sW, arrives)  BY <1>2, Zenon DEF Shift
  <2>3. Shift(sR, SmplRead) = Shift(sR, RdReq)  BY <1>3, Zenon DEF Shift
  <2> QED  BY <2>1, <2>2, <2>3
<1>5. /\ sW'[0] = (IF arrives THEN sW[0] + 1 ELSE sW[0])
      /\ sR'[0] = (IF RdReq THEN sR[0] + 1 ELSE sR[0])
      /\ \A i \in Side : i # 0 => sW'[i] = sW[i - 1] /\ sR'[i] = sR[i - 1]
  BY <1>4, Sides DEF Shift
<1>6. \A i \in Side : sW[i] \in Nat /\ sR[i] \in Nat  BY DEF TypeInv
<1>7. sW' \in [Side -> Nat] /\ sR' \in [Side -> Nat]
  <2>1. \A i \in Side : sW'[i] \in Nat /\ sR'[i] \in Nat  BY <1>5, <1>6, Sides
  <2>2. sW' = [i \in Side |-> sW'[i]] /\ sR' = [i \in Side |-> sR'[i]]
    BY <1>4 DEF Shift
  <2> QED  BY <2>1, <2>2
<1>8. /\ smpl_nr' = (IF arrives THEN smpl_nr + 1 ELSE smpl_nr) /\ wrote' = arrives
      /\ arrives => ~wrote /\ smpl_nr < MaxSmpl
  BY <1>1 DEF Sample
<1>9. smpl_nr = sW[0] /\ sW[0] \in Nat /\ sR[0] \in Nat /\ MaxSmpl \in Nat
  BY <1>6, Sides, ConstantsOK DEF OrderInv, ConstantsOK
<1>10. 2 * (sW'[0] - sW[0]) <= 1 + Half' - Half
  BY <1>5, <1>8, <1>9 DEF Half
<1>11. smplFifo' = (IF RdReq THEN Tail(smplFifo) ELSE smplFifo)
                   \o (IF arrives THEN <<smpl_nr>> ELSE <<>>)
  BY <1>1, <1>2, <1>3 DEF Sample
<1>12. smplFifo' = (IF RdReq THEN Tail(smplFifo) ELSE smplFifo)
                   \o (IF sW'[0] = sW[0] THEN <<>> ELSE <<smpl_nr>>)
  <2>1. arrives <=> sW'[0] # sW[0]  BY <1>5, <1>9
  <2> QED  BY <1>11, <2>1, Zenon
<1>13. smpl_nr' <= MaxSmpl \/ smpl_nr' = smpl_nr  BY <1>8, <1>9
<1>14. sW'[0] \in {sW[0], sW[0] + 1} /\ sW'[0] = smpl_nr'  BY <1>5, <1>8, <1>9
<1>15. sR'[0] = sR[0] + IF RdReq THEN 1 ELSE 0  BY <1>5, <1>9
<1> QED  BY <1>5, <1>7, <1>10, <1>12, <1>13, <1>14, <1>15

\* What waits grows by half a sample a clock, and falls by one that is read.
LEMMA WaitingStep ==
  ASSUME NEW w \in Widths, TypeInv, OrderInv(w), RdReq => Rdusedw > 0, Clock
  PROVE  /\ Waiting(0) \in Int /\ Waiting(0)' \in Int /\ Half \in {0, 1} /\ Half' \in {0, 1}
         /\ Waiting(0)' - Half' <= Waiting(0) - Half + 1 - IF RdReq THEN 2 ELSE 0
         /\ Rdusedw \in Int /\ Rdusedw' \in Int
         /\ Rdusedw' >= Rdusedw - IF RdReq THEN 1 ELSE 0
         /\ ~RdReq => LevelInv'
<1>1. /\ sW[0] \in Nat /\ sR[0] \in Nat /\ sW[Lag] \in Nat
      /\ sW'[0] \in Nat /\ sR'[0] \in Nat /\ sW'[Lag] \in Nat
  BY Pointers, Sides DEF TypeInv
<1>2. /\ sR'[0] = sR[0] + IF RdReq THEN 1 ELSE 0
      /\ 2 * (sW'[0] - sW[0]) <= 1 + Half' - Half /\ sW'[0] >= sW[0]
  <2>1. /\ sR'[0] = sR[0] + IF RdReq THEN 1 ELSE 0
        /\ 2 * (sW'[0] - sW[0]) <= 1 + Half' - Half /\ sW'[0] \in {sW[0], sW[0] + 1}
    BY Pointers, Zenon
  <2>2. sW'[0] >= sW[0]  BY <1>1, <2>1
  <2> QED  BY <2>1, <2>2
<1>3. Half \in {0, 1} /\ Half' \in {0, 1}  BY DEF Half
<1>4. sW'[Lag] >= sW[Lag]
  <2>1. CASE Lag = 0
    BY <1>1, <1>2, <2>1
  <2>2. CASE Lag # 0
    <3>1. sW'[Lag] = sW[Lag - 1] /\ sW[Lag] <= sW[Lag - 1]
      BY <2>2, Pointers, Sides DEF OrderInv
    <3> QED  BY <1>1, <3>1
  <2> QED  BY <2>1, <2>2
<1>5. /\ Waiting(0) = 2 * (sW[0] - sR[0]) /\ Waiting(0)' = 2 * (sW'[0] - sR'[0])
      /\ Rdusedw = sW[Lag] - sR[0] /\ Rdusedw' = sW'[Lag] - sR'[0]
  BY DEF Waiting, Rdusedw
<1>6. ~RdReq => LevelInv'
  <2> SUFFICES ASSUME ~RdReq
               PROVE  LevelInv'
    OBVIOUS
  <2>1. rdusedw_reg' = Rdusedw  BY DEF Clock, ClockWith, Flags
  <2>2. 2 * (sW[0] - sW[Lag]) <= Lag + Half  BY Sides DEF OrderInv
  <2>3. rdusedw_reg' <= Rdusedw'  BY <1>1, <1>2, <1>4, <1>5, <2>1
  <2>4. 2 * (sW'[0] - sR'[0] - rdusedw_reg') <= Lag + 1 + Half'
    BY <1>1, <1>2, <1>3, <1>5, <2>1, <2>2, Sides
  <2> QED  BY <2>3, <2>4 DEF LevelInv
<1> QED  BY <1>1, <1>2, <1>3, <1>4, <1>5, <1>6

\* The FIFO holds the samples from the next to be read to the last that came.
LEMMA OrderStep ==
  ASSUME NEW w \in Widths, TypeInv, OrderInv(w), RdReq => Rdusedw > 0, Clock,
         Waiting(0)' <= MostWaiting(w) + Half'
  PROVE  OrderInv(w)'
<1>1. \A i \in Side : /\ sW[i] \in Nat /\ sR[i] \in Nat /\ sW'[i] \in Nat /\ sR'[i] \in Nat
                      /\ i # 0 => sW'[i] = sW[i - 1] /\ sR'[i] = sR[i - 1]
  BY Pointers DEF TypeInv
<1>2. /\ sW'[0] \in {sW[0], sW[0] + 1} /\ sW'[0] = smpl_nr'
      /\ sR'[0] = sR[0] + IF RdReq THEN 1 ELSE 0
      /\ 2 * (sW'[0] - sW[0]) <= 1 + Half' - Half
  BY Pointers
<1>3. Half \in {0, 1} /\ Half' \in {0, 1} /\ MostWaiting(w) \in Int
  BY Width, Sides DEF Half, MostWaiting
<1>4. sR'[0] = smpl_cnt'
  BY <1>2, Sides DEF Clock, ClockWith, CountReads, OrderInv, TypeInv
<1>5. smpl_cnt' <= smpl_nr'
  <2>1. RdReq => sR[0] < sW[0]
    <3>1. sW[Lag] <= sW[0]  BY Sides DEF OrderInv
    <3> QED  BY <1>1, <3>1, Sides DEF Rdusedw
  <2>2. sR[0] <= sW[0]  BY DEF OrderInv
  <2> QED  BY <1>1, <1>2, <1>4, <2>1, <2>2, Sides
<1>6. \A i \in Side : sW'[i] <= sW'[0] /\ 2 * (sW'[0] - sW'[i]) <= i + Half'
  <2> TAKE i \in Side
  <2>1. CASE i = 0
    BY <1>1, <1>3, <2>1, Sides
  <2>2. CASE i # 0
    <3>1. /\ i - 1 \in Side /\ i \in Nat /\ sW'[i] = sW[i - 1] /\ sW[i - 1] \in Nat
          /\ sW[i - 1] <= sW[0] /\ 2 * (sW[0] - sW[i - 1]) <= (i - 1) + Half
      BY <1>1, <2>2, Sides DEF OrderInv
    <3> QED  BY <1>1, <1>2, <1>3, <3>1, Sides
  <2> QED  BY <2>1, <2>2
<1>7. \A i \in Side : i > 0 => sW'[i] <= sW'[i - 1]
  <2> SUFFICES ASSUME NEW i \in Side, i > 0
               PROVE  sW'[i] <= sW'[i - 1]
    OBVIOUS
  <2>1. i \in Nat /\ i # 0 /\ i - 1 \in Side /\ sW'[i] = sW[i - 1]  BY <1>1, Sides
  <2>2. CASE i = 1
    BY <1>1, <1>2, <2>1, <2>2, Sides
  <2>3. CASE i # 1
    <3>1. i - 1 # 0 /\ i - 1 > 0  BY <2>1, <2>3
    <3>2. sW'[i - 1] = sW[(i - 1) - 1] /\ sW[i - 1] <= sW[(i - 1) - 1]
      BY <1>1, <2>1, <3>1 DEF OrderInv
    <3> QED  BY <2>1, <3>2
  <2> QED  BY <2>2, <2>3
<1>8. \A i \in Side : Waiting(i)' <= MostWaiting(w) + i + Half'
  <2> TAKE i \in Side
  <2>1. CASE i = 0
    <3>1. 2 * (sW'[0] - sR'[0]) <= MostWaiting(w) + Half'  BY DEF Waiting
    <3>2. 2 * (sW'[0] - sR'[i]) <= MostWaiting(w) + i + Half'  BY <1>3, <2>1, <3>1
    <3> QED  BY <3>2 DEF Waiting
  <2>2. CASE i # 0
    <3>1. /\ i - 1 \in Side /\ i \in Nat /\ sR'[i] = sR[i - 1] /\ sR[i - 1] \in Nat
          /\ 2 * (sW[0] - sR[i - 1]) <= MostWaiting(w) + (i - 1) + Half
      BY <1>1, <2>2, Sides DEF OrderInv, Waiting
    <3>2. sW[0] \in Nat /\ sW'[0] \in Nat  BY <1>1, Sides
    <3>3. 2 * (sW'[0] - sR'[i]) <= MostWaiting(w) + i + Half'
      BY <1>2, <1>3, <3>1, <3>2
    <3> QED  BY <3>3 DEF Waiting
  <2> QED  BY <2>1, <2>2
<1>9. smplFifo' = [j \in 1 .. smpl_nr' - smpl_cnt' |-> smpl_cnt' + j - 1]
  <2>1. smpl_cnt \in Nat /\ smpl_nr \in Nat /\ smpl_cnt <= smpl_nr
        /\ smpl_nr = sW[0] /\ smpl_cnt = sR[0] /\ smplFifo = Queue(smpl_cnt, smpl_nr)
    BY <1>1, Sides DEF OrderInv, Queue
  <2> DEFINE rest == IF RdReq THEN Tail(smplFifo) ELSE smplFifo
  <2>2. sW'[0] \in Nat /\ sR'[0] \in Nat /\ smpl_cnt' <= smpl_nr
    <3>1. RdReq => sR[0] < sW[0]
      <4>1. sW[Lag] <= sW[0]  BY Sides DEF OrderInv
      <4> QED  BY <1>1, <4>1, Sides DEF Rdusedw
    <3> QED  BY <1>1, <1>2, <1>4, <2>1, <3>1, Sides
  <2>3. rest = Queue(smpl_cnt', smpl_nr)
    <3>1. CASE RdReq
      <4>1. smpl_cnt' = smpl_cnt + 1  BY <1>2, <1>4, <2>1, <3>1
      <4>2. smpl_cnt < smpl_nr  BY <2>1, <2>2, <4>1
      <4> QED  BY <2>1, <3>1, <4>1, <4>2, QueueMoves
    <3>2. CASE ~RdReq
      <4>1. smpl_cnt' = smpl_cnt  BY <1>2, <1>4, <2>1, <3>2
      <4> QED  BY <2>1, <3>2, <4>1
    <3> QED  BY <3>1, <3>2
  <2>4. smpl_cnt' \in Nat  BY <1>4, <2>2
  <2>5. smplFifo' = rest \o (IF sW'[0] = sW[0] THEN <<>> ELSE <<smpl_nr>>)
    BY Pointers, Zenon
  <2> HIDE DEF rest
  <2>6. smplFifo' = Queue(smpl_cnt', smpl_nr')
    <3>1. CASE sW'[0] = sW[0]
      <4>1. smpl_nr' = smpl_nr  BY <1>2, <2>1, <3>1
      <4>2. smplFifo' = Queue(smpl_cnt', smpl_nr) \o <<>>  BY <2>3, <2>5, <3>1
      <4> QED  BY <2>1, <2>2, <2>4, <4>1, <4>2, QueueMoves
    <3>2. CASE sW'[0] # sW[0]
      <4>1. smpl_nr' = smpl_nr + 1  BY <1>2, <2>1, <3>2
      <4>2. smplFifo' = Queue(smpl_cnt', smpl_nr) \o <<smpl_nr>>  BY <2>3, <2>5, <3>2
      <4> QED  BY <2>1, <2>2, <2>4, <4>1, <4>2, QueueMoves
    <3> QED  BY <3>1, <3>2
  <2> QED  BY <2>6 DEF Queue
<1> QED  BY <1>2, <1>4, <1>5, <1>6, <1>7, <1>8, <1>9 DEF OrderInv

\* What the state machine hears of the level, a clock after it was registered.
LEMMA LevelStep ==
  ASSUME NEW w \in Widths, width = w, TypeInv, OrderInv(w), ~RdReq, LevelInv, Clock
  PROVE  /\ smpl_buff_rdy' => Rdusedw' > N(w)
         /\ ~smpl_buff_rdy' => Waiting(0)' <= 2 * N(w) + Lag + 2 + Half'
<1>1. /\ Waiting(0) \in Int /\ Waiting(0)' \in Int /\ Half \in {0, 1} /\ Half' \in {0, 1}
      /\ Waiting(0)' - Half' <= Waiting(0) - Half + 1 - IF RdReq THEN 2 ELSE 0
      /\ Rdusedw \in Int /\ Rdusedw' \in Int
      /\ Rdusedw' >= Rdusedw - IF RdReq THEN 1 ELSE 0
  BY WaitingStep, Zenon
<1>2. Waiting(0)' <= Waiting(0) - Half + 1 + Half' /\ Rdusedw' >= Rdusedw
  BY <1>1
<1>3. rdusedw_reg \in Int /\ sW[0] \in Nat /\ sR[0] \in Nat /\ N(w) \in Nat /\ Lag \in Nat
  BY Sides, Width DEF TypeInv
<1>4. smpl_buff_rdy' <=> rdusedw_reg > N(w)
  BY DEF Clock, ClockWith, Flags, N
<1>5. rdusedw_reg <= Rdusedw /\ Waiting(0) - 2 * rdusedw_reg <= Lag + 1 + Half
  BY <1>1, <1>3 DEF LevelInv, Waiting
<1>6. smpl_buff_rdy' => Rdusedw' > N(w)  BY <1>1, <1>2, <1>3, <1>4, <1>5
<1>7. ~smpl_buff_rdy' => Waiting(0)' <= 2 * N(w) + Lag + 2 + Half'
  BY <1>1, <1>2, <1>3, <1>4, <1>5
<1> QED  BY <1>6, <1>7

\* A packet's reading takes away more than comes in the meantime.
LEMMA ReadingStep ==
  ASSUME NEW w \in Widths, width = w, NEW c \in 0 .. End(w), TypeInv, OrderInv(w),
         FsmSched(w, c), WaitingInv(w, c), Clock
  PROVE  /\ RdReq => Rdusedw > 0
         /\ WaitingInv(w, c + 1)' /\ OrderInv(w)'
<1>1. /\ N(w) \in Nat /\ L(w) \in Nat /\ N(w) >= L(w) + 7 /\ c \in Nat
      /\ c <= N(w) + L(w) + 4 /\ MostWaiting(w) \in Int
  BY Width, Sides DEF End, MostWaiting
<1>2. RdReq <=> c < N(w)  BY DEF RdReq, FsmSched
<1>3. RdReq => Rdusedw > 0
  <2>1. Rdusedw \in Int  BY Sides DEF Rdusedw, TypeInv
  <2> QED  BY <1>1, <1>2, <2>1 DEF WaitingInv
<1>4. /\ Waiting(0) \in Int /\ Waiting(0)' \in Int /\ Half \in {0, 1} /\ Half' \in {0, 1}
      /\ Waiting(0)' - Half' <= Waiting(0) - Half + 1 - IF RdReq THEN 2 ELSE 0
      /\ Rdusedw \in Int /\ Rdusedw' \in Int
      /\ Rdusedw' >= Rdusedw - IF RdReq THEN 1 ELSE 0
      /\ ~RdReq => LevelInv'
  BY <1>3, WaitingStep, Zenon
<1>5. Waiting(0)' <= MostWaiting(w) + (c + 1) - 2 * Read(w, c + 1) + Half'
  <2>1. Waiting(0) <= MostWaiting(w) + c - 2 * Read(w, c) + Half  BY DEF WaitingInv
  <2>2. Read(w, c) \in Nat /\ Read(w, c + 1) = Read(w, c) + IF RdReq THEN 1 ELSE 0
    BY <1>1, <1>2 DEF Read
  <2> QED  BY <1>1, <1>4, <2>1, <2>2
<1>6. c + 1 < N(w) => Rdusedw' + (c + 1) > N(w)
  <2>1. c < N(w) => Rdusedw + c > N(w)  BY DEF WaitingInv
  <2> QED  BY <1>1, <1>4, <2>1
<1>7. c + 1 > N(w) => LevelInv'  BY <1>1, <1>2, <1>4
<1>8. c + 1 > N(w) + 1 => (smpl_buff_rdy' => Rdusedw' > N(w))
  <2> SUFFICES ASSUME c + 1 > N(w) + 1
               PROVE  smpl_buff_rdy' => Rdusedw' > N(w)
    OBVIOUS
  <2>1. ~RdReq /\ LevelInv  BY <1>1, <1>2 DEF WaitingInv
  <2> QED  BY <2>1, LevelStep
<1>9. Waiting(0)' <= MostWaiting(w) + Half'
  <2>1. (c + 1) - 2 * Read(w, c + 1) <= 0 /\ Read(w, c + 1) \in Nat  BY <1>1 DEF Read
  <2> QED  BY <1>1, <1>4, <1>5, <2>1
<1>10. OrderInv(w)'  BY <1>3, <1>9, OrderStep
<1> QED  BY <1>3, <1>5, <1>6, <1>7, <1>8, <1>10 DEF WaitingInv


-----------------------------------------------------------------------------
(***************************************************************************)
(* The invariant in a clock of each phase.                                 *)
(***************************************************************************)

\* Types, given what the schedule says of the counters.
LEMMA TypeStep ==
  ASSUME NEW w \in Widths, width = w, TypeInv, OrderInv(w), RdReq => Rdusedw > 0, Clock,
         d2p_state = "s2" => pct_end_cnt \in {0, 1},
         pct_buff_wrreq_reg => pct_used < PctBuffWords,
         smpl_buff_rd_cnt' \in 0 .. N(w), pct_data_wr_cnt' \in 0 .. PctSize[w]
  PROVE  TypeInv'
<1>1. /\ width' = w /\ width' \in Widths
      /\ Fsm /\ D2pFsm /\ D2pCounters /\ Registers /\ OutRegs /\ Pack /\ CountReads /\ Flags
  BY DEF Clock, ClockWith
<1>2. MaxSmpl \in Nat /\ L(w) \in Nat /\ L(w) >= 1 /\ Group[w] \in {1, 4, 8}
      /\ PctBuffWords \in Nat
  BY ConstantsOK, Width DEF ConstantsOK
<1>3. /\ smpl_cnt \in Nat /\ smpl_nr \in 0 .. MaxSmpl /\ smpl_cnt \in 0 .. MaxSmpl
  BY <1>2 DEF TypeInv, TypeOK, OrderInv
<1>4. smpl_nr' \in 0 .. MaxSmpl
  <2>1. PICK arrives \in BOOLEAN : Sample(arrives)  BY DEF Clock, ClockWith
  <2> QED  BY <1>2, <1>3, <2>1 DEF Sample
<1>5. fsm_state' \in {"idle", "check_pct_buff", "rd_smpl_buff", "wait_data2packets_done"}
      /\ d2p_state' \in {"idle", "s0", "s1", "s2"}
  BY <1>1 DEF Fsm, Go, D2pFsm, D2pGo
<1>6. smpl_buff_rd_cnt' \in 0 .. SmplRdSize[width'] /\ pct_data_wr_cnt' \in 0 .. PctSize[width']
  BY <1>1 DEF N
<1>7. pct_end_cnt' \in {0, 1, 255}
  BY <1>1 DEF D2pCounters
<1>8. pack_cnt' \in 0 .. Group[width'] - 1
  <2>1. pack_cnt \in 0 .. Group[w] - 1  BY DEF TypeInv, TypeOK
  <2>2. pack_cnt' = IF data_in_valid /\ w # "16" THEN (pack_cnt + 1) % Group[w] ELSE pack_cnt
    BY <1>1 DEF Pack
  <2> QED  BY <1>1, <1>2, <2>1, <2>2
<1>9. /\ \A x, y \in 0 .. MaxSmpl : Data(x, y) \in WordSet
      /\ None \in WordSet /\ Hdr(0) \in WordSet
      /\ \A x \in 0 .. MaxSmpl : [Hdr(1) EXCEPT !.a = x] \in WordSet
  BY <1>2 DEF Data, None, Hdr, WordSet
<1>10. smpl_q \in 0 .. MaxSmpl /\ pack_reg \in 0 .. MaxSmpl  BY DEF TypeInv
<1>11. pack_pipe \in [1 .. L(w) -> WordSet]  BY DEF TypeInv, TypeOK, L
<1>12. Packed \in WordSet
  BY <1>9, <1>10 DEF Packed
<1>13. pack_pipe' \in [1 .. Latency[width'] -> WordSet]
  <2>1. pack_pipe' = [i \in 1 .. L(w) |-> IF i = 1 THEN Packed ELSE pack_pipe[i - 1]]
    BY <1>1 DEF Pack, L
  <2>2. ASSUME NEW i \in 1 .. L(w)
        PROVE  (IF i = 1 THEN Packed ELSE pack_pipe[i - 1]) \in WordSet
    BY <1>2, <1>11, <1>12
  <2>3. pack_pipe' \in [1 .. L(w) -> WordSet]  BY <2>1, <2>2
  <2> QED  BY <1>1, <2>3 DEF L
<1>14. PctData \in WordSet
  BY <1>2, <1>11 DEF PctData, L
<1>15. delay_chain[DelayStages] \in 0 .. MaxSmpl
  BY DEF TypeInv, DelayStages
<1>16. {reg_0', reg_1', reg_2', pct_buff_wrdata_reg'} \subseteq WordSet
  <2>1. reg_0 \in WordSet /\ reg_1 \in WordSet /\ reg_2 \in WordSet
    BY DEF TypeInv, TypeOK
  <2>2. reg_0' \in WordSet  BY <1>1, <1>9, <2>1 DEF Registers
  <2>3. reg_1' \in WordSet  BY <1>1, <1>9, <1>15, <2>1 DEF Registers
  <2>4. reg_2' \in WordSet  BY <1>1, <1>14, <2>1 DEF Registers
  <2>5. pct_buff_wrdata_reg' \in WordSet  BY <1>1, <2>1 DEF OutRegs
  <2> QED  BY <2>2, <2>3, <2>4, <2>5
<1>17. smpl_q' \in 0 .. MaxSmpl /\ pack_reg' \in 0 .. MaxSmpl
  <2>1. CASE RdReq
    <3>1. smpl_q' = smpl_cnt  BY <2>1, SampleStep DEF RdReq
    <3> QED  BY <1>1, <1>3, <1>10, <3>1 DEF Pack
  <2>2. CASE ~RdReq
    <3>1. smpl_q' = smpl_q
      BY <2>2 DEF Clock, ClockWith, Sample, SmplRead
    <3> QED  BY <1>1, <1>10, <3>1 DEF Pack
  <2> QED  BY <2>1, <2>2
<1>18. smpl_cnt' \in Nat  BY <1>1, <1>3 DEF CountReads
<1>19. delay_chain' \in [1 .. DelayStages -> 0 .. MaxSmpl]
  <2>1. delay_chain' = [i \in 1 .. DelayStages |-> IF i = 1 THEN smpl_cnt ELSE delay_chain[i - 1]]
    BY <1>1 DEF CountReads
  <2>2. ASSUME NEW i \in 1 .. DelayStages
        PROVE  (IF i = 1 THEN smpl_cnt ELSE delay_chain[i - 1]) \in 0 .. MaxSmpl
    BY <1>3 DEF TypeInv, DelayStages
  <2> QED  BY <2>1, <2>2
<1>20. sW' \in [Side -> Nat] /\ sR' \in [Side -> Nat]  BY Pointers, Zenon
<1>21. rdusedw_reg' \in Int
  <2>1. Rdusedw \in Int  BY Sides DEF Rdusedw, TypeInv
  <2> QED  BY <1>1, <2>1 DEF Flags
<1>22. pct_used' \in 0 .. PctBuffWords /\ pct_wusedw' \in Nat
  <2>1. PICK take \in BOOLEAN : PctBuffer(take)  BY DEF Clock, ClockWith
  <2>2. pct_used \in 0 .. PctBuffWords  BY DEF TypeInv
  <2> QED  BY <1>2, <2>1, <2>2 DEF PctBuffer
<1>23. TypeOK'
  BY <1>1, <1>4, <1>5, <1>6, <1>7, <1>8, <1>13, <1>16 DEF TypeOK, WordSet
<1> QED  BY <1>17, <1>18, <1>19, <1>20, <1>21, <1>22, <1>23 DEF TypeInv


\* A clock between packets: nothing moves but the samples that come in.
LEMMA RestClock ==
  ASSUME NEW w \in Widths, width = w, TypeInv, OrderInv(w), Resting, RestInv(w), Clock
  PROVE  /\ ~RdReq /\ ~PctDataWrreq /\ OrderInv(w)' /\ TypeInv'
         /\ smpl_buff_rd_cnt' = 0 /\ ~smpl_buff_rd_done' /\ ~data_in_valid' /\ pack_cnt' = 0
         /\ pack_pipe' = [i \in 1 .. L(w) |-> None]
         /\ smpl_cnt' = smpl_cnt /\ \A i \in 1 .. DelayStages : delay_chain'[i] = smpl_cnt
         /\ d2p_state' = "idle" /\ pct_data_wr_cnt' = 0
         /\ ~pct_wrreq_int' /\ ~pct_buff_wrreq_reg' /\ Whole(w)'
         /\ pct_used' <= pct_used /\ pct_wusedw' = pct_used
<1>1. /\ N(w) \in Nat /\ L(w) \in Nat /\ L(w) >= 1 /\ N(w) >= L(w) + 7 /\ PctSize[w] \in Nat
      /\ MostWaiting(w) \in Int
  BY Width, Sides DEF MostWaiting
<1>2. /\ Flags /\ RdCount /\ Fsm /\ Pack /\ CountReads /\ Registers /\ D2pCounters
      /\ D2pFsm /\ OutRegs
  BY DEF Clock, ClockWith
<1>3. ~RdReq  BY DEF RdReq, Resting
<1>4. ~PctDataWrreq
  <2>1. PctData = None  BY <1>1 DEF RestInv, PctData, L
  <2> QED  BY <2>1 DEF PctDataWrreq
<1>5. d2p_state = "idle" /\ ~RegShift /\ ~RegLoad
  BY <1>4 DEF RestInv, RegShift, RegLoad
<1>6. smpl_buff_rd_cnt' = 0 /\ ~smpl_buff_rd_done'
  <2>1. smpl_buff_rd_cnt' = 0 /\ (smpl_buff_rd_done' <=> smpl_buff_rd_cnt >= N(w) - 2)
    BY <1>2, <1>3 DEF RdCount, N
  <2>2. smpl_buff_rd_cnt = 0  BY DEF RestInv
  <2> QED  BY <1>1, <2>1, <2>2
<1>7. ~data_in_valid' /\ pack_cnt' = 0 /\ Packed = None
  BY <1>2, <1>3 DEF Flags, Pack, Packed, RestInv
<1>8. pack_pipe' = [i \in 1 .. L(w) |-> None]
  <2>1. pack_pipe' = [i \in 1 .. L(w) |-> IF i = 1 THEN Packed ELSE pack_pipe[i - 1]]
    BY <1>2 DEF Pack, L
  <2>2. ASSUME NEW i \in 1 .. L(w)
        PROVE  (IF i = 1 THEN Packed ELSE pack_pipe[i - 1]) = None
    BY <1>1, <1>7 DEF RestInv
  <2> QED  BY <2>1, <2>2, Zenon
<1>9. smpl_cnt' = smpl_cnt /\ \A i \in 1 .. DelayStages : delay_chain'[i] = smpl_cnt
  <2>1. smpl_cnt' = smpl_cnt  BY <1>2, <1>3 DEF CountReads
  <2>2. ASSUME NEW i \in 1 .. DelayStages
        PROVE  delay_chain'[i] = smpl_cnt
    <3>1. delay_chain'[i] = IF i = 1 THEN smpl_cnt ELSE delay_chain[i - 1]
      BY <1>2 DEF CountReads
    <3>2. i # 1 => i - 1 \in 1 .. DelayStages /\ i - 1 < DelayStages
      BY DEF DelayStages
    <3> QED  BY <3>1, <3>2 DEF RestInv
  <2> QED  BY <2>1, <2>2
<1>10. d2p_state' = "idle" /\ pct_data_wr_cnt' = 0
  BY <1>2, <1>4, <1>5 DEF D2pFsm, D2pGo, D2pCounters, RestInv
<1>11. ~pct_wrreq_int' /\ ~pct_buff_wrreq_reg'
  BY <1>2, <1>5 DEF Registers, OutRegs, RestInv
<1>12. PICK take \in BOOLEAN : PctBuffer(take)  BY DEF Clock, ClockWith
<1>13. pkt' = pkt /\ pct_used' <= pct_used /\ pct_wusedw' = pct_used
  <2>1. ~pct_buff_wrreq_reg /\ pct_used \in Nat  BY DEF RestInv, TypeInv
  <2> QED  BY <1>12, <2>1 DEF PctBuffer
<1>14. Whole(w)'  BY <1>13 DEF Whole, RestInv
<1>15. Waiting(0)' <= MostWaiting(w) + Half'
  <2>1. /\ Waiting(0) \in Int /\ Waiting(0)' \in Int /\ Half \in {0, 1} /\ Half' \in {0, 1}
        /\ Waiting(0)' - Half' <= Waiting(0) - Half + 1 - IF RdReq THEN 2 ELSE 0
    BY <1>3, WaitingStep, Zenon
  <2>2. Waiting(0) <= MostWaiting(w) - 1 + Half
    BY <1>1, <2>1 DEF RestInv, Resting
  <2> QED  BY <1>1, <1>3, <2>1, <2>2
<1>16. OrderInv(w)'  BY <1>3, <1>15, OrderStep
<1>17. TypeInv'
  <2>1. smpl_buff_rd_cnt' \in 0 .. N(w) /\ pct_data_wr_cnt' \in 0 .. PctSize[w]
    BY <1>1, <1>6, <1>10
  <2>2. ~pct_buff_wrreq_reg  BY DEF RestInv
  <2> QED  BY <1>3, <1>5, <2>1, <2>2, TypeStep
<1> QED  BY <1>3, <1>4, <1>6, <1>7, <1>8, <1>9, <1>10, <1>11, <1>13, <1>14, <1>16, <1>17

\* A clock of waiting for samples.
LEMMA IdleStep ==
  ASSUME NEW w \in Widths, width = w, TypeInv, OrderInv(w), fsm_state = "idle",
         RestInv(w), Clock
  PROVE  Resting' /\ RestInv(w)'
<1>1. /\ N(w) \in Nat /\ MostWaiting(w) = 2 * N(w) + Lag + 5 /\ Lag \in Nat
      /\ PctSize[w] \in Nat /\ PctBuffWords \in Nat
  BY Width, Sides DEF MostWaiting
<1>2. Resting  BY DEF Resting
<1>3. ~RdReq /\ LevelInv  BY DEF RdReq, RestInv
<1>4. fsm_state' = IF smpl_buff_rdy THEN "check_pct_buff" ELSE "idle"
  BY DEF Clock, ClockWith, Fsm, Go
<1>5. /\ Waiting(0) \in Int /\ Waiting(0)' \in Int /\ Half \in {0, 1} /\ Half' \in {0, 1}
      /\ Waiting(0)' - Half' <= Waiting(0) - Half + 1 - IF RdReq THEN 2 ELSE 0
      /\ Rdusedw \in Int /\ Rdusedw' \in Int
      /\ Rdusedw' >= Rdusedw - IF RdReq THEN 1 ELSE 0
      /\ ~RdReq => LevelInv'
  BY <1>3, WaitingStep, Zenon
<1>6. Waiting(0)' - Half' <= Waiting(0) - Half + 1 /\ Rdusedw' >= Rdusedw /\ LevelInv'
  BY <1>3, <1>5
<1>7. /\ smpl_buff_rdy' => Rdusedw' > N(w)
      /\ ~smpl_buff_rdy' => Waiting(0)' <= 2 * N(w) + Lag + 2 + Half'
  BY <1>3, LevelStep
<1>8. /\ smpl_buff_rdy => Rdusedw > N(w)
      /\ ~smpl_buff_rdy => Waiting(0) <= 2 * N(w) + Lag + 2 + Half
      /\ Waiting(0) <= MostWaiting(w) - 2 + Half /\ pct_used <= pct_wusedw + 1
  BY DEF RestInv
<1>9. /\ pct_used' <= pct_used /\ pct_wusedw' = pct_used /\ pct_used \in Nat
      /\ pct_wusedw \in Nat /\ pct_used' \in Nat
  <2>1. pct_used' <= pct_used /\ pct_wusedw' = pct_used /\ TypeInv'
    BY <1>2, RestClock, Zenon
  <2> QED  BY <2>1 DEF TypeInv
<1>10. fsm_state' = "check_pct_buff" =>
         /\ Rdusedw' > N(w) /\ Waiting(0)' <= MostWaiting(w) - 1 + Half'
         /\ pct_buff_rdy' => pct_used' + PctSize[w] <= PctBuffWords
  <2> SUFFICES ASSUME fsm_state' = "check_pct_buff"
               PROVE  /\ Rdusedw' > N(w) /\ Waiting(0)' <= MostWaiting(w) - 1 + Half'
                      /\ pct_buff_rdy' => pct_used' + PctSize[w] <= PctBuffWords
    OBVIOUS
  <2>1. smpl_buff_rdy  BY <1>4
  <2>2. Rdusedw' > N(w)  BY <1>1, <1>5, <1>6, <1>8, <2>1
  <2>3. Waiting(0)' <= MostWaiting(w) - 1 + Half'  BY <1>1, <1>5, <1>6, <1>8
  <2>4. pct_buff_rdy' <=> pct_wusedw < PctBuffWords - PctSize[w]
    BY DEF Clock, ClockWith, Flags
  <2>5. pct_buff_rdy' => pct_used' + PctSize[w] <= PctBuffWords
    BY <1>1, <1>8, <1>9, <2>4
  <2> QED  BY <2>2, <2>3, <2>5
<1>11. fsm_state' = "idle" =>
         /\ Waiting(0)' <= MostWaiting(w) - 2 + Half'
         /\ pct_used' <= pct_wusedw' + 1
  <2> SUFFICES ASSUME fsm_state' = "idle"
               PROVE  /\ Waiting(0)' <= MostWaiting(w) - 2 + Half'
                      /\ pct_used' <= pct_wusedw' + 1
    OBVIOUS
  <2>1. ~smpl_buff_rdy  BY <1>4
  <2>2. Waiting(0)' <= MostWaiting(w) - 2 + Half'  BY <1>1, <1>5, <1>6, <1>8, <2>1
  <2>3. pct_used' <= pct_wusedw' + 1  BY <1>9
  <2> QED  BY <2>2, <2>3
<1>12. /\ smpl_buff_rd_cnt' = 0 /\ ~smpl_buff_rd_done' /\ ~data_in_valid' /\ pack_cnt' = 0
       /\ pack_pipe' = [i \in 1 .. L(w) |-> None]
       /\ \A i \in 1 .. DelayStages : delay_chain'[i] = smpl_cnt'
       /\ d2p_state' = "idle" /\ pct_data_wr_cnt' = 0
       /\ ~pct_wrreq_int' /\ ~pct_buff_wrreq_reg' /\ Whole(w)'
  <2>1. /\ smpl_buff_rd_cnt' = 0 /\ ~smpl_buff_rd_done' /\ ~data_in_valid' /\ pack_cnt' = 0
        /\ pack_pipe' = [i \in 1 .. L(w) |-> None]
        /\ smpl_cnt' = smpl_cnt /\ \A i \in 1 .. DelayStages : delay_chain'[i] = smpl_cnt
        /\ d2p_state' = "idle" /\ pct_data_wr_cnt' = 0
        /\ ~pct_wrreq_int' /\ ~pct_buff_wrreq_reg' /\ Whole(w)'
    BY <1>2, RestClock, Zenon
  <2> QED  BY <2>1
<1>13. Resting'  BY <1>4 DEF Resting
<1>14. RestInv(w)'  BY <1>6, <1>7, <1>10, <1>11, <1>12, Zenon DEF RestInv
<1> QED  BY <1>13, <1>14


\* The clock before the first read.
LEMMA StartStep ==
  ASSUME NEW w \in Widths, width = w, TypeInv, OrderInv(w), fsm_state = "check_pct_buff",
         RestInv(w), Clock
  PROVE  ~Resting' /\ \E b \in Nat : Sched(w, b, 0)'
<1>0. PICK b \in Nat : b = smpl_cnt  BY DEF TypeInv
<1>1. /\ N(w) \in Nat /\ L(w) \in Nat /\ N(w) >= L(w) + 7 /\ L(w) >= 1
      /\ MostWaiting(w) \in Int /\ PctSize[w] \in Nat /\ PctBuffWords \in Nat
  BY Width, Sides DEF MostWaiting
<1>2. /\ ~RdReq
      /\ smpl_buff_rd_cnt' = 0 /\ ~smpl_buff_rd_done' /\ ~data_in_valid' /\ pack_cnt' = 0
      /\ pack_pipe' = [i \in 1 .. L(w) |-> None]
      /\ smpl_cnt' = smpl_cnt /\ \A i \in 1 .. DelayStages : delay_chain'[i] = smpl_cnt
      /\ d2p_state' = "idle" /\ pct_data_wr_cnt' = 0
      /\ ~pct_wrreq_int' /\ ~pct_buff_wrreq_reg' /\ Whole(w)' /\ TypeInv'
      /\ pct_used' <= pct_used /\ pct_wusedw' = pct_used
  <2>1. Resting  BY DEF Resting
  <2> QED  BY <2>1, RestClock, Zenon
<1>3. pct_used \in Nat /\ pct_used' \in Nat  BY <1>2 DEF TypeInv
<1>4. fsm_state' = "rd_smpl_buff"  BY DEF Clock, ClockWith, Fsm, Go
<1>5. \A m \in Int : m < 1 => Complete(w, m) = 0 /\ ~Completes(w, m)
  BY FirstAndLastWords
<1>6. \A i \in Int : i >= 0 => Made(w, b, 0 - i) = None /\ Read(w, 0 - i) = 0
  BY <1>1, <1>5 DEF Made, Read
<1>7. FsmSched(w, 0)'
  <2>1. /\ ~(0 = N(w) - 1) /\ 0 < N(w) /\ ~(0 >= N(w)) /\ 0 <= N(w) /\ 0 \notin 1 .. N(w)
    BY <1>1
  <2> QED  BY <1>2, <1>4, <2>1 DEF FsmSched
<1>8. PackSched(w, b, 0)'
  <2>1. Read(w, 0) = 0  BY <1>1 DEF Read
  <2>2. pack_pipe' = [i \in 1 .. L(w) |-> Made(w, b, 0 - i)]
    <3>1. \A i \in 1 .. L(w) : Made(w, b, 0 - i) = None  BY <1>1, <1>2, <1>6
    <3> QED  BY <1>2, <3>1, Zenon
  <2>3. delay_chain' = [i \in 1 .. DelayStages |-> b + Read(w, 0 - i)]
    <3>1. delay_chain' = [i \in 1 .. DelayStages |-> delay_chain'[i]]
      BY <1>2 DEF TypeInv
    <3>2. \A i \in 1 .. DelayStages : delay_chain'[i] = b + Read(w, 0 - i)
      BY <1>0, <1>2, <1>6 DEF DelayStages
    <3> QED  BY <3>1, <3>2, Zenon
  <2> QED  BY <1>0, <1>1, <1>2, <2>1, <2>2, <2>3 DEF PackSched
<1>9. /\ Shifts(w, 0) = 0 /\ Shifts(w, -2) = 0
      /\ ~Shifting(w, -1) /\ ~Shifting(w, -2)
  BY <1>1, <1>5 DEF Shifts, Shifting
<1>10. D2pSched(w, 0)'
  BY <1>1, <1>2, <1>9 DEF D2pSched
<1>11. RegSched(w, b, 0)'
  BY <1>9 DEF RegSched
<1>12. WriteSched(w, b, 0)'
  <2>1. 0 - 1 = -1 /\ 0 - 2 = -2  OBVIOUS
  <2>2. pct_buff_wr_dis' <=> pct_buff_rdy  BY DEF Clock, ClockWith, Flags
  <2>3. pct_buff_wr_dis' => pct_used' + (PctSize[w] - Shifts(w, -2)) <= PctBuffWords
    BY <1>1, <1>2, <1>3, <1>9, <2>2 DEF RestInv
  <2>4. ~(Shifts(w, -2) > 0)  BY <1>9
  <2> QED  BY <1>2, <1>9, <2>1, <2>3, <2>4 DEF WriteSched
<1>13. WaitingInv(w, 0)'
  <2>1. /\ Waiting(0) \in Int /\ Waiting(0)' \in Int /\ Half \in {0, 1} /\ Half' \in {0, 1}
        /\ Waiting(0)' - Half' <= Waiting(0) - Half + 1 - IF RdReq THEN 2 ELSE 0
        /\ Rdusedw \in Int /\ Rdusedw' \in Int
        /\ Rdusedw' >= Rdusedw - IF RdReq THEN 1 ELSE 0
    BY <1>2, WaitingStep, Zenon
  <2>2. Waiting(0)' - Half' <= Waiting(0) - Half + 1 /\ Rdusedw' >= Rdusedw
    BY <1>2, <2>1
  <2>3. Rdusedw > N(w) /\ Waiting(0) <= MostWaiting(w) - 1 + Half  BY DEF RestInv
  <2>4. Waiting(0)' <= MostWaiting(w) + Half' /\ Rdusedw' > N(w)
    BY <1>1, <2>1, <2>2, <2>3
  <2>5. Read(w, 0) = 0  BY <1>1 DEF Read
  <2>6. Waiting(0)' <= MostWaiting(w) + 0 - 2 * Read(w, 0) + Half'
    BY <1>1, <2>1, <2>4, <2>5
  <2>7. Rdusedw' + 0 > N(w)  BY <2>1, <2>4
  <2> QED  BY <1>1, <2>6, <2>7 DEF WaitingInv
<1>14. ~Resting'  BY <1>4 DEF Resting
<1>15. Sched(w, b, 0)'
  BY <1>7, <1>8, <1>10, <1>11, <1>12, <1>13 DEF Sched
<1> QED  BY <1>14, <1>15


\* A clock of the schedule, all parts but the state machine.
LEMMA SchedClock ==
  ASSUME NEW w \in Widths, width = w, NEW b \in Nat, NEW c \in 0 .. End(w),
         TypeInv, OrderInv(w), Sched(w, b, c), Clock
  PROVE  /\ PackSched(w, b, c + 1)' /\ D2pSched(w, c + 1)' /\ RegSched(w, b, c + 1)'
         /\ WriteSched(w, b, c + 1)' /\ WaitingInv(w, c + 1)' /\ OrderInv(w)' /\ TypeInv'
<1>1. /\ FsmSched(w, c) /\ PackSched(w, b, c) /\ D2pSched(w, c) /\ RegSched(w, b, c)
      /\ WriteSched(w, b, c) /\ WaitingInv(w, c)
  BY DEF Sched
<1>2. /\ N(w) \in Nat /\ L(w) \in Nat /\ c \in Nat /\ PctSize[w] \in Nat
      /\ c <= N(w) + L(w) + 4
  BY Width DEF End
<1>3. PackSched(w, b, c + 1)'  BY <1>1, PackStep
<1>4. D2pSched(w, c + 1)'  BY <1>1, D2pStep
<1>5. RegSched(w, b, c + 1)'  BY <1>1, RegStep
<1>6. WriteSched(w, b, c + 1)'  BY <1>1, WriteStep
<1>7. (RdReq => Rdusedw > 0) /\ WaitingInv(w, c + 1)' /\ OrderInv(w)'
  BY <1>1, ReadingStep
<1>8. smpl_buff_rd_cnt' \in 0 .. N(w)
  <2>1. smpl_buff_rd_cnt' = IF RdReq THEN smpl_buff_rd_cnt + 1 ELSE 0
    BY DEF Clock, ClockWith, RdCount
  <2>2. RdReq => c < N(w) /\ smpl_buff_rd_cnt = c
    BY <1>1, <1>2 DEF FsmSched, RdReq
  <2> QED  BY <1>2, <2>1, <2>2
<1>9. pct_data_wr_cnt' \in 0 .. PctSize[w]
  <2>1. Shifts(w, c + 1) \in 0 .. PctSize[w]  BY <1>2, OneMoreShift
  <2> QED  BY <1>2, <1>4, <2>1 DEF D2pSched
<1>10. d2p_state = "s2" => pct_end_cnt \in {0, 1}
  BY <1>1, <1>2 DEF D2pSched
<1>11. pct_buff_wrreq_reg => pct_used < PctBuffWords
  <2> SUFFICES ASSUME pct_buff_wrreq_reg
               PROVE  pct_used < PctBuffWords
    OBVIOUS
  <2>1. Shifting(w, c - 2) /\ pct_used + (PctSize[w] - Shifts(w, c - 2)) <= PctBuffWords
    BY <1>1 DEF WriteSched
  <2>2. /\ Shifts(w, c - 2) \in 0 .. PctSize[w] /\ Shifts(w, c - 1) \in 0 .. PctSize[w]
        /\ Shifts(w, c - 1) = Shifts(w, c - 2) + 1
    <3>1. c - 2 \in Int /\ c - 1 \in Int /\ (c - 2) + 1 = c - 1  BY <1>2
    <3> QED  BY <2>1, <3>1, OneMoreShift
  <2>3. pct_used \in Nat /\ PctBuffWords \in Nat  BY Width DEF TypeInv
  <2> QED  BY <1>2, <2>1, <2>2, <2>3
<1>12. TypeInv'  BY <1>7, <1>8, <1>9, <1>10, <1>11, TypeStep
<1> QED  BY <1>3, <1>4, <1>5, <1>6, <1>7, <1>12

\* The clock in which the state machine goes back to idle: all has come to rest.
LEMMA EndStep ==
  ASSUME NEW w \in Widths, width = w, NEW b \in Nat,
         TypeInv, OrderInv(w), Sched(w, b, End(w)), Clock
  PROVE  Resting' /\ RestInv(w)'
<1> DEFINE c == End(w)
<1>1. /\ N(w) \in Nat /\ L(w) \in Nat /\ L(w) <= 6 /\ N(w) >= L(w) + 7 /\ L(w) >= 1
      /\ PctSize[w] \in Nat /\ PctSize[w] >= 5 /\ Lag \in Nat
      /\ MostWaiting(w) = 2 * N(w) + Lag + 5
  BY Width, Sides DEF MostWaiting
<1>2. c = N(w) + L(w) + 4 /\ c \in 0 .. End(w) /\ c \in Nat  BY <1>1 DEF End
<1>3. /\ FsmSched(w, c) /\ PackSched(w, b, c) /\ D2pSched(w, c) /\ WriteSched(w, b, c)
      /\ WaitingInv(w, c)
  BY DEF Sched
<1>4. /\ PackSched(w, b, c + 1)' /\ D2pSched(w, c + 1)' /\ WriteSched(w, b, c + 1)'
      /\ WaitingInv(w, c + 1)' /\ TypeInv'
  BY <1>2, SchedClock
<1> HIDE DEF c
<1>5. fsm_state = "wait_data2packets_done" /\ data2packets_done /\ smpl_buff_rd_cnt = 0
      /\ ~data_in_valid
  BY <1>1, <1>2, <1>3 DEF FsmSched, c
<1>6. fsm_state' = "idle"
  BY <1>5 DEF Clock, ClockWith, Fsm, Go
<1>7. ~RdReq  BY <1>5 DEF RdReq
<1>8. smpl_buff_rd_cnt' = 0 /\ ~smpl_buff_rd_done' /\ ~data_in_valid'
  <2>1. smpl_buff_rd_cnt' = 0 /\ (smpl_buff_rd_done' <=> smpl_buff_rd_cnt >= N(w) - 2)
    BY <1>7 DEF Clock, ClockWith, RdCount, N
  <2>2. ~data_in_valid'  BY <1>7 DEF Clock, ClockWith, Flags
  <2> QED  BY <1>1, <1>5, <2>1, <2>2
<1>9. pack_cnt' = 0
  <2>1. c + 1 \notin 1 .. N(w)  BY <1>1, <1>2
  <2> QED  BY <1>4, <2>1 DEF PackSched
<1>10. pack_pipe' = [i \in 1 .. L(w) |-> None]
  <2>1. ASSUME NEW i \in 1 .. L(w)
        PROVE  Made(w, b, (c + 1) - i) = None
    <3>1. (c + 1) - i \in Int /\ (c + 1) - i > N(w)  BY <1>1, <1>2
    <3>2. ~Completes(w, (c + 1) - i)  BY <3>1, FirstAndLastWords
    <3> QED  BY <3>2 DEF Made
  <2>2. pack_pipe' = [i \in 1 .. L(w) |-> Made(w, b, (c + 1) - i)]  BY <1>4 DEF PackSched
  <2> QED  BY <2>1, <2>2, Zenon
<1>11. \A i \in 1 .. DelayStages : i < DelayStages => delay_chain'[i] = smpl_cnt'
  <2> SUFFICES ASSUME NEW i \in 1 .. DelayStages, i < DelayStages
               PROVE  delay_chain'[i] = smpl_cnt'
    OBVIOUS
  <2>1. delay_chain'[i] = b + Read(w, (c + 1) - i) /\ smpl_cnt' = b + Read(w, c + 1)
    BY <1>4 DEF PackSched
  <2>2. Read(w, (c + 1) - i) = N(w) /\ Read(w, c + 1) = N(w)
    <3>1. i \in Nat /\ i <= 6  BY DEF DelayStages
    <3>2. (c + 1) - i >= N(w) /\ c + 1 >= N(w)  BY <1>1, <1>2, <3>1
    <3> QED  BY <1>1, <1>2, <3>1, <3>2 DEF Read
  <2> QED  BY <2>1, <2>2
<1>12. d2p_state' = "idle" /\ pct_data_wr_cnt' = 0
  BY <1>1, <1>2, <1>4 DEF D2pSched
<1>13. ~pct_wrreq_int' /\ ~pct_buff_wrreq_reg'
  <2>1. (c + 1) - 1 = N(w) + L(w) + 4 /\ (c + 1) - 2 = N(w) + L(w) + 3  BY <1>1, <1>2
  <2>2. \A m \in Int : m > N(w) => ~Completes(w, m)  BY FirstAndLastWords
  <2>3. ~Shifting(w, N(w) + L(w) + 4) /\ ~Shifting(w, N(w) + L(w) + 3)
    BY <1>1, <2>2 DEF Shifting
  <2> QED  BY <1>4, <2>1, <2>3 DEF WriteSched
<1>14. Whole(w)'
  <2>1. Shifts(w, (c + 1) - 2) = PctSize[w]
    BY <1>1, <1>2 DEF Shifts
  <2>2. \/ pkt' = Part(w, b, PctSize[w])
        \/ Whole(w)'
    BY <1>1, <1>4, <2>1 DEF WriteSched
  <2> QED  BY <2>2 DEF Whole
<1>15. LevelInv' /\ (smpl_buff_rdy' => Rdusedw' > N(w))
  BY <1>1, <1>2, <1>4 DEF WaitingInv
<1>16. ~smpl_buff_rdy' => Waiting(0)' <= 2 * N(w) + Lag + 2 + Half'
  <2>1. LevelInv  BY <1>1, <1>2, <1>3 DEF WaitingInv
  <2> QED  BY <1>7, <2>1, LevelStep
<1>17. Waiting(0)' <= MostWaiting(w) - 2 + Half'
  <2>1. Waiting(0)' <= MostWaiting(w) + (c + 1) - 2 * Read(w, c + 1) + Half'
    BY <1>4 DEF WaitingInv
  <2>2. Read(w, c + 1) = N(w)  BY <1>1, <1>2 DEF Read
  <2>3. Waiting(0)' \in Int /\ Half' \in Int
    <3>1. Waiting(0)' \in Int /\ Half' \in {0, 1}  BY <1>7, WaitingStep, Zenon
    <3> QED  BY <3>1
  <2> QED  BY <1>1, <1>2, <2>1, <2>2, <2>3
<1>18. pct_used' <= pct_wusedw' + 1
  <2>1. PICK take \in BOOLEAN : PctBuffer(take)  BY DEF Clock, ClockWith
  <2>2. pct_used \in Nat  BY DEF TypeInv
  <2> QED  BY <2>1, <2>2 DEF PctBuffer
<1>19. Resting' /\ fsm_state' # "check_pct_buff"  BY <1>6 DEF Resting
<1>20. RestInv(w)'
  BY <1>6, <1>8, <1>9, <1>10, <1>11, <1>12, <1>13, <1>14, <1>15, <1>16, <1>17, <1>18, <1>19,
     Zenon DEF RestInv
<1> QED  BY <1>19, <1>20


-----------------------------------------------------------------------------
(***************************************************************************)
(* The invariant.                                                          *)
(***************************************************************************)

\* It holds at first: everything is empty and at rest.
LEMMA InitInv == Init => IInv
<1> SUFFICES ASSUME Init
             PROVE  IInv
  OBVIOUS
<1>1. PICK w \in Widths : width = w  BY DEF Init
<1>2. /\ N(w) \in Nat /\ L(w) \in Nat /\ N(w) >= L(w) + 7 /\ L(w) >= 1 /\ MaxSmpl \in Nat
      /\ MostWaiting(w) = 2 * N(w) + Lag + 5 /\ Lag \in Nat /\ PctSize[w] \in Nat
      /\ PctBuffWords \in Nat /\ Group[w] \in {1, 4, 8}
  BY Width, Sides, ConstantsOK DEF MostWaiting, ConstantsOK
<1>3. Half = 0 /\ Rdusedw = 0 /\ Waiting(0) = 0 /\ \A i \in Side : Waiting(i) = 0
  BY Sides DEF Init, Half, Rdusedw, Waiting
<1>4. TypeInv
  <2>1. None \in WordSet  BY <1>2 DEF None, WordSet
  <2>2. pack_pipe \in [1 .. Latency[width] -> WordSet]  BY <2>1 DEF Init
  <2>3. TypeOK
    BY <1>1, <1>2, <2>1, <2>2 DEF Init, TypeOK, N, WordSet
  <2> QED  BY <1>2, <2>3 DEF Init, TypeInv
<1>5. OrderInv(w)
  <2>1. smplFifo = [j \in 1 .. smpl_nr - smpl_cnt |-> smpl_cnt + j - 1]
    BY DEF Init
  <2>2. \A i \in Side : sW[i] = 0 /\ sR[i] = 0  BY DEF Init
  <2>3. \A i \in Side : sW[i] <= sW[0] /\ 2 * (sW[0] - sW[i]) <= i + Half
    BY <1>3, <2>2, Sides
  <2>4. \A i \in Side : i > 0 => sW[i] <= sW[i - 1]
    BY <2>2, Sides
  <2>5. \A i \in Side : Waiting(i) <= MostWaiting(w) + i + Half
    BY <1>2, <1>3, Sides
  <2>6. sW[0] = smpl_nr /\ sR[0] = smpl_cnt /\ smpl_cnt <= smpl_nr
    BY Sides DEF Init
  <2> QED  BY <2>1, <2>3, <2>4, <2>5, <2>6 DEF OrderInv
<1>6. RestInv(w)
  <2>1. Whole(w)
    <3>1. pkt = Part(w, 0, 0)  BY PartGrows DEF Init
    <3> QED  BY <3>1 DEF Whole
  <2>2. LevelInv  BY <1>2, <1>3, Sides DEF LevelInv, Init
  <2>3. pack_pipe = [i \in 1 .. L(w) |-> None]  BY <1>1 DEF Init, L
  <2>4. \A i \in 1 .. DelayStages : delay_chain[i] = smpl_cnt  BY DEF Init
  <2> QED  BY <1>2, <1>3, <2>1, <2>2, <2>3, <2>4 DEF RestInv, Init
<1>7. Resting  BY DEF Init, Resting
<1> QED  BY <1>1, <1>4, <1>5, <1>6, <1>7 DEF IInv, PathInv

\* And every clock keeps it.
LEMMA StepInv == IInv /\ [Next]_vars => IInv'
<1> SUFFICES ASSUME IInv, [Next]_vars
             PROVE  IInv'
  OBVIOUS
<1>1. PICK w \in Widths : width = w /\ PathInv(w)  BY DEF IInv
<1>2. TypeInv /\ OrderInv(w)  BY <1>1 DEF IInv, PathInv
<1>3. CASE Clock
  <2>1. width' = w  BY <1>1, <1>3 DEF Clock, ClockWith
  <2>2. CASE Resting
    <3>1. RestInv(w)  BY <1>1, <2>2 DEF PathInv
    <3>2. OrderInv(w)' /\ TypeInv'  BY <1>1, <1>2, <1>3, <2>2, <3>1, RestClock, Zenon
    <3>3. CASE fsm_state = "idle"
      <4>1. Resting' /\ RestInv(w)'  BY <1>1, <1>2, <1>3, <3>1, <3>3, IdleStep
      <4> QED  BY <2>1, <3>2, <4>1 DEF IInv, PathInv
    <3>4. CASE fsm_state = "check_pct_buff"
      <4>1. ~Resting' /\ \E b \in Nat : Sched(w, b, 0)'
        BY <1>1, <1>2, <1>3, <3>1, <3>4, StartStep
      <4>2. 0 \in 0 .. End(w)  BY Width DEF End
      <4>3. PathInv(w)'  BY <3>2, <4>1, <4>2 DEF PathInv
      <4> QED  BY <2>1, <3>2, <4>3 DEF IInv
    <3> QED  BY <2>2, <3>3, <3>4 DEF Resting
  <2>3. CASE ~Resting
    <3>1. PICK b \in Nat, c \in 0 .. End(w) : Sched(w, b, c)
      BY <1>1, <2>3 DEF PathInv
    <3>2. /\ PackSched(w, b, c + 1)' /\ D2pSched(w, c + 1)' /\ RegSched(w, b, c + 1)'
          /\ WriteSched(w, b, c + 1)' /\ WaitingInv(w, c + 1)' /\ OrderInv(w)' /\ TypeInv'
      BY <1>1, <1>2, <1>3, <3>1, SchedClock, Zenon
    <3>3. CASE c = End(w)
      <4>1. Sched(w, b, End(w))  BY <3>1, <3>3
      <4>2. Resting' /\ RestInv(w)'  BY <1>1, <1>2, <1>3, <4>1, EndStep
      <4> QED  BY <2>1, <3>2, <4>2 DEF IInv, PathInv
    <3>4. CASE c # End(w)
      <4>1. c \in 0 .. End(w) - 1 /\ c + 1 \in 0 .. End(w)  BY <3>4, Width DEF End
      <4>2. FsmSched(w, c) /\ D2pSched(w, c)  BY <3>1 DEF Sched
      <4>3. FsmSched(w, c + 1)'  BY <1>1, <1>3, <4>1, <4>2, FsmStep
      <4>4. Sched(w, b, c + 1)'  BY <3>2, <4>3 DEF Sched
      <4>5. ~Resting'  BY <4>3 DEF FsmSched, Resting
      <4>6. PathInv(w)'  BY <3>2, <4>1, <4>4, <4>5 DEF PathInv
      <4> QED  BY <2>1, <3>2, <4>6 DEF IInv
    <3> QED  BY <3>3, <3>4
  <2> QED  BY <2>2, <2>3
<1>4. CASE UNCHANGED vars
  <2>1. TypeInv'
    BY <1>2, <1>4 DEF vars, smplVars, fsmVars, packVars, d2pVars, pctVars, TypeInv, TypeOK
  <2>2. width' = w /\ (Resting' <=> Resting)
    BY <1>1, <1>4 DEF vars, fsmVars, Resting
  <2>3. OrderInv(w)'
    BY <1>2, <1>4 DEF vars, smplVars, packVars, OrderInv, Waiting, Half
  <2>4. Resting => RestInv(w)'
    BY <1>1, <1>4 DEF PathInv, vars, smplVars, fsmVars, packVars, d2pVars, pctVars,
       RestInv, Whole, LevelInv, Waiting, Half, Rdusedw
  <2>5. ASSUME NEW b \in Nat, NEW c \in 0 .. End(w), Sched(w, b, c)
        PROVE  Sched(w, b, c)'
    BY <1>4, <2>5 DEF vars, smplVars, fsmVars, packVars, d2pVars, pctVars, Sched, FsmSched,
       PackSched, D2pSched, RegSched, WriteSched, WaitingInv, Whole, LevelInv, Waiting,
       Half, Rdusedw
  <2>6. ~Resting => \E b \in Nat, c \in 0 .. End(w) : Sched(w, b, c)'
    BY <1>1, <2>5 DEF PathInv
  <2>7. PathInv(w)'  BY <2>2, <2>3, <2>4, <2>6 DEF PathInv
  <2> QED  BY <2>1, <2>2, <2>7 DEF IInv
<1> QED  BY <1>3, <1>4 DEF Next

\* The schedule is kept, and nothing moves between packets.
THEOREM Invariant == Spec => []IInv
BY InitInv, StepInv, PTL DEF Spec

\* The type invariant.
THEOREM TypeCorrect == Spec => []TypeOK
<1>1. IInv => TypeOK  BY DEF IInv, TypeInv
<1> QED  BY <1>1, Invariant, PTL


-----------------------------------------------------------------------------
(***************************************************************************)
(* What follows.                                                           *)
(***************************************************************************)

\* No sample is lost, none is read that is not there, and what is written fits.
THEOREM NothingIsLost == Spec => []NothingOverflows
<1>1. IInv => NothingOverflows
  <2> SUFFICES ASSUME IInv
               PROVE  NothingOverflows
    OBVIOUS
  <2>1. PICK w \in Widths : width = w /\ PathInv(w)  BY DEF IInv
  <2>2. TypeInv /\ OrderInv(w)  BY <2>1 DEF IInv, PathInv
  <2>3. pct_used <= PctBuffWords  BY <2>2 DEF TypeInv
  <2>4. RdReq => Rdusedw > 0
    <3> SUFFICES ASSUME RdReq
                 PROVE  Rdusedw > 0
      OBVIOUS
    <3>1. ~Resting  BY DEF RdReq, Resting
    <3>2. PICK b \in Nat, c \in 0 .. End(w) : Sched(w, b, c)
      BY <2>1, <3>1 DEF PathInv
    <3>3. N(w) \in Nat /\ c \in Nat  BY Width DEF End
    <3>4. c < N(w) /\ Rdusedw + c > N(w)
      BY <3>2, <3>3 DEF Sched, FsmSched, WaitingInv, RdReq
    <3>5. Rdusedw \in Int  BY <2>2, Sides DEF Rdusedw, TypeInv
    <3> QED  BY <3>3, <3>4, <3>5
  <2>5. ~Wrfull  BY <2>2, NeverFull
  <2>6. smplFifo # <<>> => smplFifo[1] = smpl_cnt
    <3> SUFFICES ASSUME smplFifo # <<>>
                 PROVE  smplFifo[1] = smpl_cnt
      OBVIOUS
    <3>1. smplFifo = [j \in 1 .. smpl_nr - smpl_cnt |-> smpl_cnt + j - 1]
      BY <2>2 DEF OrderInv
    <3>2. smpl_nr \in Nat /\ smpl_cnt \in Nat /\ MaxSmpl \in Nat
      BY <2>2, ConstantsOK DEF TypeInv, TypeOK, ConstantsOK
    <3>3. smpl_nr - smpl_cnt >= 1
      <4>1. CASE smpl_nr - smpl_cnt < 1
        <5>1. smplFifo = <<>>  BY <3>1, <3>2, <4>1
        <5> QED  BY <5>1
      <4> QED  BY <3>2, <4>1
    <3> QED  BY <3>1, <3>2, <3>3
  <2> QED  BY <2>3, <2>4, <2>5, <2>6 DEF NothingOverflows
<1> QED  BY <1>1, Invariant, PTL

\* What the USB FIFO was given last is a packet or the beginning of one.
LEMMA BeginningOfPacket ==
  ASSUME NEW w \in Widths, PathInv(w), TypeInv
  PROVE  \E b \in Nat, n \in 0 .. PctSize[w] : pkt = Part(w, b, n)
<1>1. PctSize[w] \in Nat /\ 0 \in 0 .. PctSize[w] /\ PctSize[w] \in 0 .. PctSize[w]
  BY Width
<1>2. CASE Whole(w)
  BY <1>1, <1>2 DEF Whole
<1>3. CASE ~Whole(w)
  <2>1. ~Resting  BY <1>3 DEF PathInv, RestInv
  <2>2. PICK b \in Nat, c \in 0 .. End(w) : Sched(w, b, c)  BY <2>1 DEF PathInv
  <2>3. pkt = Part(w, b, Shifts(w, c - 2))  BY <1>3, <2>2 DEF Sched, WriteSched
  <2>4. c - 2 \in Int  BY Width DEF End
  <2>5. Shifts(w, c - 2) \in 0 .. PctSize[w]  BY <2>4, OneMoreShift
  <2> QED  BY <2>3, <2>5
<1> QED  BY <1>2, <1>3

\* The words in a packet: headers, then the samples from b on, in order.
LEMMA WordsOfPacket ==
  ASSUME NEW w \in Widths, NEW b \in Nat, NEW n \in Nat, pkt = Part(w, b, n)
  PROVE  /\ Len(pkt) = n
         /\ n >= 1 => pkt[1].kind = "h0"
         /\ n >= 2 => pkt[2].kind = "h1" /\ pkt[2].a = IF w = "14" THEN b + 1 ELSE b
         /\ n >= 3 => pkt[3].a = b
         /\ \A k \in 3 .. n : /\ pkt[k].kind = "data"
                              /\ pkt[k].b = pkt[k].a + (IF w = "16" THEN 0 ELSE 1)
         /\ \A k \in 4 .. n :
              pkt[k].a = pkt[k - 1].b
                + (IF w = "16" \/ (k - 3) % (Group[w] - 1) = 0 THEN 1 ELSE 0)
<1>1. \A k \in 1 .. n : pkt[k] = PctWord(w, b, k)  BY DEF Part
<1>2. Len(pkt) = n  BY PartGrows
<1>3. n >= 1 => pkt[1].kind = "h0"
  BY <1>1 DEF PctWord, Hdr
<1>4. n >= 2 => pkt[2].kind = "h1" /\ pkt[2].a = IF w = "14" THEN b + 1 ELSE b
  <2> SUFFICES ASSUME n >= 2
               PROVE  pkt[2].kind = "h1" /\ pkt[2].a = IF w = "14" THEN b + 1 ELSE b
    OBVIOUS
  <2>1. pkt[2] = [Hdr(1) EXCEPT !.a = IF w = "14" THEN b + 1 ELSE b]
    BY <1>1 DEF PctWord
  <2> QED  BY <2>1 DEF Hdr
<1>5. \A k \in 3 .. n : pkt[k] = Data(b + FirstOf(w, k - 3),
                                    b + FirstOf(w, k - 3) + IF w = "16" THEN 0 ELSE 1)
  BY <1>1 DEF PctWord
<1>6. \A k \in 3 .. n : /\ pkt[k].kind = "data" /\ pkt[k].a = b + FirstOf(w, k - 3)
                       /\ pkt[k].b = b + FirstOf(w, k - 3) + IF w = "16" THEN 0 ELSE 1
  <2>1. \A x, y : Data(x, y).kind = "data" /\ Data(x, y).a = x /\ Data(x, y).b = y
    BY DEF Data
  <2>2. ASSUME NEW k \in 3 .. n
        PROVE  /\ pkt[k].kind = "data" /\ pkt[k].a = b + FirstOf(w, k - 3)
               /\ pkt[k].b = b + FirstOf(w, k - 3) + IF w = "16" THEN 0 ELSE 1
    <3> DEFINE x == b + FirstOf(w, k - 3)
               y == b + FirstOf(w, k - 3) + IF w = "16" THEN 0 ELSE 1
    <3>1. pkt[k] = Data(x, y)  BY <1>5
    <3> HIDE DEF x, y
    <3>2. pkt[k].kind = "data" /\ pkt[k].a = x /\ pkt[k].b = y  BY <2>1, <3>1
    <3> QED  BY <3>2 DEF x, y
  <2> QED  BY <2>2
<1>7. ASSUME NEW i \in Nat
      PROVE  FirstOf(w, i) \in Nat /\ (i = 0 => FirstOf(w, i) = 0)
  <2>1. CASE w = "16"
    BY <2>1 DEF FirstOf
  <2>2. CASE w = "14"
    <3>1. Group[w] - 1 = 7  BY <2>2, Width
    <3>2. FirstOf(w, i) = i + i \div 7  BY <2>2, <3>1 DEF FirstOf
    <3> QED  BY <3>2
  <2>3. CASE w = "12"
    <3>1. Group[w] - 1 = 3  BY <2>3, Width
    <3>2. FirstOf(w, i) = i + i \div 3  BY <2>3, <3>1 DEF FirstOf
    <3> QED  BY <3>2
  <2> QED  BY <2>1, <2>2, <2>3, Width
<1>8. FirstOf(w, 0) = 0  BY <1>7
<1>9. ASSUME NEW i \in Nat, i >= 1
      PROVE  FirstOf(w, i) = FirstOf(w, i - 1) + (IF w = "16" THEN 0 ELSE 1)
               + (IF w = "16" \/ i % (Group[w] - 1) = 0 THEN 1 ELSE 0)
  <2>1. CASE w = "16"
    BY <1>9, <2>1 DEF FirstOf
  <2>2. CASE w = "14"
    <3>1. Group[w] - 1 = 7  BY <2>2, Width
    <3>2. /\ FirstOf(w, i) = i + i \div 7
          /\ FirstOf(w, i - 1) = (i - 1) + (i - 1) \div 7
      BY <2>2, <3>1 DEF FirstOf
    <3>3. i + i \div 7 = (i - 1) + (i - 1) \div 7 + 1 + (IF i % 7 = 0 THEN 1 ELSE 0)
      BY <1>9
    <3> QED  BY <2>2, <3>1, <3>2, <3>3
  <2>3. CASE w = "12"
    <3>1. Group[w] - 1 = 3  BY <2>3, Width
    <3>2. /\ FirstOf(w, i) = i + i \div 3
          /\ FirstOf(w, i - 1) = (i - 1) + (i - 1) \div 3
      BY <2>3, <3>1 DEF FirstOf
    <3>3. i + i \div 3 = (i - 1) + (i - 1) \div 3 + 1 + (IF i % 3 = 0 THEN 1 ELSE 0)
      BY <1>9
    <3> QED  BY <2>3, <3>1, <3>2, <3>3
  <2> QED  BY <2>1, <2>2, <2>3, Width
<1>10. \A k \in 3 .. n : /\ pkt[k].kind = "data"
                        /\ pkt[k].b = pkt[k].a + (IF w = "16" THEN 0 ELSE 1)
  BY <1>6
<1>11. ASSUME NEW k \in 4 .. n
       PROVE  pkt[k].a = pkt[k - 1].b
                + (IF w = "16" \/ (k - 3) % (Group[w] - 1) = 0 THEN 1 ELSE 0)
  <2> DEFINE i == k - 3
  <2>1. /\ k \in 3 .. n /\ k - 1 \in 3 .. n /\ i \in Nat /\ i >= 1 /\ i - 1 \in Nat
        /\ (k - 1) - 3 = i - 1
    OBVIOUS
  <2>2. /\ pkt[k].a = b + FirstOf(w, i)
        /\ pkt[k - 1].b = b + FirstOf(w, i - 1) + IF w = "16" THEN 0 ELSE 1
    BY <1>6, <2>1
  <2>3. FirstOf(w, i) = FirstOf(w, i - 1) + (IF w = "16" THEN 0 ELSE 1)
          + (IF w = "16" \/ i % (Group[w] - 1) = 0 THEN 1 ELSE 0)
    BY <1>9, <2>1
  <2>4. FirstOf(w, i) \in Nat /\ FirstOf(w, i - 1) \in Nat  BY <1>7, <2>1
  <2> QED  BY <2>2, <2>3, <2>4
<1>12. n >= 3 => pkt[3].a = b
  BY <1>6, <1>8
<1> QED  BY <1>2, <1>3, <1>4, <1>10, <1>11, <1>12

\* The USB FIFO gets whole packets, their samples in order and without a gap; and no
\* word comes while the packet before it is shifted out.
THEOREM PacketsAreWhole == Spec => []WholePackets
<1>1. IInv => WholePackets
  <2> SUFFICES ASSUME IInv
               PROVE  WholePackets
    OBVIOUS
  <2>1. PICK w \in Widths : width = w /\ PathInv(w)  BY DEF IInv
  <2>2. TypeInv  BY DEF IInv
  <2>3. PctDataWrreq => PctState # "11"
    <3>1. CASE Resting
      BY <2>1, <3>1 DEF PathInv, RestInv, PctState
    <3>2. CASE ~Resting
      <4>1. PICK b \in Nat, c \in 0 .. End(w) : Sched(w, b, c)
        BY <2>1, <3>2 DEF PathInv
      <4>2. N(w) \in Nat /\ L(w) \in Nat /\ c \in Nat  BY Width DEF End
      <4>3. PctDataWrreq <=> Completes(w, c - L(w))
        BY <2>1, <4>1, <4>2, WhatArrives DEF Sched
      <4>4. PctDataWrreq => c <= L(w) + N(w)  BY <4>2, <4>3 DEF Completes
      <4>5. c <= L(w) + N(w) => d2p_state # "s2"
        BY <4>1, <4>2 DEF Sched, D2pSched
      <4> QED  BY <4>4, <4>5 DEF PctState
    <3> QED  BY <3>1, <3>2
  <2>4. PICK b \in Nat, n \in 0 .. PctSize[w] : pkt = Part(w, b, n)
    BY <2>1, <2>2, BeginningOfPacket
  <2>5. n \in Nat  BY Width
  <2>6. /\ Len(pkt) = n
        /\ n >= 1 => pkt[1].kind = "h0"
        /\ n >= 2 => pkt[2].kind = "h1"
        /\ \A k \in 3 .. n : /\ pkt[k].kind = "data"
                             /\ pkt[k].b = pkt[k].a + (IF w = "16" THEN 0 ELSE 1)
        /\ \A k \in 4 .. n :
             pkt[k].a = pkt[k - 1].b
               + (IF w = "16" \/ (k - 3) % (Group[w] - 1) = 0 THEN 1 ELSE 0)
    BY <2>4, <2>5, WordsOfPacket
  <2> QED  BY <2>1, <2>3, <2>6, Zenon DEF WholePackets
<1> QED  BY <1>1, Invariant, PTL

\* With 16 and 12 bits a sample, the header has the number of the packet's first sample.
THEOREM HeadersTellTheSample == Spec => []HeaderNumbersFirstSample
<1>1. IInv => HeaderNumbersFirstSample
  <2> SUFFICES ASSUME IInv, width # "14", Len(pkt) >= 3
               PROVE  pkt[2].a = pkt[3].a
    BY DEF HeaderNumbersFirstSample, HeaderIsFirstSample
  <2>1. PICK w \in Widths : width = w /\ PathInv(w)  BY DEF IInv
  <2>2. PICK b \in Nat, n \in 0 .. PctSize[w] : pkt = Part(w, b, n)
    BY <2>1, BeginningOfPacket DEF IInv
  <2>3. n \in Nat  BY Width
  <2>4. Len(pkt) = n  BY <2>2, <2>3, PartGrows
  <2>5. n >= 3 /\ n >= 2 /\ w # "14"  BY <2>1, <2>3, <2>4
  <2>6. /\ n >= 2 => pkt[2].a = IF w = "14" THEN b + 1 ELSE b
        /\ n >= 3 => pkt[3].a = b
    BY <2>2, <2>3, WordsOfPacket
  <2> QED  BY <2>5, <2>6
<1> QED  BY <1>1, Invariant, PTL

\* With 14 bits it has the number of the second sample, in every packet: the delay of
\* the number is made for the other two packers.
THEOREM HeadersOf14BitsAreLate ==
  Spec => [](width = "14" /\ Len(pkt) >= 3 => pkt[2].a = pkt[3].a + 1)
<1>1. IInv => (width = "14" /\ Len(pkt) >= 3 => pkt[2].a = pkt[3].a + 1)
  <2> SUFFICES ASSUME IInv, width = "14", Len(pkt) >= 3
               PROVE  pkt[2].a = pkt[3].a + 1
    OBVIOUS
  <2>1. PICK w \in Widths : width = w /\ PathInv(w)  BY DEF IInv
  <2>2. PICK b \in Nat, n \in 0 .. PctSize[w] : pkt = Part(w, b, n)
    BY <2>1, BeginningOfPacket DEF IInv
  <2>3. n \in Nat  BY Width
  <2>4. Len(pkt) = n  BY <2>2, <2>3, PartGrows
  <2>5. n >= 3 /\ n >= 2 /\ w = "14"  BY <2>1, <2>3, <2>4
  <2>6. /\ n >= 2 => pkt[2].a = IF w = "14" THEN b + 1 ELSE b
        /\ n >= 3 => pkt[3].a = b
    BY <2>2, <2>3, WordsOfPacket
  <2> QED  BY <2>5, <2>6
<1> QED  BY <1>1, Invariant, PTL

=============================================================================
