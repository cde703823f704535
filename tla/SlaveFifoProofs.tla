--------------------------- MODULE SlaveFifoProofs ---------------------------
(***************************************************************************)
(* Proofs about SlaveFifo, for all sizes of packets, of the host's         *)
(* transfers and of the FIFOs: what the host sends arrives in order, and a *)
(* transfer that was begun fits.                                           *)
(*                                                                         *)
(* slaveFIFO5b counts no words, so the invariant does: in a transfer from  *)
(* the host it follows the words through the bus, stage by stage, against  *)
(* the strobes that follow them through the registers (TakeInv); in one to *)
(* the host it relates the words read from the FIFO to the room left in    *)
(* the buffer and to slwr_cnt (GiveInv).  Between transfers every socket   *)
(* is back where it was (RestInv), and the flags a transfer starts on are  *)
(* those of the socket addressed (FlagInv).                                *)
(***************************************************************************)
EXTENDS SlaveFifo, TLAPS

-----------------------------------------------------------------------------
(***************************************************************************)
(* The inductive invariant.                                                *)
(***************************************************************************)
States == {"idle", "prep_thread_addr", "wait_flg_latency", "wait_flagA", "wait_flagB",
           "stream_in_write", "stream_in_pktend", "stream_out_read",
           "stream_out_read_oe_delay"}

At(s) == current_state = s

\* The functions have their domains, the records their fields.
ShapeInv ==
  /\ left = [s \in FromHost |-> left[s]]
  /\ \A s \in FromHost : left[s] = [n |-> left[s].n, size |-> left[s].size]
  /\ room = [s \in ToHost |-> room[s]]
  /\ used \in [Sockets -> Nat]

\* The address is as old as the wait for the flags, so that the flags a transfer
\* starts on are those of the socket addressed, and stay true until it starts.
FlagInv ==
  /\ At("wait_flg_latency") =>
       /\ flg_latency_cnt <= FlgLatencyWait
       /\ addr_age = IF flg_latency_cnt < FlagLatency THEN flg_latency_cnt ELSE FlagLatency
  /\ current_state \in States \ {"idle", "prep_thread_addr", "wait_flg_latency"} =>
       addr_age = FlagLatency
  /\ At("wait_flagA") \/ At("wait_flagB") =>
       (flagb_d => IF faddr_reg \in FromHost THEN left[faddr_reg].n > ReadMark
                                             ELSE room[faddr_reg] > WriteMark)

Taking == At("stream_out_read") \/ At("stream_out_read_oe_delay")
Giving == At("stream_in_write") \/ slwr

\* A socket that is not being served has nothing begun, and nothing is under way
\* when none is.
RestInv ==
  /\ \A s \in FromHost : ~(Taking /\ faddr_reg = s) =>
       left[s].n = left[s].size /\ last[s] = Junk
  /\ \A s \in ToHost : ~(Giving /\ faddr_reg = s) =>
       room[s] \in {0, DataWords} /\ last[s] = Junk
  /\ ~Taking => ~slrd[1] /\ ~slrd[2] /\ ~slrd[3] /\ fifo_wr = 4
  /\ slwr => current_state \in {"stream_in_write", "stream_in_pktend", "idle"}
  /\ current_state \in {"wait_flg_latency", "wait_flagA", "wait_flagB"} => slwr_cnt = 0
  /\ ~At("idle") /\ ~At("stream_out_read_oe_delay") => oe_delay_cnt = OeDelay

\* k words of z were read from the FX3: the last three are on their way, the one
\* before them is in the FIFO.
InFlight(s, k, z) ==
  /\ k >= 1 => bus[1] = Word(s, k, z)
  /\ k >= 2 => bus[2] = Word(s, k - 1, z)
  /\ k >= 3 => bus[3] = Word(s, k - 2, z)
  /\ last[s] = IF k >= 4 THEN Word(s, k - 3, z) ELSE Junk

\* The read of a transfer: its last four words are read after flagb fell.
ReadInv(s, n, z) ==
  /\ InFlight(s, z - n, z)
  /\ n >= 1 /\ z \in HostSizes[s]
  /\ slrd[1] \/ n = z
  /\ slrd[2] <=> z - n >= 1
  /\ slrd[3] <=> z - n >= 2
  /\ fifo_wr = IF z - n >= 3 THEN s ELSE 4
  /\ used[s] + z - (IF z - n >= 3 THEN z - n - 3 ELSE 0) <= Capacity[s]
  /\ IF At("stream_out_read")
     THEN IF flagb_d THEN n >= 3 /\ (n = 3 => slrd[2]) ELSE n = 2 /\ slrd[2]
     ELSE n = 1 /\ slrd[1]

\* The end of one: left words of z are still to be stored.
TailInv(s, l, z) ==
  /\ z >= 4 /\ ~slrd[1] /\ (slrd[2] <=> l = 3) /\ (slrd[3] <=> l >= 2)
  /\ fifo_wr = s /\ left[s].n = left[s].size
  /\ l = 3 => bus[1] = Word(s, z, z)
  /\ l >= 2 => bus[2] = Word(s, z + 2 - l, z)
  /\ bus[3] = Word(s, z + 1 - l, z) /\ last[s] = Word(s, z - l, z)
  /\ used[s] + l <= Capacity[s]

TakeInv ==
  Taking =>
    /\ faddr_reg \in FromHost
    /\ IF At("stream_out_read") \/ oe_delay_cnt = OeDelay
       THEN ReadInv(faddr_reg, left[faddr_reg].n, left[faddr_reg].size)
       ELSE TailInv(faddr_reg, oe_delay_cnt + 1, bus[3].size)

\* j words of the packet were read from the FIFO of socket s.
WriteInv(s, j) ==
  /\ j \in 0 .. PctWords[s] - 1 /\ used[s] + j >= PctWords[s]
  /\ slwr <=> j >= 1
  /\ room[s] = IF j = 0 THEN DataWords ELSE DataWords - j + 1
  /\ last[s] = IF j = 0 THEN Junk ELSE Word(s, j, PctWords[s])
  /\ j >= 1 => socket_fifo_q = Word(s, j, PctWords[s])
  /\ slwr_cnt = IF j = 0 THEN 0 ELSE j - 1

GiveInv ==
  /\ Giving => faddr_reg \in ToHost
  /\ At("stream_in_write") => WriteInv(faddr_reg, last[faddr_reg].idx)
  /\ At("stream_in_pktend") =>
       /\ slwr /\ faddr_reg \in Control
       /\ socket_fifo_q = Word(faddr_reg, ControlWords, ControlWords)
       /\ room[faddr_reg] = DataWords - ControlWords + 1 /\ last[faddr_reg] = Junk
       /\ slwr_cnt = ControlWords - 1
  /\ At("idle") /\ slwr =>
       /\ faddr_reg \notin Control
       /\ socket_fifo_q = Word(faddr_reg, DataWords, DataWords)
       /\ room[faddr_reg] = 1 /\ last[faddr_reg] = Junk
       /\ slwr_cnt = DataWords - 1

IInv == TypeOK /\ ShapeInv /\ FlagInv /\ RestInv /\ TakeInv /\ GiveInv

\* What is stored stays within the FIFOs: kept by every step from a state in which
\* IInv holds as well.
RoomInv == \A s \in FromHost : used[s] <= Capacity[s]

-----------------------------------------------------------------------------
(***************************************************************************)
(* The constants.                                                          *)
(***************************************************************************)

\* What the sizes are to each other.
LEMMA Sizes ==
  /\ DataWords \in Nat /\ ControlWords \in Nat
  /\ ControlWords >= 3 /\ DataWords >= ControlWords + 3
BY ConstantsOK DEF ConstantsOK, WriteMark

\* The length of a packet and the size of the FIFO of a socket.
LEMMA SocketSizes ==
  ASSUME NEW s \in Sockets
  PROVE  /\ PctWords[s] = IF s \in Control THEN ControlWords ELSE DataWords
         /\ PctWords[s] \in Nat /\ PctWords[s] >= 3 /\ PctWords[s] <= DataWords
         /\ Capacity[s] \in Nat /\ Capacity[s] >= PctWords[s]
<1>1. PctWords[s] = IF s \in Control THEN ControlWords ELSE DataWords  BY DEF PctWords
<1>2. Capacity[s] \in Nat /\ Capacity[s] >= PctWords[s]
  BY ConstantsOK DEF ConstantsOK
<1> QED  BY <1>1, <1>2, Sizes

\* The lengths of what the host sends: longer than the read watermark.
LEMMA TransferSizes ==
  ASSUME NEW s \in FromHost, NEW z \in HostSizes[s]
  PROVE  z \in Nat /\ z >= 4 /\ z <= PctWords[s] /\ z <= DataWords
<1>1. s \in Sockets  BY DEF FromHost, Sockets
<1>2. z \in ReadMark + 1 .. PctWords[s]  BY ConstantsOK DEF ConstantsOK
<1>3. PctWords[s] \in Nat /\ PctWords[s] <= DataWords /\ DataWords \in Nat
  BY <1>1, SocketSizes, Sizes
<1> QED  BY <1>2, <1>3 DEF ReadMark

\* A socket is one to or from the host.
LEMMA TwoWays == Sockets = FromHost \cup ToHost /\ FromHost \cap ToHost = {} /\ 4 \notin Sockets
BY DEF Sockets, FromHost, ToHost

-----------------------------------------------------------------------------
(***************************************************************************)
(* The other sides.                                                        *)
(***************************************************************************)

\* The host fills a buffer that is empty.
LEMMA HostSendsKeepsInv ==
  ASSUME IInv, NEW s \in FromHost, HostSends(s)
  PROVE  IInv'
<1> USE DEF IInv
<1>1. PICK z \in HostSizes[s] : left' = [left EXCEPT ![s] = [n |-> z, size |-> z]]
  BY DEF HostSends
<1>2. z \in Nat /\ z >= 4  BY TransferSizes
<1>3. UNCHANGED <<room, addr_age, bus, gpifVars, used, last>> /\ left[s].n = 0
  BY DEF HostSends
<1>4. /\ left'[s] = [n |-> z, size |-> z]
      /\ \A t \in FromHost : t # s => left'[t] = left[t]
      /\ left' = [t \in FromHost |-> left'[t]]
  BY <1>1 DEF ShapeInv
<1>5. left'[s].n = z /\ left'[s].size = z  BY <1>4
<1>6. TypeOK'
  BY <1>2, <1>3, <1>4, <1>5 DEF TypeOK, gpifVars
<1>7. ShapeInv'
  BY <1>3, <1>4, <1>5 DEF ShapeInv
<1>8. FlagInv'
  BY <1>2, <1>3, <1>4, <1>5 DEF FlagInv, At, gpifVars, ReadMark, States
<1>9. RestInv'
  BY <1>3, <1>4, <1>5 DEF RestInv, At, gpifVars, Taking, Giving
<1>10. TakeInv'
  BY <1>3, <1>4, <1>5 DEF TakeInv, ReadInv, TailInv, InFlight, At, gpifVars, Taking
<1>11. GiveInv'
  BY <1>3 DEF GiveInv, WriteInv, At, gpifVars, Giving
<1> QED  BY <1>6, <1>7, <1>8, <1>9, <1>10, <1>11

\* The host takes a buffer that is full.
LEMMA HostTakesKeepsInv ==
  ASSUME IInv, NEW s \in ToHost, HostTakes(s)
  PROVE  IInv'
<1> USE DEF IInv
<1>1. /\ UNCHANGED <<left, addr_age, bus, gpifVars, used, last>>
      /\ room[s] = 0 /\ room' = [room EXCEPT ![s] = DataWords]
  BY DEF HostTakes
<1>2. /\ room'[s] = DataWords
      /\ \A t \in ToHost : t # s => room'[t] = room[t]
      /\ room' = [t \in ToHost |-> room'[t]]
  BY <1>1 DEF ShapeInv
<1>3. DataWords \in Nat /\ DataWords >= 3  BY Sizes
<1>4. TypeOK'
  BY <1>1, <1>2, <1>3 DEF TypeOK, gpifVars
<1>5. ShapeInv'  BY <1>1, <1>2 DEF ShapeInv
<1>6. FlagInv'
  BY <1>1, <1>2, <1>3, TwoWays DEF FlagInv, At, gpifVars, WriteMark, States, TypeOK
<1>7. RestInv'  BY <1>1, <1>2 DEF RestInv, At, gpifVars, Taking, Giving
<1>8. TakeInv'
  BY <1>1 DEF TakeInv, ReadInv, TailInv, InFlight, At, gpifVars, Taking
<1>9. GiveInv'
  <2>1. Giving \/ At("stream_in_pktend") => faddr_reg # s
    <3>1. ControlWords \in Nat /\ DataWords - ControlWords + 1 > 0  BY Sizes
    <3>2. At("stream_in_write") => room[faddr_reg] # 0
      <4> SUFFICES ASSUME At("stream_in_write")
                   PROVE  room[faddr_reg] # 0
        OBVIOUS
      <4>1. faddr_reg \in Sockets  BY DEF TypeOK
      <4>2. WriteInv(faddr_reg, last[faddr_reg].idx)  BY DEF GiveInv
      <4> QED  BY <1>3, <4>1, <4>2, SocketSizes DEF WriteInv
    <3> QED  BY <1>1, <3>1, <3>2 DEF GiveInv, RestInv, Giving, At
  <2> QED
    BY <1>1, <1>2, <2>1 DEF GiveInv, WriteInv, At, gpifVars, Giving
<1> QED  BY <1>4, <1>5, <1>6, <1>7, <1>8, <1>9

\* The FIFOs from the host are emptied, which only makes room.
LEMMA DrainKeepsInv ==
  ASSUME IInv, NEW s \in FromHost, Drain(s)
  PROVE  IInv'
<1> USE DEF IInv
<1>1. /\ UNCHANGED <<left, room, addr_age, bus, gpifVars, last>>
      /\ used' = [used EXCEPT ![s] = 0]
  BY DEF Drain, fx3Vars
<1>2. /\ used'[s] = 0 /\ s \in Sockets /\ used[s] \in Nat
      /\ \A t \in Sockets : t # s => used'[t] = used[t]
      /\ used' \in [Sockets -> Nat]
  BY <1>1, TwoWays DEF ShapeInv
<1>3. TypeOK'  BY <1>1 DEF TypeOK, gpifVars
<1>4. ShapeInv'  BY <1>1, <1>2 DEF ShapeInv
<1>5. FlagInv'  BY <1>1 DEF FlagInv, At, gpifVars, States
<1>6. RestInv'  BY <1>1 DEF RestInv, At, gpifVars, Taking, Giving
<1>7. TakeInv'
  <2> SUFFICES ASSUME Taking'
               PROVE  /\ faddr_reg' \in FromHost
                      /\ IF At("stream_out_read")' \/ oe_delay_cnt' = OeDelay
                         THEN ReadInv(faddr_reg, left[faddr_reg].n, left[faddr_reg].size)'
                         ELSE TailInv(faddr_reg, oe_delay_cnt + 1, bus[3].size)'
    BY DEF TakeInv
  <2>1. Taking /\ faddr_reg \in FromHost /\ faddr_reg \in Sockets
    BY <1>1, TwoWays DEF TakeInv, Taking, At, gpifVars
  <2>2. used'[faddr_reg] <= used[faddr_reg] /\ used[faddr_reg] \in Nat
        /\ used'[faddr_reg] \in Nat
    BY <1>2, <2>1 DEF ShapeInv
  <2>3. Capacity[faddr_reg] \in Nat  BY <2>1, SocketSizes
  <2>4. CASE At("stream_out_read") \/ oe_delay_cnt = OeDelay
    <3>1. ReadInv(faddr_reg, left[faddr_reg].n, left[faddr_reg].size)
      BY <2>1, <2>4 DEF TakeInv
    <3>2. left[faddr_reg].size \in Nat  BY <2>1, <3>1, TransferSizes DEF ReadInv
    <3>3. left[faddr_reg].n \in Nat  BY <2>1, <3>2 DEF TypeOK
    <3>4. used'[faddr_reg] + left[faddr_reg].size
            - (IF left[faddr_reg].size - left[faddr_reg].n >= 3
               THEN left[faddr_reg].size - left[faddr_reg].n - 3 ELSE 0) <= Capacity[faddr_reg]
      BY <2>2, <2>3, <3>1, <3>2, <3>3 DEF ReadInv
    <3> QED  BY <1>1, <2>1, <2>4, <3>1, <3>4 DEF ReadInv, InFlight, At, gpifVars
  <2>5. CASE ~(At("stream_out_read") \/ oe_delay_cnt = OeDelay)
    <3>1. TailInv(faddr_reg, oe_delay_cnt + 1, bus[3].size)
      BY <2>1, <2>5 DEF TakeInv
    <3>2. used'[faddr_reg] + (oe_delay_cnt + 1) <= Capacity[faddr_reg]
      BY <2>2, <2>3, <3>1 DEF TailInv, TypeOK
    <3> QED  BY <1>1, <2>1, <2>5, <3>1, <3>2 DEF TailInv, At, gpifVars
  <2> QED  BY <2>4, <2>5
<1>8. GiveInv'
  <2>1. Giving => faddr_reg # s  BY TwoWays DEF GiveInv
  <2> QED  BY <1>1, <1>2, <2>1 DEF GiveInv, WriteInv, At, gpifVars, Giving, TypeOK
<1> QED  BY <1>3, <1>4, <1>5, <1>6, <1>7, <1>8

\* And those to the host are filled, which only adds words.
LEMMA FillKeepsInv ==
  ASSUME IInv, NEW s \in ToHost, Fill(s)
  PROVE  IInv'
<1> USE DEF IInv
<1>1. /\ UNCHANGED <<left, room, addr_age, bus, gpifVars, last>>
      /\ used' = [used EXCEPT ![s] = used[s] + Portion[s]]
  BY DEF Fill, fx3Vars
<1>2. Portion[s] \in Nat
  BY ConstantsOK, TwoWays, SocketSizes DEF ConstantsOK
<1>3. /\ used'[s] = used[s] + Portion[s] /\ s \in Sockets /\ used[s] \in Nat
      /\ \A t \in Sockets : t # s => used'[t] = used[t]
      /\ used' \in [Sockets -> Nat]
  BY <1>1, <1>2, TwoWays DEF ShapeInv
<1>4. TypeOK'  BY <1>1 DEF TypeOK, gpifVars
<1>5. ShapeInv'  BY <1>1, <1>3 DEF ShapeInv
<1>6. FlagInv'  BY <1>1 DEF FlagInv, At, gpifVars, States
<1>7. RestInv'  BY <1>1 DEF RestInv, At, gpifVars, Taking, Giving
<1>8. TakeInv'
  <2>1. Taking => faddr_reg # s /\ faddr_reg \in Sockets  BY TwoWays DEF TakeInv
  <2> QED
    BY <1>1, <1>3, <2>1 DEF TakeInv, ReadInv, TailInv, InFlight, At, gpifVars, Taking
<1>9. GiveInv'
  <2>1. At("stream_in_write") =>
          used'[faddr_reg] + last[faddr_reg].idx >= PctWords[faddr_reg]
    <3> SUFFICES ASSUME At("stream_in_write")
                 PROVE  used'[faddr_reg] + last[faddr_reg].idx >= PctWords[faddr_reg]
      OBVIOUS
    <3>1. faddr_reg \in Sockets  BY DEF TypeOK
    <3>2. WriteInv(faddr_reg, last[faddr_reg].idx)  BY DEF GiveInv
    <3>3. used'[faddr_reg] >= used[faddr_reg] /\ used[faddr_reg] \in Nat
          /\ used'[faddr_reg] \in Nat
      BY <1>2, <1>3, <3>1 DEF ShapeInv
    <3>4. PctWords[faddr_reg] \in Nat  BY <3>1, SocketSizes
    <3> QED  BY <3>2, <3>3, <3>4 DEF WriteInv
  <2> QED  BY <1>1, <2>1 DEF GiveInv, WriteInv, At, gpifVars, Giving
<1> QED  BY <1>4, <1>5, <1>6, <1>7, <1>8, <1>9

-----------------------------------------------------------------------------
(***************************************************************************)
(* What a clock does, part by part.                                        *)
(***************************************************************************)

\* The state machine.
LEMMA Moves ==
  ASSUME NEW fb, StreamFsm(fb)
  PROVE  /\ At("idle") => At("prep_thread_addr")'
         /\ At("prep_thread_addr") => At("wait_flg_latency")'
         /\ At("wait_flg_latency") =>
              IF flg_latency_cnt >= FlgLatencyWait THEN At("wait_flagA")'
                                                   ELSE At("wait_flg_latency")'
         /\ At("wait_flagA") => IF flaga_d THEN At("wait_flagB")' ELSE At("idle")'
         /\ At("wait_flagB") =>
              IF ~flagb_d THEN At("wait_flagB")'
              ELSE IF ~SocketFifoRdy(faddr_reg) THEN At("idle")'
              ELSE IF faddr_reg \in ToHost THEN At("stream_in_write")'
                                           ELSE At("stream_out_read")'
         /\ At("stream_in_write") =>
              IF ~fb THEN At("idle")'
              ELSE IF ControlEnds THEN At("stream_in_pktend")' ELSE At("stream_in_write")'
         /\ At("stream_in_pktend") => At("idle")'
         /\ At("stream_out_read") =>
              IF flagb_d THEN At("stream_out_read")' ELSE At("stream_out_read_oe_delay")'
         /\ At("stream_out_read_oe_delay") =>
              IF oe_delay_cnt = 0 THEN At("idle")' ELSE At("stream_out_read_oe_delay")'
         /\ current_state \in States /\ current_state' \in States
<1>1. At("idle") => At("prep_thread_addr")'
  BY DEF StreamFsm, Go, WaitFlagA, At, States
<1>2. At("prep_thread_addr") => At("wait_flg_latency")'
  BY DEF StreamFsm, Go, WaitFlagA, At, States
<1>3. At("wait_flg_latency") =>
       IF flg_latency_cnt >= FlgLatencyWait THEN At("wait_flagA")'
                                            ELSE At("wait_flg_latency")'
  BY DEF StreamFsm, Go, WaitFlagA, At, States
<1>4. At("wait_flagA") => IF flaga_d THEN At("wait_flagB")' ELSE At("idle")'
  BY DEF StreamFsm, Go, WaitFlagA, At, States
<1>5. At("wait_flagB") =>
       IF ~flagb_d THEN At("wait_flagB")'
       ELSE IF ~SocketFifoRdy(faddr_reg) THEN At("idle")'
       ELSE IF faddr_reg \in ToHost THEN At("stream_in_write")'
                                    ELSE At("stream_out_read")'
  BY DEF StreamFsm, Go, WaitFlagA, At, States
<1>6. At("stream_in_write") =>
       IF ~fb THEN At("idle")'
       ELSE IF ControlEnds THEN At("stream_in_pktend")' ELSE At("stream_in_write")'
  BY DEF StreamFsm, Go, WaitFlagA, At, States
<1>7. At("stream_in_pktend") => At("idle")'
  BY DEF StreamFsm, Go, WaitFlagA, At, States
<1>8. At("stream_out_read") =>
       IF flagb_d THEN At("stream_out_read")' ELSE At("stream_out_read_oe_delay")'
  BY DEF StreamFsm, Go, WaitFlagA, At, States
<1>9. At("stream_out_read_oe_delay") =>
       IF oe_delay_cnt = 0 THEN At("idle")' ELSE At("stream_out_read_oe_delay")'
  BY DEF StreamFsm, Go, WaitFlagA, At, States
<1>10. current_state \in States /\ current_state' \in States
  BY DEF StreamFsm, Go, WaitFlagA, At, States
<1> QED  BY <1>1, <1>2, <1>3, <1>4, <1>5, <1>6, <1>7, <1>8, <1>9, <1>10

\* The flags of an address that is not new.
LEMMA OldFlags ==
  ASSUME NEW fa, NEW fb, Flags(fa, fb), addr_age = FlagLatency, faddr_reg \in Sockets
  PROVE  /\ faddr_reg \in FromHost => (fb <=> left[faddr_reg].n > ReadMark)
         /\ faddr_reg \in ToHost => (fb <=> room[faddr_reg] > WriteMark)
<1>1. ~(addr_age < FlagLatency)  BY DEF FlagLatency
<1>2. \/ faddr_reg \in FromHost /\ fb = (left[faddr_reg].n > ReadMark)
      \/ faddr_reg \in ToHost /\ fb = (room[faddr_reg] > WriteMark)
  BY <1>1 DEF Flags
<1>3. ~(faddr_reg \in FromHost /\ faddr_reg \in ToHost)  BY TwoWays
<1> QED  BY <1>2, <1>3, Zenon

\* The FX3 is read.
LEMMA WordRead ==
  ASSUME ShapeInv, Fx3Read, slrd[1], faddr_reg \in FromHost, left[faddr_reg].n > 0
  PROVE  /\ left'[faddr_reg] = IF left[faddr_reg].n = 1 THEN NoTransfer
                               ELSE [left[faddr_reg] EXCEPT !.n = left[faddr_reg].n - 1]
         /\ \A s \in FromHost : s # faddr_reg => left'[s] = left[s]
         /\ left' = [s \in FromHost |-> left'[s]]
         /\ bus'[1] = Word(faddr_reg, left[faddr_reg].size - left[faddr_reg].n + 1,
                           left[faddr_reg].size)
         /\ bus'[2] = bus[1] /\ bus'[3] = bus[2]
BY DEF ShapeInv, Fx3Read

\* The FX3 is not read.
LEMMA NothingRead ==
  ASSUME Fx3Read, ~slrd[1]
  PROVE  left' = left /\ bus' = <<Junk, bus[1], bus[2]>>
BY DEF Fx3Read

\* The FX3 is written.
LEMMA WordWritten ==
  ASSUME ShapeInv, Fx3Written, slwr, faddr_reg \in ToHost, room[faddr_reg] > 0
  PROVE  /\ room'[faddr_reg] = IF PktEnd THEN 0 ELSE room[faddr_reg] - 1
         /\ \A s \in ToHost : s # faddr_reg => room'[s] = room[s]
         /\ room' = [s \in ToHost |-> room'[s]]
BY DEF ShapeInv, Fx3Written

\* The FX3 is not written.
LEMMA NothingWritten ==
  ASSUME Fx3Written, ~slwr
  PROVE  room' = room
BY DEF Fx3Written

\* The FIFOs of the sockets that are not served keep their words.
LEMMA FifosKeep ==
  ASSUME ShapeInv, Fifos, NEW s \in Sockets,
         s \in FromHost => fifo_wr # s,
         s \in ToHost => ~(At("stream_in_write") /\ faddr_reg = s)
  PROVE  used'[s] = used[s] /\ last'[s] = last[s]
BY TwoWays DEF Fifos, SocketFifoRd, At

\* A word captured from the bus goes into its FIFO.
LEMMA FifoStores ==
  ASSUME ShapeInv, Fifos, NEW s \in FromHost, fifo_wr = s
  PROVE  used'[s] = used[s] + 1 /\ last'[s] = UnlessEnd(Captured)
BY TwoWays DEF Fifos

\* A word for the host leaves its FIFO.
LEMMA FifoGives ==
  ASSUME ShapeInv, Fifos, At("stream_in_write"), faddr_reg \in ToHost, used[faddr_reg] > 0
  PROVE  LET w == Word(faddr_reg, last[faddr_reg].idx + 1, PctWords[faddr_reg])
         IN  /\ used'[faddr_reg] = used[faddr_reg] - 1
             /\ last'[faddr_reg] = UnlessEnd(w) /\ socket_fifo_q' = w
BY TwoWays DEF Fifos, SocketFifoRd, ShownAhead, At, ShapeInv

\* The words in the FIFOs stay numbers.
LEMMA UsedIsNat ==
  ASSUME ShapeInv, Fifos
  PROVE  used' \in [Sockets -> Nat]
BY DEF ShapeInv, Fifos

\* The arrays keep their domains.
LEMMA ClockKeepsShape ==
  ASSUME IInv, Clock
  PROVE  ShapeInv'
<1>1. Fx3Read /\ Fx3Written /\ Fifos  BY DEF Clock, ClockWith
<1>2. /\ left' = [s \in FromHost |-> left'[s]]
      /\ \A s \in FromHost : left'[s] = [n |-> left'[s].n, size |-> left'[s].size]
  <2>1. CASE slrd[1] /\ faddr_reg \in FromHost /\ left[faddr_reg].n > 0
    <3>1. \A s \in FromHost : left[s] = [n |-> left[s].n, size |-> left[s].size]
      BY DEF IInv, ShapeInv
    <3>2. left'[faddr_reg] = [n |-> left'[faddr_reg].n, size |-> left'[faddr_reg].size]
      <4>1. left'[faddr_reg] = IF left[faddr_reg].n = 1 THEN NoTransfer
                               ELSE [left[faddr_reg] EXCEPT !.n = left[faddr_reg].n - 1]
        BY <1>1, <2>1, WordRead DEF IInv
      <4>2. left[faddr_reg] = [n |-> left[faddr_reg].n, size |-> left[faddr_reg].size]
        BY <2>1, <3>1
      <4>3. left'[faddr_reg] =
              IF left[faddr_reg].n = 1 THEN [n |-> 0, size |-> 0]
              ELSE [n |-> left[faddr_reg].n - 1, size |-> left[faddr_reg].size]
        BY <4>1, <4>2 DEF NoTransfer
      <4> QED  BY <4>3
    <3>3. /\ \A s \in FromHost : s # faddr_reg => left'[s] = left[s]
          /\ left' = [s \in FromHost |-> left'[s]]
      BY <1>1, <2>1, WordRead DEF IInv
    <3> QED  BY <3>1, <3>2, <3>3
  <2>2. CASE ~(slrd[1] /\ faddr_reg \in FromHost /\ left[faddr_reg].n > 0)
    <3>1. left' = left  BY <1>1, <2>2 DEF Fx3Read
    <3> QED  BY <3>1 DEF IInv, ShapeInv
  <2> QED  BY <2>1, <2>2
<1>3. room' = [s \in ToHost |-> room'[s]]
  BY <1>1 DEF IInv, ShapeInv, Fx3Written
<1>4. used' \in [Sockets -> Nat]  BY <1>1, UsedIsNat DEF IInv
<1> QED  BY <1>2, <1>3, <1>4 DEF ShapeInv

-----------------------------------------------------------------------------
(***************************************************************************)
(* A clock keeps the types.                                                *)
(***************************************************************************)

\* While words are read from the FX3, it has some.
LEMMA ReadsWords ==
  ASSUME IInv, slrd[1]
  PROVE  /\ Taking /\ faddr_reg \in FromHost /\ left[faddr_reg].n > 0
         /\ ReadInv(faddr_reg, left[faddr_reg].n, left[faddr_reg].size)
<1>1. Taking /\ faddr_reg \in FromHost  BY DEF IInv, RestInv, TakeInv
<1>2. ReadInv(faddr_reg, left[faddr_reg].n, left[faddr_reg].size)
  BY <1>1 DEF IInv, TakeInv, TailInv
<1>3. left[faddr_reg].n \in Nat
  <2>1. left[faddr_reg].size \in Nat
    BY <1>1, <1>2, TransferSizes DEF ReadInv
  <2> QED  BY <1>1, <2>1 DEF IInv, TypeOK
<1> QED  BY <1>1, <1>2, <1>3 DEF ReadInv

\* While words are written to it, it has room.
LEMMA WritesFit ==
  ASSUME IInv, slwr
  PROVE  faddr_reg \in ToHost /\ room[faddr_reg] \in Nat /\ room[faddr_reg] > 0
<1>1. faddr_reg \in ToHost /\ faddr_reg \in Sockets
  BY TwoWays DEF IInv, GiveInv, Giving
<1>2. room[faddr_reg] \in Nat  BY <1>1, Sizes DEF IInv, TypeOK
<1>3. room[faddr_reg] > 0
  <2>1. CASE At("stream_in_write")
    <3>1. WriteInv(faddr_reg, last[faddr_reg].idx)  BY <2>1 DEF IInv, GiveInv
    <3> QED  BY <1>1, <3>1, Sizes, SocketSizes DEF WriteInv
  <2>2. CASE At("stream_in_pktend")
    BY <2>2, Sizes DEF IInv, GiveInv
  <2>3. CASE At("idle")
    BY <2>3 DEF IInv, GiveInv
  <2> QED  BY <2>1, <2>2, <2>3 DEF IInv, RestInv, At
<1> QED  BY <1>1, <1>2, <1>3

\* The word that is shown ahead is one of the packet.
LEMMA WordShown ==
  ASSUME IInv, At("stream_in_write")
  PROVE  /\ faddr_reg \in ToHost /\ faddr_reg \in Sockets
         /\ used[faddr_reg] \in Nat /\ used[faddr_reg] > 0
         /\ last[faddr_reg].idx \in 0 .. PctWords[faddr_reg] - 1
         /\ WriteInv(faddr_reg, last[faddr_reg].idx)
<1>1. faddr_reg \in ToHost /\ faddr_reg \in Sockets
  BY TwoWays DEF IInv, GiveInv, Giving
<1>2. WriteInv(faddr_reg, last[faddr_reg].idx)  BY DEF IInv, GiveInv
<1>3. used[faddr_reg] \in Nat  BY <1>1 DEF IInv, ShapeInv
<1>4. PctWords[faddr_reg] \in Nat  BY <1>1, SocketSizes
<1>5. used[faddr_reg] > 0  BY <1>2, <1>3, <1>4 DEF WriteInv
<1> QED  BY <1>1, <1>2, <1>3, <1>5 DEF WriteInv

\* The types of the FX3's buffers and of the bus.
LEMMA ClockKeepsFx3Type ==
  ASSUME IInv, Clock
  PROVE  /\ \A s \in FromHost : left'[s].size \in HostSizes[s] \cup {0}
                                /\ left'[s].n \in 0 .. left'[s].size
         /\ \A s \in ToHost : room'[s] \in 0 .. DataWords
         /\ bus' \in [1 .. 3 -> WordSet]
<1>1. Fx3Read /\ Fx3Written  BY DEF Clock, ClockWith
<1>2. CASE slrd[1]
  <2>1. /\ faddr_reg \in FromHost /\ left[faddr_reg].n > 0
        /\ left[faddr_reg].size \in HostSizes[faddr_reg]
    BY <1>2, ReadsWords DEF ReadInv
  <2>2. left[faddr_reg].size \in Nat /\ left[faddr_reg].size <= DataWords
    BY <2>1, TransferSizes
  <2>3. left[faddr_reg].n \in 1 .. left[faddr_reg].size
    BY <2>1, <2>2 DEF IInv, TypeOK
  <2>4. /\ left'[faddr_reg].size \in HostSizes[faddr_reg] \cup {0}
        /\ left'[faddr_reg].n \in 0 .. left'[faddr_reg].size
    <3>1. left[faddr_reg] = [n |-> left[faddr_reg].n, size |-> left[faddr_reg].size]
      BY <2>1 DEF IInv, ShapeInv
    <3>2. left'[faddr_reg] =
            IF left[faddr_reg].n = 1 THEN [n |-> 0, size |-> 0]
            ELSE [n |-> left[faddr_reg].n - 1, size |-> left[faddr_reg].size]
      BY <1>1, <1>2, <2>1, <3>1, WordRead DEF NoTransfer, IInv
    <3> QED  BY <2>1, <2>2, <2>3, <3>2
  <2>5. \A s \in FromHost : s # faddr_reg => left'[s] = left[s]
    BY <1>1, <1>2, <2>1, WordRead DEF IInv
  <2>6. bus' = <<Word(faddr_reg, left[faddr_reg].size - left[faddr_reg].n + 1,
                      left[faddr_reg].size), bus[1], bus[2]>>
    BY <1>1, <1>2, <2>1 DEF Fx3Read
  <2>7. Word(faddr_reg, left[faddr_reg].size - left[faddr_reg].n + 1, left[faddr_reg].size)
          \in WordSet
    BY <2>1, <2>2, <2>3, Sizes DEF Word, WordSet, FromHost
  <2>8. bus' \in [1 .. 3 -> WordSet]
    BY <2>6, <2>7 DEF IInv, TypeOK
  <2>9. room' \in [ToHost -> 0 .. DataWords] \/ room' = room
    <3>1. ~slwr
      BY <1>2, ReadsWords DEF IInv, RestInv, Taking, At
    <3> QED  BY <1>1, <3>1, NothingWritten
  <2> QED  BY <2>4, <2>5, <2>8, <2>9 DEF IInv, TypeOK
<1>3. CASE ~slrd[1]
  <2>1. left' = left /\ bus' = <<Junk, bus[1], bus[2]>>  BY <1>1, <1>3, NothingRead
  <2>2. Junk \in WordSet  BY Sizes DEF Junk, WordSet
  <2>3. bus' \in [1 .. 3 -> WordSet]  BY <2>1, <2>2 DEF IInv, TypeOK
  <2>4. \A s \in ToHost : room'[s] \in 0 .. DataWords
    <3>1. CASE slwr
      <4>1. faddr_reg \in ToHost /\ room[faddr_reg] \in Nat /\ room[faddr_reg] > 0
        BY <3>1, WritesFit
      <4>2. /\ room'[faddr_reg] = IF PktEnd THEN 0 ELSE room[faddr_reg] - 1
            /\ \A s \in ToHost : s # faddr_reg => room'[s] = room[s]
        BY <1>1, <3>1, <4>1, WordWritten DEF IInv
      <4> QED  BY <4>1, <4>2, Sizes DEF IInv, TypeOK
    <3>2. CASE ~slwr
      BY <1>1, <3>2, NothingWritten DEF IInv, TypeOK
    <3> QED  BY <3>1, <3>2
  <2> QED  BY <2>1, <2>3, <2>4 DEF IInv, TypeOK
<1> QED  BY <1>2, <1>3

\* The types of the bus machine's registers.
LEMMA ClockKeepsGpifType ==
  ASSUME IInv, Clock
  PROVE  /\ current_state' \in States
         /\ {thread_addr_cnt', faddr_reg'} \subseteq Sockets
         /\ flg_latency_cnt' \in 0 .. FlgLatencyWait + 1 /\ oe_delay_cnt' \in 0 .. OeDelay
         /\ slwr_cnt' \in 0 .. DataWords /\ addr_age' \in 0 .. FlagLatency
         /\ fifo_wr' \in FromHost \cup {4}
<1>1. PICK fa \in BOOLEAN, fb \in BOOLEAN : ClockWith(fa, fb)  BY DEF Clock
<1>2. StreamFsm(fb) /\ Counters /\ Address /\ OutRegs  BY <1>1 DEF ClockWith
<1> USE DEF IInv
<1>3. current_state' \in States  BY <1>2, Moves
<1>4. {thread_addr_cnt', faddr_reg'} \subseteq Sockets
  BY <1>2 DEF Address, TypeOK, Sockets
<1>5. flg_latency_cnt' \in 0 .. FlgLatencyWait + 1
  BY <1>2 DEF Counters, TypeOK, FlagInv, At, FlgLatencyWait
<1>6. oe_delay_cnt' \in 0 .. OeDelay
  BY <1>2 DEF Counters, TypeOK, OeDelay
<1>7. slwr_cnt' \in 0 .. DataWords
  <2>1. slwr => slwr_cnt <= DataWords - 1
    <3>1. CASE At("stream_in_write")
      <4>1. /\ last[faddr_reg].idx \in 0 .. PctWords[faddr_reg] - 1
            /\ slwr_cnt = IF last[faddr_reg].idx = 0 THEN 0 ELSE last[faddr_reg].idx - 1
            /\ PctWords[faddr_reg] \in Nat /\ PctWords[faddr_reg] <= DataWords
        BY <3>1, WordShown, SocketSizes DEF WriteInv
      <4> QED  BY <4>1, Sizes
    <3>2. CASE At("stream_in_pktend") \/ At("idle")
      BY <3>2, Sizes DEF GiveInv
    <3> QED  BY <3>1, <3>2 DEF RestInv, At
  <2> QED  BY <1>2, <2>1, Sizes DEF Counters, CountWrites, TypeOK
<1>8. addr_age' \in 0 .. FlagLatency
  BY <1>2 DEF Address, TypeOK, FlagLatency
<1>9. fifo_wr' \in FromHost \cup {4}
  BY <1>2 DEF OutRegs, RestInv, TakeInv
<1> QED  BY <1>3, <1>4, <1>5, <1>6, <1>7, <1>8, <1>9

\* The types of what the FIFOs hold.
LEMMA ClockKeepsFifoType ==
  ASSUME IInv, Clock
  PROVE  socket_fifo_q' \in WordSet /\ last' \in [Sockets -> WordSet]
<1>1. Fifos  BY DEF Clock, ClockWith
<1>2. Junk \in WordSet  BY Sizes DEF Junk, WordSet
<1>3. Captured \in WordSet  BY <1>2 DEF IInv, TypeOK, Captured
<1>4. At("stream_in_write") => ShownAhead(faddr_reg) \in WordSet
  <2> SUFFICES ASSUME At("stream_in_write")
               PROVE  ShownAhead(faddr_reg) \in WordSet
    OBVIOUS
  <2>1. /\ faddr_reg \in Sockets
        /\ last[faddr_reg].idx \in 0 .. PctWords[faddr_reg] - 1
        /\ PctWords[faddr_reg] \in Nat /\ PctWords[faddr_reg] <= DataWords
    BY WordShown, SocketSizes
  <2> QED  BY <1>2, <2>1, Sizes DEF ShownAhead, Word, WordSet, Sockets
<1>5. socket_fifo_q' \in WordSet
  BY <1>1, <1>2, <1>4 DEF Fifos, SocketFifoRd, At
<1>6. last' \in [Sockets -> WordSet]
  <2>1. \A s \in Sockets : last[s] \in WordSet  BY DEF IInv, TypeOK
  <2>2. UnlessEnd(Captured) \in WordSet  BY <1>2, <1>3 DEF UnlessEnd
  <2>3. SocketFifoRd => UnlessEnd(ShownAhead(faddr_reg)) \in WordSet
    BY <1>2, <1>4 DEF UnlessEnd, SocketFifoRd, At
  <2> QED  BY <1>1, <2>1, <2>2, <2>3 DEF Fifos
<1> QED  BY <1>5, <1>6

\* A clock keeps the type invariant.
LEMMA ClockKeepsType ==
  ASSUME IInv, Clock
  PROVE  TypeOK'
BY ClockKeepsFx3Type, ClockKeepsGpifType, ClockKeepsFifoType DEF TypeOK, States

-----------------------------------------------------------------------------
(***************************************************************************)
(* A clock outside of a transfer: a write may still be under way.          *)
(***************************************************************************)

\* Nothing is read, and the last word of a write leaves no room in the buffer.
LEMMA QuietClock ==
  ASSUME IInv, Clock, ~Taking, ~At("stream_in_write")
  PROVE  /\ left' = left /\ ~slrd'[1] /\ ~slrd'[2] /\ ~slrd'[3] /\ fifo_wr' = 4 /\ ~slwr'
         /\ \A s \in Sockets : used'[s] = used[s] /\ last'[s] = last[s]
         /\ \A s \in FromHost : left'[s].n = left'[s].size /\ last'[s] = Junk
         /\ \A s \in ToHost : room'[s] \in {0, DataWords} /\ last'[s] = Junk
         /\ ~slwr => room' = room
<1>1. OutRegs /\ Fx3Read /\ Fx3Written /\ Fifos  BY DEF Clock, ClockWith
<1>2. ~slrd[1] /\ ~slrd[2] /\ ~slrd[3] /\ fifo_wr = 4  BY DEF IInv, RestInv
<1>3. left' = left  BY <1>1, <1>2, NothingRead
<1>4. ~slrd'[1] /\ ~slrd'[2] /\ ~slrd'[3] /\ fifo_wr' = 4 /\ ~slwr'
  BY <1>1, <1>2 DEF OutRegs, SocketFifoRd, At, Taking
<1>5. \A s \in Sockets : used'[s] = used[s] /\ last'[s] = last[s]
  BY <1>1, <1>2, FifosKeep, TwoWays DEF IInv
<1>6. ~slwr => room' = room  BY <1>1, NothingWritten
<1>7. slwr => \A s \in ToHost : room'[s] = IF s = faddr_reg THEN 0 ELSE room[s]
  <2> SUFFICES ASSUME slwr
               PROVE  \A s \in ToHost : room'[s] = IF s = faddr_reg THEN 0 ELSE room[s]
    OBVIOUS
  <2>1. faddr_reg \in ToHost /\ room[faddr_reg] > 0  BY WritesFit
  <2>2. /\ room'[faddr_reg] = IF PktEnd THEN 0 ELSE room[faddr_reg] - 1
        /\ \A s \in ToHost : s # faddr_reg => room'[s] = room[s]
    BY <1>1, <2>1, WordWritten DEF IInv
  <2>3. PktEnd \/ room[faddr_reg] = 1
    BY DEF IInv, RestInv, GiveInv, PktEnd, At
  <2> QED  BY <2>2, <2>3
<1>8. \A s \in ToHost : room'[s] \in {0, DataWords} /\ last'[s] = Junk
  <2> SUFFICES ASSUME NEW s \in ToHost
               PROVE  room'[s] \in {0, DataWords} /\ last'[s] = Junk
    OBVIOUS
  <2>1. last'[s] = last[s]  BY <1>5, TwoWays
  <2>2. CASE slwr /\ s = faddr_reg
    <3>1. last[s] = Junk  BY <2>2 DEF IInv, RestInv, GiveInv, At
    <3> QED  BY <1>7, <2>1, <2>2, <3>1
  <2>3. CASE ~(slwr /\ s = faddr_reg)
    <3>1. room[s] \in {0, DataWords} /\ last[s] = Junk
      BY <2>3 DEF IInv, RestInv, Giving
    <3> QED  BY <1>6, <1>7, <2>1, <2>3, <3>1
  <2> QED  BY <2>2, <2>3
<1>9. \A s \in FromHost : left'[s].n = left'[s].size /\ last'[s] = Junk
  BY <1>3, <1>5, TwoWays DEF IInv, RestInv
<1> QED  BY <1>3, <1>4, <1>5, <1>6, <1>8, <1>9

\* The flags are those of the address by the time they are looked at.
LEMMA QuietKeepsFlags ==
  ASSUME IInv, Clock, ~Taking, ~At("stream_in_write")
  PROVE  FlagInv'
<1>1. PICK fa \in BOOLEAN, fb \in BOOLEAN : ClockWith(fa, fb)  BY DEF Clock
<1>2. StreamFsm(fb) /\ Counters /\ Address /\ Flags(fa, fb) /\ flagb_d' = fb
  BY <1>1 DEF ClockWith
<1>3. flg_latency_cnt \in Nat /\ addr_age \in Nat /\ faddr_reg \in Sockets
  BY DEF IInv, TypeOK, FlgLatencyWait, FlagLatency
<1>4. At("wait_flg_latency")' =>
        /\ flg_latency_cnt' <= FlgLatencyWait
        /\ addr_age' = IF flg_latency_cnt' < FlagLatency THEN flg_latency_cnt' ELSE FlagLatency
  <2>1. CASE At("prep_thread_addr")
    BY <1>2, <2>1 DEF Counters, Address, At, FlgLatencyWait, FlagLatency
  <2>2. CASE At("wait_flg_latency")
    BY <1>2, <1>3, <2>2, Moves
    DEF Counters, Address, At, FlgLatencyWait, FlagLatency, IInv, FlagInv
  <2>3. CASE ~At("prep_thread_addr") /\ ~At("wait_flg_latency")
    BY <1>2, <2>3, Moves DEF At, States
  <2> QED  BY <2>1, <2>2, <2>3
<1>5. ASSUME current_state' \in States \ {"idle", "prep_thread_addr", "wait_flg_latency"}
      PROVE  addr_age = FlagLatency /\ addr_age' = FlagLatency /\ faddr_reg' = faddr_reg
  <2>1. At("wait_flg_latency") => flg_latency_cnt >= FlgLatencyWait
    BY <1>2, <1>5, Moves DEF At
  <2>2. ~At("idle") /\ ~At("prep_thread_addr")  BY <1>2, <1>5, Moves DEF At
  <2>3. addr_age = FlagLatency
    BY <1>2, <1>3, <2>1, <2>2, Moves
    DEF IInv, FlagInv, At, States, FlgLatencyWait, FlagLatency
  <2> QED  BY <1>2, <2>2, <2>3 DEF Address, At, FlagLatency
<1>6. ASSUME At("wait_flagA")' \/ At("wait_flagB")', flagb_d'
      PROVE  IF faddr_reg' \in FromHost THEN left'[faddr_reg'].n > ReadMark
                                        ELSE room'[faddr_reg'] > WriteMark
  <2>1. addr_age = FlagLatency /\ faddr_reg' = faddr_reg
    BY <1>5, <1>6 DEF At, States
  <2>2. ~slwr
    <3>1. ~At("idle") /\ ~At("stream_in_pktend") /\ ~At("stream_in_write")
      BY <1>2, <1>6, Moves DEF At
    <3> QED  BY <3>1 DEF IInv, RestInv, At
  <2>3. left' = left /\ room' = room  BY <2>2, QuietClock
  <2> QED  BY <1>2, <1>3, <1>6, <2>1, <2>3, OldFlags, TwoWays
<1> QED  BY <1>4, <1>5, <1>6 DEF FlagInv, At

\* Between transfers all sockets are at rest.
LEMMA QuietKeepsRest ==
  ASSUME IInv, Clock, ~Taking, ~At("stream_in_write")
  PROVE  RestInv'
<1>1. PICK fb \in BOOLEAN : StreamFsm(fb)  BY DEF Clock, ClockWith
<1>2. Counters  BY DEF Clock, ClockWith
<1>3. current_state' \in {"wait_flg_latency", "wait_flagA", "wait_flagB"} => slwr_cnt' = 0
  <2> HAVE current_state' \in {"wait_flg_latency", "wait_flagA", "wait_flagB"}
  <2>1. ~At("idle") /\ ~At("stream_in_pktend")
    BY <1>1, Moves DEF At
  <2>2. ~slwr  BY <2>1 DEF IInv, RestInv, At
  <2> QED  BY <1>2, <2>2 DEF Counters, CountWrites
<1>4. ~At("idle")' /\ ~At("stream_out_read_oe_delay")' => oe_delay_cnt' = OeDelay
  BY <1>1, <1>2, Moves DEF Counters, At, IInv, RestInv, Taking
<1> QED  BY <1>3, <1>4, QuietClock DEF RestInv, At

\* A read begins with a whole transfer, and room for it.
LEMMA QuietKeepsTake ==
  ASSUME IInv, Clock, ~Taking, ~At("stream_in_write")
  PROVE  TakeInv'
<1>1. PICK fa \in BOOLEAN, fb \in BOOLEAN : ClockWith(fa, fb)  BY DEF Clock
<1>2. StreamFsm(fb) /\ Address /\ Flags(fa, fb) /\ flagb_d' = fb
  BY <1>1 DEF ClockWith
<1> SUFFICES ASSUME Taking'
             PROVE  TakeInv'
  BY DEF TakeInv
<1>3. /\ At("wait_flagB") /\ flagb_d /\ SocketFifoRdy(faddr_reg)
      /\ faddr_reg \notin ToHost /\ At("stream_out_read")'
  <2>1. At("wait_flagB")
    BY <1>2, Moves DEF At, Taking, States
  <2> QED  BY <1>2, <2>1, Moves DEF At, Taking
<1>4. faddr_reg \in FromHost /\ faddr_reg \in Sockets /\ faddr_reg' = faddr_reg
  BY <1>2, <1>3, TwoWays DEF Address, At, IInv, TypeOK
<1>5. left[faddr_reg].n > ReadMark /\ addr_age = FlagLatency
  BY <1>3, <1>4 DEF IInv, FlagInv, At, States
<1>6. left[faddr_reg].n = left[faddr_reg].size
  BY <1>3, <1>4 DEF IInv, RestInv, Taking, At
<1>7. left[faddr_reg].size \in HostSizes[faddr_reg]
  BY <1>4, <1>5, <1>6 DEF IInv, TypeOK, ReadMark
<1> DEFINE z == left[faddr_reg].size
<1>8. z \in Nat /\ z >= 4 /\ z <= PctWords[faddr_reg]  BY <1>4, <1>7, TransferSizes
<1>9. flagb_d'  BY <1>2, <1>4, <1>5, OldFlags
<1>10. used[faddr_reg] + z <= Capacity[faddr_reg]
  <2>1. used[faddr_reg] <= Capacity[faddr_reg] - PctWords[faddr_reg]
    BY <1>3, <1>4 DEF SocketFifoRdy
  <2>2. used[faddr_reg] \in Nat  BY <1>4 DEF IInv, ShapeInv
  <2> QED  BY <1>4, <1>8, <2>1, <2>2, SocketSizes
<1>11. left' = left /\ used'[faddr_reg] = used[faddr_reg] /\ last'[faddr_reg] = Junk
       /\ ~slrd'[1] /\ ~slrd'[2] /\ ~slrd'[3] /\ fifo_wr' = 4
  BY <1>4, QuietClock
<1>12. ReadInv(faddr_reg, left[faddr_reg].n, left[faddr_reg].size)'
  <2>1. InFlight(faddr_reg, left[faddr_reg].size - left[faddr_reg].n, left[faddr_reg].size)'
    BY <1>4, <1>6, <1>8, <1>11 DEF InFlight
  <2> QED
    BY <1>3, <1>4, <1>6, <1>7, <1>8, <1>9, <1>10, <1>11, <2>1 DEF ReadInv, At
<1> QED  BY <1>3, <1>4, <1>12 DEF TakeInv, At

\* A write begins with a whole packet, and a whole buffer.
LEMMA QuietKeepsGive ==
  ASSUME IInv, Clock, ~Taking, ~At("stream_in_write")
  PROVE  GiveInv'
<1>1. PICK fa \in BOOLEAN, fb \in BOOLEAN : ClockWith(fa, fb)  BY DEF Clock
<1>2. StreamFsm(fb) /\ Address /\ Counters
  BY <1>1 DEF ClockWith
<1>3. ~slwr'  BY QuietClock
<1>4. ~At("stream_in_pktend")'  BY <1>2, Moves DEF At, Taking, States
<1>5. ASSUME At("stream_in_write")'
      PROVE  faddr_reg' \in ToHost /\ WriteInv(faddr_reg, last[faddr_reg].idx)'
  <2>1. At("wait_flagB") /\ flagb_d /\ SocketFifoRdy(faddr_reg) /\ faddr_reg \in ToHost
    <3>1. At("wait_flagB")  BY <1>2, <1>5, Moves DEF At, Taking, States
    <3> QED  BY <1>2, <1>5, <3>1, Moves DEF At
  <2>2. faddr_reg \in Sockets /\ faddr_reg \notin FromHost /\ faddr_reg' = faddr_reg
    BY <1>2, <2>1, TwoWays DEF Address, At
  <2>3. room[faddr_reg] > WriteMark  BY <2>1, <2>2 DEF IInv, FlagInv
  <2>4. ~slwr /\ slwr_cnt = 0 /\ last[faddr_reg] = Junk /\ room[faddr_reg] \in {0, DataWords}
    BY <2>1 DEF IInv, RestInv, Giving, At
  <2>5. room'[faddr_reg] = DataWords
    <3>1. room' = room  BY <2>4, QuietClock
    <3> QED  BY <2>3, <2>4, <3>1 DEF WriteMark
  <2>6. used'[faddr_reg] >= PctWords[faddr_reg] /\ last'[faddr_reg] = Junk
    BY <2>1, <2>2, <2>4, QuietClock DEF SocketFifoRdy
  <2>7. slwr_cnt' = 0  BY <1>2, <2>4 DEF Counters, CountWrites
  <2>8. last'[faddr_reg].idx = 0  BY <2>6 DEF Junk
  <2>9. used'[faddr_reg] \in Nat
    BY <2>2, QuietClock DEF IInv, ShapeInv
  <2>10. WriteInv(faddr_reg, 0)'
    BY <1>3, <2>2, <2>5, <2>6, <2>7, <2>9, SocketSizes DEF WriteInv
  <2> QED  BY <2>1, <2>2, <2>8, <2>10
<1> QED  BY <1>3, <1>4, <1>5 DEF GiveInv, Giving

-----------------------------------------------------------------------------
(***************************************************************************)
(* A clock of a write.                                                     *)
(***************************************************************************)

\* One more word is read from the FIFO, the one before it written to the buffer.
LEMMA WriteClock ==
  ASSUME IInv, Clock, At("stream_in_write")
  PROVE  LET j == last[faddr_reg].idx
             w == Word(faddr_reg, j + 1, PctWords[faddr_reg])
         IN  /\ left' = left /\ ~slrd'[1] /\ ~slrd'[2] /\ ~slrd'[3] /\ fifo_wr' = 4 /\ slwr'
             /\ faddr_reg' = faddr_reg /\ addr_age' = FlagLatency
             /\ used'[faddr_reg] = used[faddr_reg] - 1
             /\ last'[faddr_reg] = UnlessEnd(w) /\ socket_fifo_q' = w
             /\ \A s \in Sockets : s # faddr_reg => last'[s] = last[s]
             /\ \A s \in ToHost : s # faddr_reg => room'[s] = room[s]
             /\ room'[faddr_reg] = DataWords - j
             /\ slwr_cnt' = j
<1>1. OutRegs /\ Fx3Read /\ Fx3Written /\ Fifos /\ Counters /\ Address
  BY DEF Clock, ClockWith
<1>2. ~slrd[1] /\ ~slrd[2] /\ ~slrd[3] /\ fifo_wr = 4
  BY DEF IInv, RestInv, Taking, At
<1>3. left' = left  BY <1>1, <1>2, NothingRead
<1>4. ~slrd'[1] /\ ~slrd'[2] /\ ~slrd'[3] /\ fifo_wr' = 4 /\ slwr'
  BY <1>1, <1>2 DEF OutRegs, SocketFifoRd, At
<1>5. faddr_reg' = faddr_reg /\ addr_age' = FlagLatency
  <2>1. addr_age = FlagLatency  BY DEF IInv, FlagInv, At, States
  <2> QED  BY <1>1, <2>1 DEF Address, At, FlagLatency
<1>6. /\ faddr_reg \in ToHost /\ faddr_reg \in Sockets /\ used[faddr_reg] > 0
      /\ last[faddr_reg].idx \in 0 .. PctWords[faddr_reg] - 1
      /\ WriteInv(faddr_reg, last[faddr_reg].idx)
  BY WordShown
<1>7. LET w == Word(faddr_reg, last[faddr_reg].idx + 1, PctWords[faddr_reg])
      IN  /\ used'[faddr_reg] = used[faddr_reg] - 1
          /\ last'[faddr_reg] = UnlessEnd(w) /\ socket_fifo_q' = w
  BY <1>1, <1>6, FifoGives DEF IInv
<1>8. \A s \in Sockets : s # faddr_reg => last'[s] = last[s]
  BY <1>1, <1>2, FifosKeep, TwoWays DEF IInv
<1>9. last[faddr_reg].idx \in Nat /\ DataWords \in Nat
  BY <1>6, SocketSizes, Sizes
<1>10. CASE last[faddr_reg].idx = 0
  <2>1. ~slwr /\ room[faddr_reg] = DataWords  BY <1>6, <1>10 DEF WriteInv
  <2>2. room' = room  BY <1>1, <2>1, NothingWritten
  <2>3. slwr_cnt' = 0  BY <1>1, <2>1 DEF Counters, CountWrites
  <2> QED
    BY <1>3, <1>4, <1>5, <1>7, <1>8, <1>9, <1>10, <2>1, <2>2, <2>3
<1>11. CASE last[faddr_reg].idx # 0
  <2>1. /\ slwr /\ room[faddr_reg] = DataWords - last[faddr_reg].idx + 1
        /\ slwr_cnt = last[faddr_reg].idx - 1
    BY <1>6, <1>9, <1>11 DEF WriteInv
  <2>2. ~PktEnd  BY DEF PktEnd, At
  <2>3. room[faddr_reg] > 0  BY <2>1, WritesFit
  <2>4. /\ room'[faddr_reg] = room[faddr_reg] - 1
        /\ \A s \in ToHost : s # faddr_reg => room'[s] = room[s]
    BY <1>1, <1>6, <2>1, <2>2, <2>3, WordWritten DEF IInv
  <2>5. slwr_cnt' = slwr_cnt + 1  BY <1>1, <2>1 DEF Counters, CountWrites
  <2> QED
    BY <1>3, <1>4, <1>5, <1>7, <1>8, <1>9, <2>1, <2>4, <2>5
<1> QED  BY <1>10, <1>11

\* It ends with the last word of the packet: a data packet when the watermark is
\* reached, a control packet when slwr_cnt says so.
LEMMA WriteKeepsGive ==
  ASSUME IInv, Clock, At("stream_in_write")
  PROVE  GiveInv'
<1>1. PICK fa \in BOOLEAN, fb \in BOOLEAN : ClockWith(fa, fb)  BY DEF Clock
<1>2. StreamFsm(fb) /\ Flags(fa, fb)
  BY <1>1 DEF ClockWith
<1> DEFINE s == faddr_reg
           j == last[s].idx
           P == PctWords[s]
<1>3. /\ s \in ToHost /\ s \in Sockets /\ j \in 0 .. P - 1
      /\ WriteInv(s, j) /\ used[s] \in Nat
  BY WordShown
<1>4. /\ P = IF s \in Control THEN ControlWords ELSE DataWords
      /\ P \in Nat /\ P >= 3 /\ P <= DataWords
      /\ DataWords \in Nat /\ ControlWords \in Nat
      /\ ControlWords >= 3 /\ DataWords >= ControlWords + 3
  BY <1>3, SocketSizes, Sizes
<1>5. fb <=> room[s] > WriteMark
  <2>1. addr_age = FlagLatency  BY DEF IInv, FlagInv, At, States
  <2> QED  BY <1>2, <1>3, <2>1, OldFlags
<1>6. fb <=> j < DataWords - 1
  <2>1. room[s] = IF j = 0 THEN DataWords ELSE DataWords - j + 1  BY <1>3 DEF WriteInv
  <2>2. room[s] > 2 <=> j < DataWords - 1  BY <1>3, <1>4, <2>1
  <2> QED  BY <1>5, <2>2 DEF WriteMark
<1>7. ControlEnds <=> s \in Control /\ j = ControlWords - 1
  <2>1. slwr_cnt = IF j = 0 THEN 0 ELSE j - 1  BY <1>3 DEF WriteInv
  <2>2. slwr_cnt = ControlWords - 2 <=> j = ControlWords - 1  BY <1>3, <1>4, <2>1
  <2> QED  BY <2>2 DEF ControlEnds
<1>8. /\ slwr' /\ s' = s /\ used'[s] = used[s] - 1
      /\ last'[s] = UnlessEnd(Word(s, j + 1, P)) /\ socket_fifo_q' = Word(s, j + 1, P)
      /\ room'[s] = DataWords - j /\ slwr_cnt' = j
  BY WriteClock
<1>9. IF ~fb THEN At("idle")'
      ELSE IF ControlEnds THEN At("stream_in_pktend")' ELSE At("stream_in_write")'
  BY <1>2, Moves
<1>10. last'[s] = IF j + 1 = P THEN Junk ELSE Word(s, j + 1, P)
  BY <1>8 DEF UnlessEnd, Word
<1>11. CASE ~fb
  <2>1. j = DataWords - 1 /\ P = DataWords /\ s \notin Control
    BY <1>3, <1>4, <1>6, <1>11
  <2>2. /\ socket_fifo_q' = Word(s, DataWords, DataWords)
        /\ room'[s] = 1 /\ last'[s] = Junk /\ slwr_cnt' = DataWords - 1
    BY <1>3, <1>4, <1>8, <1>10, <2>1
  <2> QED  BY <1>3, <1>8, <1>9, <1>11, <2>1, <2>2 DEF GiveInv, At
<1>12. CASE fb /\ ControlEnds
  <2>1. j = ControlWords - 1 /\ P = ControlWords /\ s \in Control
    BY <1>4, <1>7, <1>12
  <2>2. /\ socket_fifo_q' = Word(s, ControlWords, ControlWords)
        /\ room'[s] = DataWords - ControlWords + 1 /\ last'[s] = Junk
        /\ slwr_cnt' = ControlWords - 1
    BY <1>3, <1>4, <1>8, <1>10, <2>1
  <2> QED  BY <1>3, <1>8, <1>9, <1>12, <2>1, <2>2 DEF GiveInv, At
<1>13. CASE fb /\ ~ControlEnds
  <2>1. j + 1 \in 1 .. P - 1
    BY <1>3, <1>4, <1>6, <1>7, <1>13
  <2>2. last'[s] = Word(s, j + 1, P)  BY <1>3, <1>4, <1>10, <2>1
  <2>3. last'[s].idx = j + 1  BY <2>2 DEF Word
  <2>4. used'[s] + (j + 1) >= P
    BY <1>3, <1>4, <1>8 DEF WriteInv
  <2>5. /\ room'[s] = DataWords - (j + 1) + 1 /\ slwr_cnt' = (j + 1) - 1
    BY <1>3, <1>4, <1>8
  <2>6. WriteInv(s, last[s].idx)'
    BY <1>8, <2>1, <2>2, <2>3, <2>4, <2>5 DEF WriteInv
  <2> QED  BY <1>3, <1>8, <1>9, <1>13, <2>6 DEF GiveInv, At
<1> QED  BY <1>11, <1>12, <1>13

\* A clock of a transfer to the host.
LEMMA WriteKeepsInv ==
  ASSUME IInv, Clock, At("stream_in_write")
  PROVE  FlagInv' /\ RestInv' /\ TakeInv' /\ GiveInv'
<1>1. PICK fb \in BOOLEAN : StreamFsm(fb)  BY DEF Clock, ClockWith
<1>2. current_state' \in {"idle", "stream_in_pktend", "stream_in_write"}
  BY <1>1, Moves DEF At
<1>3. FlagInv'  BY <1>2, WriteClock DEF FlagInv, At, States
<1>4. RestInv'
  <2>1. oe_delay_cnt' = OeDelay
    BY DEF Clock, ClockWith, Counters, IInv, RestInv, At
  <2>2. \A s \in FromHost : left'[s].n = left'[s].size /\ last'[s] = Junk
    <3>1. \A s \in FromHost : s # faddr_reg /\ s \in Sockets  BY WordShown, TwoWays
    <3> QED  BY <3>1, WriteClock DEF IInv, RestInv, Taking, At
  <2>3. \A s \in ToHost : s # faddr_reg => room'[s] \in {0, DataWords} /\ last'[s] = Junk
    <3>1. \A s \in ToHost : s \in Sockets  BY TwoWays
    <3> QED  BY <3>1, WriteClock DEF IInv, RestInv, Giving, At
  <2>4. /\ ~slrd'[1] /\ ~slrd'[2] /\ ~slrd'[3] /\ fifo_wr' = 4 /\ slwr'
        /\ faddr_reg' = faddr_reg
    BY WriteClock
  <2> QED  BY <1>2, <2>1, <2>2, <2>3, <2>4 DEF RestInv, Giving, At
<1>5. TakeInv'  BY <1>2 DEF TakeInv, Taking, At
<1>6. GiveInv'  BY WriteKeepsGive
<1> QED  BY <1>3, <1>4, <1>5, <1>6

-----------------------------------------------------------------------------
(***************************************************************************)
(* A clock of a read, or of its end.                                       *)
(***************************************************************************)

\* The sockets that are not read stay as they are.
LEMMA OthersAtRest ==
  ASSUME IInv, Clock, Taking
  PROVE  /\ faddr_reg \in FromHost /\ faddr_reg \in Sockets
         /\ faddr_reg' = faddr_reg /\ addr_age' = FlagLatency /\ ~slwr' /\ Sloe
         /\ \A s \in FromHost : s # faddr_reg =>
              left'[s].n = left'[s].size /\ last'[s] = Junk
         /\ \A s \in ToHost : room'[s] \in {0, DataWords} /\ last'[s] = Junk
<1>1. OutRegs /\ Fx3Read /\ Fx3Written /\ Fifos /\ Address
  BY DEF Clock, ClockWith
<1>2. faddr_reg \in FromHost /\ faddr_reg \in Sockets
  BY TwoWays DEF IInv, TakeInv
<1>3. faddr_reg' = faddr_reg /\ addr_age' = FlagLatency
  <2>1. addr_age = FlagLatency  BY DEF IInv, FlagInv, Taking, At, States
  <2> QED  BY <1>1, <2>1 DEF Address, Taking, At, FlagLatency
<1>4. ~slwr' /\ Sloe  BY <1>1 DEF OutRegs, SocketFifoRd, Sloe, Taking, At
<1>5. ~slwr /\ ~Giving  BY DEF IInv, RestInv, Giving, Taking, At
<1>6. fifo_wr \in {faddr_reg, 4}
  BY <1>2 DEF IInv, TakeInv, ReadInv, TailInv
<1>7. \A s \in FromHost : s # faddr_reg => left'[s].n = left'[s].size /\ last'[s] = Junk
  <2> SUFFICES ASSUME NEW s \in FromHost, s # faddr_reg
               PROVE  left'[s].n = left'[s].size /\ last'[s] = Junk
    OBVIOUS
  <2>1. left'[s] = left[s]
    <3>1. CASE slrd[1]
      BY <1>1, <3>1, ReadsWords, WordRead DEF IInv
    <3>2. CASE ~slrd[1]  BY <1>1, <3>2, NothingRead
    <3> QED  BY <3>1, <3>2
  <2>2. last'[s] = last[s]
    <3>1. s \in Sockets /\ s \notin ToHost /\ s # 4  BY TwoWays
    <3> QED  BY <1>1, <1>6, <3>1, FifosKeep DEF IInv
  <2> QED  BY <2>1, <2>2 DEF IInv, RestInv
<1>8. \A s \in ToHost : room'[s] \in {0, DataWords} /\ last'[s] = Junk
  <2> SUFFICES ASSUME NEW s \in ToHost
               PROVE  room'[s] \in {0, DataWords} /\ last'[s] = Junk
    OBVIOUS
  <2>1. room' = room  BY <1>1, <1>5, NothingWritten
  <2>2. last'[s] = last[s]
    <3>1. s \in Sockets /\ s \notin FromHost  BY TwoWays
    <3>2. ~At("stream_in_write")  BY DEF Taking, At
    <3> QED  BY <1>1, <3>1, <3>2, FifosKeep DEF IInv
  <2> QED  BY <1>5, <2>1, <2>2 DEF IInv, RestInv
<1> QED  BY <1>2, <1>3, <1>4, <1>7, <1>8

\* A word more is on its way, and the one at the end of the bus is stored.
LEMMA OneMoreInFlight ==
  ASSUME IInv, Clock, slrd[1],
         NEW z, z = left[faddr_reg].size,
         NEW k, k = left[faddr_reg].size - left[faddr_reg].n
  PROVE  /\ k \in Nat /\ z \in Nat /\ k < z /\ z >= 4
         /\ bus'[1] = Word(faddr_reg, k + 1, z)
         /\ k >= 1 => bus'[2] = Word(faddr_reg, k, z)
         /\ k >= 2 => bus'[3] = Word(faddr_reg, k - 1, z)
         /\ last'[faddr_reg] = IF k >= 3 THEN Word(faddr_reg, k - 2, z) ELSE Junk
         /\ used'[faddr_reg] = used[faddr_reg] + (IF k >= 3 THEN 1 ELSE 0)
<1>1. Fx3Read /\ Fifos  BY DEF Clock, ClockWith
<1>2. /\ Taking /\ faddr_reg \in FromHost /\ left[faddr_reg].n > 0
      /\ ReadInv(faddr_reg, left[faddr_reg].n, z)
      /\ faddr_reg \in Sockets /\ faddr_reg \notin ToHost /\ faddr_reg # 4
  BY ReadsWords, TwoWays
<1>3. z \in Nat /\ z >= 4 /\ left[faddr_reg].n \in 1 .. z
  <2>1. z \in HostSizes[faddr_reg]  BY <1>2 DEF ReadInv
  <2>2. z \in Nat /\ z >= 4  BY <1>2, <2>1, TransferSizes
  <2> QED  BY <1>2, <2>2 DEF IInv, TypeOK
<1>4. k \in Nat /\ k < z /\ k + 1 = z - left[faddr_reg].n + 1  BY <1>3
<1>5. InFlight(faddr_reg, k, z) /\ fifo_wr = IF k >= 3 THEN faddr_reg ELSE 4
  BY <1>2 DEF ReadInv
<1>6. /\ bus'[1] = Word(faddr_reg, k + 1, z)
      /\ bus'[2] = bus[1] /\ bus'[3] = bus[2]
  BY <1>1, <1>2, <1>4, WordRead DEF IInv
<1>7. CASE k >= 3
  <2>1. Captured = Word(faddr_reg, k - 2, z)
    BY <1>2, <1>5, <1>7, OthersAtRest DEF Captured, InFlight
  <2>2. UnlessEnd(Captured) = Word(faddr_reg, k - 2, z)
    BY <1>4, <2>1 DEF UnlessEnd, Word
  <2>3. used'[faddr_reg] = used[faddr_reg] + 1 /\ last'[faddr_reg] = UnlessEnd(Captured)
    BY <1>1, <1>2, <1>5, <1>7, FifoStores DEF IInv
  <2> QED  BY <1>3, <1>4, <1>5, <1>6, <1>7, <2>2, <2>3 DEF InFlight
<1>8. CASE ~(k >= 3)
  <2>1. used'[faddr_reg] = used[faddr_reg] /\ last'[faddr_reg] = last[faddr_reg]
    BY <1>1, <1>2, <1>5, <1>8, FifosKeep DEF IInv
  <2>2. last[faddr_reg] = Junk  BY <1>4, <1>5, <1>8 DEF InFlight
  <2>3. used[faddr_reg] \in Nat  BY <1>2 DEF IInv, ShapeInv
  <2> QED  BY <1>3, <1>4, <1>5, <1>6, <1>8, <2>1, <2>2, <2>3 DEF InFlight
<1> QED  BY <1>7, <1>8

\* While the flag is up another word is read; when it falls two are left, and the
\* read goes on for two clocks.
LEMMA ReadKeepsTake ==
  ASSUME IInv, Clock, At("stream_out_read")
  PROVE  TakeInv'
<1>1. PICK fa \in BOOLEAN, fb \in BOOLEAN : ClockWith(fa, fb)  BY DEF Clock
<1>2. /\ StreamFsm(fb) /\ Flags(fa, fb) /\ flagb_d' = fb /\ OutRegs /\ Counters
      /\ Fx3Read /\ Fifos
  BY <1>1 DEF ClockWith
<1> DEFINE s == faddr_reg
           n == left[s].n
           z == left[s].size
           k == z - n
<1>3. s \in FromHost /\ s \in Sockets /\ s \notin ToHost /\ s' = s
  BY OthersAtRest, TwoWays DEF Taking
<1>4. ReadInv(s, n, z)  BY DEF IInv, TakeInv, Taking
<1>5. z \in HostSizes[s] /\ z \in Nat /\ z >= 4 /\ z <= PctWords[s] /\ n \in 1 .. z
  <2>1. z \in HostSizes[s]  BY <1>4 DEF ReadInv
  <2>2. z \in Nat /\ z >= 4 /\ z <= PctWords[s]  BY <1>3, <2>1, TransferSizes
  <2> QED  BY <1>3, <1>4, <2>1, <2>2 DEF IInv, TypeOK, ReadInv
<1>6. /\ slrd[1] \/ n = z
      /\ slrd[2] <=> k >= 1
      /\ slrd[3] <=> k >= 2
      /\ fifo_wr = IF k >= 3 THEN s ELSE 4
      /\ used[s] + z - (IF k >= 3 THEN k - 3 ELSE 0) <= Capacity[s]
      /\ IF flagb_d THEN n >= 3 /\ (n = 3 => slrd[2]) ELSE n = 2 /\ slrd[2]
  BY <1>4 DEF ReadInv
<1>7. flagb_d' <=> n > 3
  <2>1. addr_age = FlagLatency  BY DEF IInv, FlagInv, At, States
  <2> QED  BY <1>2, <1>3, <2>1, OldFlags DEF ReadMark
<1>8. IF flagb_d THEN At("stream_out_read")' ELSE At("stream_out_read_oe_delay")'
  BY <1>2, Moves
<1>9. oe_delay_cnt' = OeDelay
  BY <1>2 DEF Counters, IInv, RestInv, At
<1>10. /\ slrd'[1] /\ (slrd'[2] <=> slrd[1]) /\ (slrd'[3] <=> slrd[2])
       /\ fifo_wr' = IF slrd[3] THEN s ELSE 4
  BY <1>2 DEF OutRegs, At
<1>11. used[s] \in Nat /\ Capacity[s] \in Nat
  BY <1>3, SocketSizes DEF IInv, ShapeInv
<1> SUFFICES ReadInv(s, left[s].n, left[s].size)'
  BY <1>3, <1>8, <1>9 DEF TakeInv, Taking
<1>12. CASE slrd[1]
  <2>1. left'[s].n = n - 1 /\ left'[s].size = z
    <3>1. left'[s] = [left[s] EXCEPT !.n = n - 1]
      <4>1. n # 1 /\ n > 0  BY <1>5, <1>6
      <4> QED  BY <1>2, <1>3, <1>12, <4>1, WordRead DEF IInv
    <3>2. left[s] = [n |-> left[s].n, size |-> left[s].size]
      BY <1>3 DEF IInv, ShapeInv
    <3> QED  BY <3>1, <3>2
  <2>2. /\ k \in Nat /\ k < z
        /\ bus'[1] = Word(s, k + 1, z)
        /\ k >= 1 => bus'[2] = Word(s, k, z)
        /\ k >= 2 => bus'[3] = Word(s, k - 1, z)
        /\ last'[s] = IF k >= 3 THEN Word(s, k - 2, z) ELSE Junk
        /\ used'[s] = used[s] + (IF k >= 3 THEN 1 ELSE 0)
    BY <1>12, OneMoreInFlight
  <2>3. z - (n - 1) = k + 1  BY <1>5
  <2>4. InFlight(s, k, z)'
    <3>1. (k + 1) - 1 = k /\ (k + 1) - 2 = k - 1 /\ (k + 1) - 3 = k - 2  BY <2>2
    <3>2. /\ k + 1 >= 2 => k >= 1
          /\ k + 1 >= 3 => k >= 2
          /\ k + 1 >= 4 <=> k >= 3
      BY <2>2
    <3>3. z' = z /\ k' = k + 1 /\ s' = s  BY <1>3, <2>1, <2>3
    <3>4. /\ bus'[1] = Word(s, k + 1, z)
          /\ k + 1 >= 2 => bus'[2] = Word(s, (k + 1) - 1, z)
          /\ k + 1 >= 3 => bus'[3] = Word(s, (k + 1) - 2, z)
          /\ last'[s] = IF k + 1 >= 4 THEN Word(s, (k + 1) - 3, z) ELSE Junk
      BY <2>2, <3>1, <3>2
    <3> HIDE DEF k, z, s
    <3> QED  BY <3>3, <3>4 DEF InFlight
  <2>5. /\ (slrd'[2] <=> z - (n - 1) >= 1) /\ (slrd'[3] <=> z - (n - 1) >= 2)
        /\ fifo_wr' = IF z - (n - 1) >= 3 THEN s ELSE 4
    BY <1>6, <1>10, <1>12, <2>2, <2>3
  <2>6. used'[s] + z - (IF z - (n - 1) >= 3 THEN z - (n - 1) - 3 ELSE 0) <= Capacity[s]
    BY <1>5, <1>6, <1>11, <2>2, <2>3
  <2>7. IF flagb_d
        THEN IF flagb_d' THEN n - 1 >= 3 /\ (n - 1 = 3 => slrd'[2]) ELSE n - 1 = 2 /\ slrd'[2]
        ELSE n - 1 = 1 /\ slrd'[1]
    BY <1>5, <1>6, <1>7, <1>10, <1>12
  <2>8. n - 1 >= 1  BY <1>5, <1>6
  <2>9. n' = n - 1 /\ z' = z /\ s' = s /\ InFlight(s, z - n, z)'
    BY <1>3, <2>1, <2>4
  <2> HIDE DEF s, n, z, k
  <2>10. ReadInv(s, n, z)'
    BY <1>5, <1>8, <1>10, <2>5, <2>6, <2>7, <2>8, <2>9 DEF ReadInv, At
  <2> QED  BY <2>10 DEF s, n, z
<1>13. CASE ~slrd[1]
  <2>1. left' = left  BY <1>2, <1>13, NothingRead
  <2>2. n = z /\ k = 0  BY <1>5, <1>6, <1>13
  <2>3. s # 4  BY <1>3, TwoWays
  <2>4. last'[s] = Junk /\ used'[s] = used[s]
    <3>1. fifo_wr # s  BY <1>6, <2>2, <2>3
    <3>2. last[s] = Junk  BY <1>4, <2>2 DEF ReadInv, InFlight
    <3> QED  BY <1>2, <1>3, <3>1, <3>2, FifosKeep DEF IInv
  <2>5. flagb_d /\ flagb_d'  BY <1>5, <1>6, <1>7, <2>2
  <2>6. ~slrd'[2] /\ ~slrd'[3] /\ fifo_wr' = 4  BY <1>6, <1>10, <1>13, <2>2
  <2>7. InFlight(s, left[s].size - left[s].n, left[s].size)'
    BY <1>3, <2>1, <2>2, <2>4 DEF InFlight
  <2> QED
    BY <1>3, <1>5, <1>6, <1>8, <1>10, <2>1, <2>2, <2>4, <2>5, <2>6, <2>7 DEF ReadInv, At
<1> QED  BY <1>12, <1>13

\* The end of a read: the words on their way come in, one a clock.
LEMMA TailClock ==
  ASSUME IInv, Clock, At("stream_out_read_oe_delay"), NEW l \in 1 .. 3, NEW z \in Nat,
         TailInv(faddr_reg, l, z)
  PROVE  /\ left' = left /\ ~slrd'[1] /\ ~slrd'[2] /\ (slrd'[3] <=> l = 3)
         /\ fifo_wr' = IF l >= 2 THEN faddr_reg ELSE 4
         /\ bus'[2] = bus[1] /\ bus'[3] = bus[2]
         /\ used'[faddr_reg] = used[faddr_reg] + 1
         /\ last'[faddr_reg] = IF l = 1 THEN Junk ELSE Word(faddr_reg, z + 1 - l, z)
<1>1. Fx3Read /\ Fifos /\ OutRegs  BY DEF Clock, ClockWith
<1>2. faddr_reg \in FromHost /\ Sloe  BY OthersAtRest DEF Taking
<1>3. /\ ~slrd[1] /\ (slrd[2] <=> l = 3) /\ (slrd[3] <=> l >= 2)
      /\ fifo_wr = faddr_reg /\ bus[3] = Word(faddr_reg, z + 1 - l, z)
  BY DEF TailInv
<1>4. left' = left /\ bus'[2] = bus[1] /\ bus'[3] = bus[2]
  BY <1>1, <1>3, NothingRead
<1>5. /\ ~slrd'[1] /\ (slrd'[2] <=> slrd[1]) /\ (slrd'[3] <=> slrd[2])
      /\ fifo_wr' = IF slrd[3] THEN faddr_reg ELSE 4
  BY <1>1 DEF OutRegs, At
<1>6. used'[faddr_reg] = used[faddr_reg] + 1 /\ last'[faddr_reg] = UnlessEnd(Captured)
  BY <1>1, <1>2, <1>3, FifoStores DEF IInv
<1>7. UnlessEnd(Captured) = IF l = 1 THEN Junk ELSE Word(faddr_reg, z + 1 - l, z)
  <2>1. Captured = Word(faddr_reg, z + 1 - l, z)  BY <1>2, <1>3 DEF Captured
  <2>2. z + 1 - l = z <=> l = 1  OBVIOUS
  <2> QED  BY <2>1, <2>2 DEF UnlessEnd, Word
<1> QED  BY <1>3, <1>4, <1>5, <1>6, <1>7

\* The last read of all: then the host's buffer is empty.
LEMMA TailBegins ==
  ASSUME IInv, Clock, At("stream_out_read_oe_delay"), oe_delay_cnt = OeDelay
  PROVE  TailInv(faddr_reg, 3, bus[3].size)'
<1>1. Fx3Read /\ OutRegs  BY DEF Clock, ClockWith
<1> DEFINE s == faddr_reg
           z == left[s].size
           k == left[s].size - left[s].n
<1>2. s \in FromHost /\ s \in Sockets /\ s' = s
  BY OthersAtRest DEF Taking
<1>3. ReadInv(s, left[s].n, z)  BY DEF IInv, TakeInv, Taking
<1>4. left[s].n = 1 /\ slrd[1]  BY <1>3 DEF ReadInv, At
<1>5. z \in Nat /\ z >= 4 /\ k = z - 1
  <2>1. z \in HostSizes[s]  BY <1>3 DEF ReadInv
  <2> QED  BY <1>2, <1>4, <2>1, TransferSizes
<1>6. slrd[2] /\ slrd[3] /\ used[s] + z - (k - 3) <= Capacity[s]
  BY <1>3, <1>4, <1>5 DEF ReadInv
<1>7. /\ bus'[1] = Word(s, k + 1, z)
      /\ bus'[2] = Word(s, k, z)
      /\ bus'[3] = Word(s, k - 1, z)
      /\ last'[s] = Word(s, k - 2, z)
      /\ used'[s] = used[s] + 1
  BY <1>4, <1>5, OneMoreInFlight
<1>8. left'[s].n = left'[s].size
  <2>1. left'[s] = NoTransfer  BY <1>1, <1>2, <1>4, WordRead DEF IInv
  <2> QED  BY <2>1 DEF NoTransfer
<1>9. ~slrd'[1] /\ slrd'[2] /\ slrd'[3] /\ fifo_wr' = s
  BY <1>1, <1>4, <1>6 DEF OutRegs, At
<1>10. used'[s] + 3 <= Capacity[s]
  <2>1. used[s] \in Nat /\ Capacity[s] \in Nat
    BY <1>2, SocketSizes DEF IInv, ShapeInv
  <2> QED  BY <1>5, <1>6, <1>7, <2>1
<1>11. /\ bus'[1] = Word(s, z, z) /\ bus'[2] = Word(s, z + 2 - 3, z)
       /\ bus'[3] = Word(s, z + 1 - 3, z) /\ last'[s] = Word(s, z - 3, z)
  <2>1. k + 1 = z /\ k = z + 2 - 3 /\ k - 1 = z + 1 - 3 /\ k - 2 = z - 3  BY <1>5
  <2> QED  BY <1>7, <2>1
<1>12. bus'[3].size = z  BY <1>11 DEF Word
<1> QED  BY <1>2, <1>5, <1>8, <1>9, <1>10, <1>11, <1>12 DEF TailInv

\* And while they come in, TakeInv goes with them.
LEMMA TailKeepsTake ==
  ASSUME IInv, Clock, At("stream_out_read_oe_delay")
  PROVE  TakeInv'
<1>1. StreamFsm(TRUE) \/ StreamFsm(FALSE)  BY DEF Clock, ClockWith
<1>2. Counters  BY DEF Clock, ClockWith
<1>3. oe_delay_cnt \in 0 .. 3  BY DEF IInv, TypeOK, OeDelay
<1>4. IF oe_delay_cnt = 0 THEN At("idle")' ELSE At("stream_out_read_oe_delay")'
  BY <1>1, Moves
<1>5. CASE oe_delay_cnt = 0
  BY <1>4, <1>5 DEF TakeInv, Taking, At
<1>6. CASE oe_delay_cnt = 3
  <2>1. oe_delay_cnt' = 2 /\ ~At("stream_out_read")'
    BY <1>2, <1>4, <1>6 DEF Counters, At
  <2>2. TailInv(faddr_reg, 3, bus[3].size)'  BY <1>6, TailBegins DEF OeDelay
  <2>3. oe_delay_cnt' + 1 = 3 /\ oe_delay_cnt' # OeDelay  BY <2>1 DEF OeDelay
  <2>4. TailInv(faddr_reg, oe_delay_cnt + 1, bus[3].size)'  BY <2>2, <2>3
  <2> QED  BY <2>1, <2>3, <2>4, OthersAtRest DEF TakeInv, Taking
<1>7. CASE oe_delay_cnt \in {1, 2}
  <2> DEFINE s == faddr_reg
             z == bus[3].size
             l == oe_delay_cnt + 1
  <2>1. s \in FromHost /\ s \in Sockets /\ s' = s  BY OthersAtRest DEF Taking
  <2>2. TailInv(s, l, z)
    BY <1>7 DEF IInv, TakeInv, Taking, At, OeDelay
  <2>3. z \in Nat /\ l \in {2, 3}
    BY <1>7 DEF IInv, TypeOK, WordSet
  <2>4. oe_delay_cnt' = l - 1 - 1 /\ ~At("stream_out_read")' /\ oe_delay_cnt' # OeDelay
    BY <1>2, <1>4, <1>7 DEF Counters, At, OeDelay
  <2>5. /\ z >= 4 /\ left[s].n = left[s].size
        /\ l = 3 => bus[1] = Word(s, z, z)
        /\ bus[2] = Word(s, z + 2 - l, z)
        /\ used[s] + l <= Capacity[s]
    BY <2>2, <2>3 DEF TailInv
  <2>6. /\ left' = left /\ ~slrd'[1] /\ ~slrd'[2] /\ (slrd'[3] <=> l = 3)
        /\ fifo_wr' = s /\ bus'[2] = bus[1] /\ bus'[3] = bus[2]
        /\ used'[s] = used[s] + 1 /\ last'[s] = Word(s, z + 1 - l, z)
    <3>1. l \in 1 .. 3 /\ l >= 2 /\ l # 1  BY <2>3
    <3> HIDE DEF s, z, l
    <3> QED  BY <2>2, <2>3, <3>1, TailClock DEF s
  <2>7. z + 2 - l = z + 1 - (l - 1) /\ z + 1 - l = z - (l - 1)  BY <2>3
  <2>8. bus'[3] = Word(s, z + 1 - (l - 1), z)  BY <2>5, <2>6, <2>7
  <2>9. bus'[3].size = z  BY <2>8 DEF Word
  <2>10. last'[s] = Word(s, z - (l - 1), z)  BY <2>6, <2>7
  <2>11. l - 1 >= 2 => l = 3 /\ z + 2 - (l - 1) = z  BY <2>3
  <2>12. used'[s] + (l - 1) <= Capacity[s]
    <3>1. used[s] \in Nat /\ Capacity[s] \in Nat
      BY <2>1, SocketSizes DEF IInv, ShapeInv
    <3> QED  BY <2>3, <2>5, <2>6, <3>1
  <2>13. TailInv(faddr_reg, oe_delay_cnt + 1, bus[3].size)'
    <3>1. oe_delay_cnt' + 1 = l - 1 /\ l - 1 # 3 /\ (l = 3 <=> l - 1 >= 2)
      BY <1>7, <2>3, <2>4
    <3>2. s' = faddr_reg' /\ bus'[3].size = z  BY <2>9
    <3>3. l - 1 >= 2 => bus'[2] = Word(s, z + 2 - (l - 1), z)
      BY <2>5, <2>6, <2>11
    <3>4. faddr_reg' = s  BY <2>1
    <3> HIDE DEF s, z, l
    <3> QED
      BY <2>5, <2>6, <2>8, <2>10, <2>12, <3>1, <3>2, <3>3, <3>4 DEF TailInv
  <2> QED  BY <2>1, <2>4, <2>13 DEF TakeInv, Taking
<1> QED  BY <1>3, <1>5, <1>6, <1>7

\* A clock of a transfer from the host.
LEMMA TakeKeepsInv ==
  ASSUME IInv, Clock, Taking
  PROVE  FlagInv' /\ RestInv' /\ TakeInv' /\ GiveInv'
<1>1. PICK fb \in BOOLEAN : StreamFsm(fb)  BY DEF Clock, ClockWith
<1>2. Counters /\ Fx3Read /\ Fifos /\ OutRegs  BY DEF Clock, ClockWith
<1>3. Taking' \/ (At("stream_out_read_oe_delay") /\ oe_delay_cnt = 0 /\ At("idle")')
  BY <1>1, Moves DEF Taking
<1>4. current_state' \in {"stream_out_read", "stream_out_read_oe_delay", "idle"}
  BY <1>3 DEF Taking, At
<1>5. FlagInv'  BY <1>4, OthersAtRest DEF FlagInv, At, States
<1>6. GiveInv'  BY <1>4, OthersAtRest DEF GiveInv, Giving, At
<1>7. TakeInv'  BY ReadKeepsTake, TailKeepsTake DEF Taking
<1>8. RestInv'
  <2>1. /\ faddr_reg' = faddr_reg /\ ~slwr'
        /\ \A s \in FromHost : s # faddr_reg =>
             left'[s].n = left'[s].size /\ last'[s] = Junk
        /\ \A s \in ToHost : room'[s] \in {0, DataWords} /\ last'[s] = Junk
    BY OthersAtRest
  <2>2. At("stream_out_read")' => oe_delay_cnt' = OeDelay
    <3>1. At("stream_out_read")' => At("stream_out_read")
      BY <1>1, Moves DEF Taking, At
    <3> QED  BY <1>2, <3>1 DEF Counters, IInv, RestInv, At
  <2>3. CASE Taking'
    BY <1>4, <2>1, <2>2, <2>3 DEF RestInv, At
  <2>4. CASE At("stream_out_read_oe_delay") /\ oe_delay_cnt = 0 /\ At("idle")'
    <3>1. TailInv(faddr_reg, 1, bus[3].size)
      <4>1. oe_delay_cnt + 1 = 1 /\ oe_delay_cnt # OeDelay  BY <2>4 DEF OeDelay
      <4>2. TailInv(faddr_reg, oe_delay_cnt + 1, bus[3].size)
        BY <2>4, <4>1 DEF IInv, TakeInv, Taking, At
      <4> QED  BY <4>1, <4>2
    <3>2. bus[3].size \in Nat  BY DEF IInv, TypeOK, WordSet
    <3>3. /\ left' = left /\ ~slrd'[1] /\ ~slrd'[2] /\ ~slrd'[3] /\ fifo_wr' = 4
          /\ last'[faddr_reg] = Junk
      BY <2>4, <3>1, <3>2, TailClock
    <3>4. left[faddr_reg].n = left[faddr_reg].size  BY <3>1 DEF TailInv
    <3> QED  BY <2>1, <2>4, <3>3, <3>4 DEF RestInv, At, Taking
  <2> QED  BY <1>3, <2>3, <2>4
<1> QED  BY <1>5, <1>6, <1>7, <1>8

-----------------------------------------------------------------------------
(***************************************************************************)
(* The theorems.                                                           *)
(***************************************************************************)

\* After reset no word is anywhere.
LEMMA InitInv ==
  ASSUME Init
  PROVE  IInv
<1>1. TypeOK
  <2>1. Junk \in WordSet  BY Sizes DEF Junk, WordSet
  <2>2. \A s \in FromHost : left[s] = [n |-> 0, size |-> 0]  BY DEF Init, NoTransfer
  <2>3. \A s \in ToHost : room[s] \in 0 .. DataWords  BY Sizes DEF Init
  <2> QED
    BY <2>1, <2>2, <2>3, Sizes
    DEF Init, TypeOK, Sockets, FromHost, FlagLatency, FlgLatencyWait, OeDelay
<1>2. ShapeInv
  BY DEF Init, ShapeInv, NoTransfer
<1>3. FlagInv  BY DEF Init, FlagInv, At, States
<1>4. RestInv
  <2>1. \A s \in FromHost : left[s].n = left[s].size /\ last[s] = Junk
    BY TwoWays DEF Init, NoTransfer
  <2>2. \A s \in ToHost : room[s] \in {0, DataWords} /\ last[s] = Junk
    BY TwoWays DEF Init
  <2> QED  BY <2>1, <2>2 DEF Init, RestInv, At
<1>5. TakeInv /\ GiveInv  BY DEF Init, TakeInv, Taking, GiveInv, Giving, At
<1> QED  BY <1>1, <1>2, <1>3, <1>4, <1>5 DEF IInv

\* Every step keeps the invariant.
LEMMA StepInv ==
  ASSUME IInv, [Next]_vars
  PROVE  IInv'
<1>1. CASE Clock
  <2>1. FlagInv' /\ RestInv' /\ TakeInv' /\ GiveInv'
    BY <1>1, TakeKeepsInv, WriteKeepsInv, QuietKeepsFlags, QuietKeepsRest, QuietKeepsTake,
       QuietKeepsGive
  <2> QED  BY <1>1, <2>1, ClockKeepsType, ClockKeepsShape DEF IInv
<1>2. CASE \E s \in FromHost : HostSends(s) \/ Drain(s)
  BY <1>2, HostSendsKeepsInv, DrainKeepsInv
<1>3. CASE \E s \in ToHost : HostTakes(s) \/ Fill(s)
  BY <1>3, HostTakesKeepsInv, FillKeepsInv
<1>4. CASE UNCHANGED vars
  BY <1>4 DEF vars, fx3Vars, gpifVars, IInv, TypeOK, ShapeInv, FlagInv, RestInv, TakeInv,
     ReadInv, TailInv, InFlight, GiveInv, WriteInv, Taking, Giving, At
<1> QED  BY <1>1, <1>2, <1>3, <1>4 DEF Next

\* The word that is stored is the next one of its transfer.
LEMMA InvMeansOrder ==
  ASSUME IInv
  PROVE  HostWordsArriveInOrder
<1> SUFFICES ASSUME fifo_wr \in FromHost
             PROVE  Captured.sock = fifo_wr /\ Follows(last[fifo_wr], Captured)
  BY DEF HostWordsArriveInOrder
<1>1. Taking  BY TwoWays, Zenon DEF IInv, RestInv, Sockets, FromHost
<1>2. faddr_reg \in FromHost /\ Sloe  BY <1>1 DEF IInv, TakeInv, Sloe, Taking, At
<1>3. CASE At("stream_out_read") \/ oe_delay_cnt = OeDelay
  <2> DEFINE n == left[faddr_reg].n
             z == left[faddr_reg].size
  <2>1. ReadInv(faddr_reg, n, z)  BY <1>1, <1>3 DEF IInv, TakeInv
  <2>2. z \in Nat /\ n \in Nat
    <3>1. z \in Nat  BY <1>2, <2>1, TransferSizes DEF ReadInv
    <3> QED  BY <1>2, <3>1 DEF IInv, TypeOK
  <2>3. fifo_wr = faddr_reg /\ z - n >= 3
    BY <1>2, <2>1, TwoWays DEF ReadInv, FromHost
  <2>4. Captured = Word(faddr_reg, z - n - 2, z)
    BY <1>2, <2>1, <2>3 DEF Captured, ReadInv, InFlight
  <2>5. last[faddr_reg] = IF z - n >= 4 THEN Word(faddr_reg, z - n - 3, z) ELSE Junk
    BY <2>1 DEF ReadInv, InFlight
  <2> QED  BY <2>2, <2>3, <2>4, <2>5 DEF Follows, Word, Junk
<1>4. CASE ~(At("stream_out_read") \/ oe_delay_cnt = OeDelay)
  <2>1. TailInv(faddr_reg, oe_delay_cnt + 1, bus[3].size)
    BY <1>1, <1>4 DEF IInv, TakeInv
  <2>2. bus[3].size \in Nat /\ oe_delay_cnt \in Nat
    BY DEF IInv, TypeOK, WordSet, OeDelay
  <2>3. fifo_wr = faddr_reg  BY <2>1 DEF TailInv
  <2>4. Captured = Word(faddr_reg, bus[3].size + 1 - (oe_delay_cnt + 1), bus[3].size)
    BY <1>2, <2>1 DEF Captured, TailInv
  <2>5. last[faddr_reg] = Word(faddr_reg, bus[3].size - (oe_delay_cnt + 1), bus[3].size)
    BY <2>1 DEF TailInv
  <2> QED  BY <2>2, <2>3, <2>4, <2>5 DEF Follows, Word
<1> QED  BY <1>3, <1>4

\* A word that is stored has room: it is one of a transfer that had.
LEMMA StoredHasRoom ==
  ASSUME IInv, fifo_wr \in FromHost
  PROVE  used[fifo_wr] + 1 <= Capacity[fifo_wr]
<1>1. Taking  BY TwoWays, Zenon DEF IInv, RestInv, Sockets, FromHost
<1>2. faddr_reg \in FromHost /\ faddr_reg \in Sockets
  BY <1>1, TwoWays DEF IInv, TakeInv
<1>3. used[faddr_reg] \in Nat /\ Capacity[faddr_reg] \in Nat
  BY <1>2, SocketSizes DEF IInv, ShapeInv
<1>4. CASE At("stream_out_read") \/ oe_delay_cnt = OeDelay
  <2> DEFINE n == left[faddr_reg].n
             z == left[faddr_reg].size
  <2>1. ReadInv(faddr_reg, n, z)  BY <1>1, <1>4 DEF IInv, TakeInv
  <2>2. z \in Nat /\ n \in Nat
    <3>1. z \in Nat  BY <1>2, <2>1, TransferSizes DEF ReadInv
    <3> QED  BY <1>2, <3>1 DEF IInv, TypeOK
  <2>3. fifo_wr = faddr_reg /\ z - n >= 3
    BY <1>2, <2>1, TwoWays DEF ReadInv, FromHost
  <2>4. used[faddr_reg] + z - (z - n - 3) <= Capacity[faddr_reg]
    BY <2>1, <2>3 DEF ReadInv
  <2> HIDE DEF n, z
  <2> QED  BY <1>3, <2>2, <2>3, <2>4
<1>5. CASE ~(At("stream_out_read") \/ oe_delay_cnt = OeDelay)
  <2>1. TailInv(faddr_reg, oe_delay_cnt + 1, bus[3].size)
    BY <1>1, <1>5 DEF IInv, TakeInv
  <2>2. oe_delay_cnt \in Nat  BY DEF IInv, TypeOK, OeDelay
  <2>3. fifo_wr = faddr_reg /\ used[faddr_reg] + (oe_delay_cnt + 1) <= Capacity[faddr_reg]
    BY <2>1 DEF TailInv
  <2> QED  BY <1>3, <2>2, <2>3
<1> QED  BY <1>4, <1>5

\* So that the FIFOs from the host never overflow.
LEMMA StepRoom ==
  ASSUME IInv, RoomInv, [Next]_vars
  PROVE  RoomInv'
<1> SUFFICES ASSUME NEW s \in FromHost
             PROVE  used'[s] <= Capacity[s]
  BY DEF RoomInv
<1>1. s \in Sockets /\ used[s] \in Nat /\ used[s] <= Capacity[s] /\ Capacity[s] \in Nat
  BY TwoWays, SocketSizes DEF IInv, ShapeInv, RoomInv
<1>2. CASE Clock
  <2>1. Fifos /\ ShapeInv  BY <1>2 DEF Clock, ClockWith, IInv
  <2>2. CASE fifo_wr = s
    <3>1. used'[s] = used[s] + 1  BY <2>1, <2>2, FifoStores
    <3> QED  BY <2>2, <3>1, StoredHasRoom
  <2>3. CASE fifo_wr # s
    <3>1. used'[s] = used[s]  BY <1>1, <2>1, <2>3, FifosKeep, TwoWays
    <3> QED  BY <1>1, <3>1
  <2> QED  BY <2>2, <2>3
<1>3. CASE \E t \in FromHost : HostSends(t) \/ Drain(t)
  BY <1>1, <1>3 DEF HostSends, Drain, IInv, ShapeInv
<1>4. CASE \E t \in ToHost : HostTakes(t) \/ Fill(t)
  BY <1>1, <1>4, TwoWays DEF HostTakes, Fill, IInv, ShapeInv
<1>5. CASE UNCHANGED vars
  BY <1>1, <1>5 DEF vars
<1> QED  BY <1>2, <1>3, <1>4, <1>5 DEF Next

\* A word that is written is the next one of its packet, and the last of a control
\* packet when pktend is.
LEMMA WordsFillBuffer ==
  ASSUME IInv, slwr
  PROVE  /\ faddr_reg \in ToHost /\ socket_fifo_q.sock = faddr_reg
         /\ room[faddr_reg] > 0
         /\ socket_fifo_q.idx = DataWords - room[faddr_reg] + 1
         /\ socket_fifo_q.idx <= PctWords[faddr_reg]
<1>1. faddr_reg \in ToHost /\ room[faddr_reg] \in Nat /\ room[faddr_reg] > 0
  BY WritesFit
<1>2. faddr_reg \in Sockets  BY <1>1, TwoWays
<1>3. CASE At("stream_in_write")
  <2> DEFINE j == last[faddr_reg].idx
  <2>1. WriteInv(faddr_reg, j)  BY <1>3, WordShown
  <2>2. j \in 0 .. PctWords[faddr_reg] - 1 /\ j >= 1 /\ j # 0
    BY <1>2, <2>1, SocketSizes DEF WriteInv
  <2>3. /\ room[faddr_reg] = DataWords - j + 1
        /\ socket_fifo_q = Word(faddr_reg, j, PctWords[faddr_reg])
    BY <2>1, <2>2 DEF WriteInv
  <2>4. socket_fifo_q.sock = faddr_reg /\ socket_fifo_q.idx = j
    BY <2>3 DEF Word
  <2> HIDE DEF j
  <2> QED  BY <1>1, <1>2, <2>2, <2>3, <2>4, Sizes, SocketSizes
<1>4. CASE At("stream_in_pktend")
  <2>1. /\ faddr_reg \in Control
        /\ socket_fifo_q = Word(faddr_reg, ControlWords, ControlWords)
        /\ room[faddr_reg] = DataWords - ControlWords + 1
    BY <1>4 DEF IInv, GiveInv
  <2>2. PctWords[faddr_reg] = ControlWords  BY <1>2, <2>1, SocketSizes
  <2>3. socket_fifo_q.sock = faddr_reg /\ socket_fifo_q.idx = ControlWords
    BY <2>1 DEF Word
  <2> QED  BY <1>1, <2>1, <2>2, <2>3, Sizes
<1>5. CASE At("idle")
  <2>1. /\ faddr_reg \notin Control
        /\ socket_fifo_q = Word(faddr_reg, DataWords, DataWords) /\ room[faddr_reg] = 1
    BY <1>5 DEF IInv, GiveInv
  <2>2. PctWords[faddr_reg] = DataWords  BY <1>2, <2>1, SocketSizes
  <2>3. socket_fifo_q.sock = faddr_reg /\ socket_fifo_q.idx = DataWords
    BY <2>1 DEF Word
  <2> QED  BY <1>1, <2>1, <2>2, <2>3, Sizes
<1> QED  BY <1>3, <1>4, <1>5 DEF IInv, RestInv, At

\* No transfer is longer than the room, the words or the buffer it was begun on.
LEMMA InvMeansFit ==
  ASSUME IInv, RoomInv
  PROVE  TransfersFit
<1>1. \A s \in FromHost : used[s] <= Capacity[s]  BY DEF RoomInv
<1>2. SocketFifoRd => used[faddr_reg] > 0  BY WordShown DEF SocketFifoRd, At
<1>3. PktEnd => slwr /\ socket_fifo_q.idx = ControlWords
  <2> SUFFICES ASSUME PktEnd
               PROVE  slwr /\ socket_fifo_q.idx = ControlWords
    OBVIOUS
  <2>1. slwr /\ socket_fifo_q = Word(faddr_reg, ControlWords, ControlWords)
    BY DEF PktEnd, At, IInv, GiveInv
  <2> QED  BY <2>1 DEF Word
<1> QED  BY <1>1, <1>2, <1>3, WordsFillBuffer DEF TransfersFit

\* The states and counters of slaveFIFO5b and what it sees of the FX3 stay in range:
\* the counter of the words written never passes the buffer, and the FX3's count of
\* the words it holds never goes below none.
THEOREM TypeCorrect == Spec => []TypeOK
<1>1. Init => IInv  BY InitInv
<1>2. IInv /\ [Next]_vars => IInv'  BY StepInv
<1>3. IInv => TypeOK  BY DEF IInv
<1> QED  BY <1>1, <1>2, <1>3, PTL DEF Spec

\* What the host sends comes to the FIFO of its socket word by word: nothing is
\* lost at the end of a read, and nothing is left of the socket served before.
THEOREM WordsInOrder == Spec => []HostWordsArriveInOrder
<1>1. Init => IInv  BY InitInv
<1>2. IInv /\ [Next]_vars => IInv'  BY StepInv
<1>3. IInv => HostWordsArriveInOrder  BY InvMeansOrder
<1> QED  BY <1>1, <1>2, <1>3, PTL DEF Spec

\* A transfer that was begun fits: the FIFOs neither overflow nor run empty, and
\* a buffer that goes to the host holds exactly one packet.
THEOREM TransfersAlwaysFit == Spec => []TransfersFit
<1>1. Init => IInv /\ RoomInv
  <2>1. ASSUME Init PROVE RoomInv
    <3>1. \A s \in FromHost : s \in Sockets /\ 0 <= Capacity[s]
      BY TwoWays, SocketSizes
    <3> QED  BY <2>1, <3>1 DEF Init, RoomInv
  <2> QED  BY <2>1, InitInv
<1>2. IInv /\ RoomInv /\ [Next]_vars => (IInv /\ RoomInv)'  BY StepInv, StepRoom
<1>3. IInv /\ RoomInv => TransfersFit  BY InvMeansFit
<1> QED  BY <1>1, <1>2, <1>3, PTL DEF Spec
=============================================================================
