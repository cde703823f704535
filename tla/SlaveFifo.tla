------------------------------ MODULE SlaveFifo ------------------------------
(***************************************************************************)
(* slaveFIFO5b: one state machine moves the words of all four USB          *)
(* endpoints over one bus between the FX3 controller and the FIFOs of the  *)
(* FPGA.  It visits the four threads in turn, waits until the FX3's flags  *)
(* belong to the thread it has just addressed, and starts a transfer when  *)
(* the FX3 has a DMA buffer (flaga, flagb) and the FIFO has room for, or   *)
(* holds, a whole packet.  A transfer is not counted: it ends when flagb   *)
(* falls, as many words before the end of the buffer as are under way, or, *)
(* for the control packets to the host, after their length, with pktend.   *)
(* One step of Clock is one rising edge of FX3_PCLK.  Signals that are low *)
(* when active are TRUE when active here.                                  *)
(*                                                                         *)
(* Sockets 0 and 1 carry stream and control words from the host, 2 and 3   *)
(* stream and control words to it.  A word is [sock, idx, size], the       *)
(* idx-th word of a transfer of size words of that socket.                 *)
(*                                                                         *)
(* The FX3 is external.  What is assumed of it are the figures that the    *)
(* comments of slaveFIFO5b give: flags are those of the new thread         *)
(* FlagLatency clocks after the address changed, the watermark of flagb is *)
(* ReadMark words when the FX3 is read and WriteMark words when written;   *)
(* and that a word is on the bus three clocks after the read of it.        *)
(***************************************************************************)
EXTENDS Naturals

CONSTANTS
  DataWords,     \* words of a data packet, and of the FX3's DMA buffers
  ControlWords,  \* words of a control packet
  HostSizes,     \* words of the transfers the host may send to sockets 0 and 1
  Capacity,      \* of the four FIFOs, in words
  Portion        \* words that turn up at once in FIFOs 2 and 3

Sockets == 0 .. 3
FromHost == {0, 1}
ToHost == {2, 3}
Control == {1, 3}
PctWords == [s \in Sockets |-> IF s \in Control THEN ControlWords ELSE DataWords]

FlagLatency == 3
ReadMark == 3
WriteMark == 2

ASSUME ConstantsOK ==
  /\ DataWords \in Nat /\ ControlWords \in 3 .. DataWords - WriteMark - 1
  /\ \A s \in FromHost : HostSizes[s] \subseteq ReadMark + 1 .. PctWords[s]
  /\ \A s \in Sockets : Capacity[s] \in Nat /\ Capacity[s] >= PctWords[s]
  /\ \A s \in ToHost : Portion[s] \in 1 .. PctWords[s]

Junk == [sock |-> 4, idx |-> 0, size |-> 0]
Word(s, i, n) == [sock |-> s, idx |-> i, size |-> n]
NoTransfer == [n |-> 0, size |-> 0]

VARIABLES
  \* the FX3: the words of the host's transfer not yet read (n of size, 0 of 0 when
  \* there is none), the free words of its buffer for a socket to the host (0: no
  \* buffer), clocks since the address changed, words on their way to the bus
  left, room, addr_age, bus,
  \* slaveFIFO5b
  current_state, thread_addr_cnt, faddr_reg, flg_latency_cnt, oe_delay_cnt,
  slwr_cnt, flaga_d, flagb_d, slrd, slwr, socket_fifo_q, fifo_wr,
  \* the FIFOs: words in them, and the word that left (2, 3) or came (0, 1) last,
  \* Junk when that was the last of a packet or transfer
  used, last

fx3Vars  == <<left, room, addr_age, bus>>
gpifVars == <<current_state, thread_addr_cnt, faddr_reg, flg_latency_cnt,
              oe_delay_cnt, slwr_cnt, flaga_d, flagb_d, slrd, slwr,
              socket_fifo_q, fifo_wr>>
vars     == <<fx3Vars, gpifVars, used, last>>

-----------------------------------------------------------------------------
(***************************************************************************)
(* The other sides: the host, and the logic that empties FIFOs 0 and 1 and *)
(* fills FIFOs 2 and 3.                                                    *)
(***************************************************************************)
HostSends(s) ==
  /\ left[s].n = 0
  /\ \E n \in HostSizes[s] : left' = [left EXCEPT ![s] = [n |-> n, size |-> n]]
  /\ UNCHANGED <<room, addr_age, bus, gpifVars, used, last>>

HostTakes(s) ==
  /\ room[s] = 0
  /\ room' = [room EXCEPT ![s] = DataWords]
  /\ UNCHANGED <<left, addr_age, bus, gpifVars, used, last>>

Drain(s) ==
  /\ used[s] > 0
  /\ used' = [used EXCEPT ![s] = 0]
  /\ UNCHANGED <<fx3Vars, gpifVars, last>>

Fill(s) ==
  /\ used[s] + Portion[s] <= Capacity[s]
  /\ used' = [used EXCEPT ![s] = @ + Portion[s]]
  /\ UNCHANGED <<fx3Vars, gpifVars, last>>

-----------------------------------------------------------------------------
(***************************************************************************)
(* The FX3.                                                                *)
(***************************************************************************)
\* While the address is new the flags may be those of either thread, or change.
Flags(fa, fb) ==
  \/ addr_age < FlagLatency
  \/ faddr_reg \in FromHost /\ fa = (left[faddr_reg].n > 0) /\ fb = (left[faddr_reg].n > ReadMark)
  \/ faddr_reg \in ToHost /\ fa = (room[faddr_reg] > 0) /\ fb = (room[faddr_reg] > WriteMark)

Fx3Read ==
  IF slrd[1] /\ faddr_reg \in FromHost /\ left[faddr_reg].n > 0
  THEN LET l == left[faddr_reg] IN
       /\ left' = [left EXCEPT ![faddr_reg] =
                      IF l.n = 1 THEN NoTransfer ELSE [l EXCEPT !.n = @ - 1]]
       /\ bus' = <<Word(faddr_reg, l.size - l.n + 1, l.size), bus[1], bus[2]>>
  ELSE left' = left /\ bus' = <<Junk, bus[1], bus[2]>>

PktEnd == current_state = "stream_in_pktend"

Fx3Written ==
  room' = IF slwr /\ faddr_reg \in ToHost /\ room[faddr_reg] > 0
          THEN [room EXCEPT ![faddr_reg] = IF PktEnd THEN 0 ELSE @ - 1] ELSE room

-----------------------------------------------------------------------------
(***************************************************************************)
(* slaveFIFO5b.                                                            *)
(***************************************************************************)
\* Sockets 0 and 1 are never ready while their FIFO is in reset, which it is not here.
SocketFifoRdy(s) ==
  IF s \in FromHost THEN used[s] <= Capacity[s] - PctWords[s] ELSE used[s] >= PctWords[s]

Sloe == current_state \in {"stream_out_read", "stream_out_read_oe_delay"}
SocketFifoRd == current_state = "stream_in_write"

FlgLatencyWait_One == 1
FlgLatencyWait == 4

OeDelay_One == 1
OeDelay == 3

CountWrites_KeepOn == slwr_cnt' = IF slwr THEN slwr_cnt + 1 ELSE slwr_cnt
CountWrites == slwr_cnt' = IF slwr THEN slwr_cnt + 1 ELSE 0

Counters ==
  /\ flg_latency_cnt' = IF current_state = "wait_flg_latency" THEN flg_latency_cnt + 1 ELSE 0
  /\ oe_delay_cnt' = IF current_state = "idle" THEN OeDelay
                     ELSE IF current_state = "stream_out_read_oe_delay" /\ oe_delay_cnt > 0
                          THEN oe_delay_cnt - 1 ELSE oe_delay_cnt
  /\ CountWrites

Address ==
  IF current_state = "prep_thread_addr"
  THEN /\ faddr_reg' = thread_addr_cnt
       /\ thread_addr_cnt' = (thread_addr_cnt + 1) % 4
       /\ addr_age' = 0
  ELSE /\ UNCHANGED <<faddr_reg, thread_addr_cnt>>
       /\ addr_age' = IF addr_age < FlagLatency THEN addr_age + 1 ELSE addr_age

Go(from, to) == current_state = from /\ current_state' = to

ControlEnds == slwr_cnt = ControlWords - 2 /\ faddr_reg \in Control

WaitFlagA_Insist == Go("wait_flagA", IF flaga_d THEN "wait_flagB" ELSE "wait_flagA")
WaitFlagA == Go("wait_flagA", IF flaga_d THEN "wait_flagB" ELSE "idle")

\* flagb itself, not flagb_d, ends a write.
StreamFsm(fb) ==
  \/ Go("idle", "prep_thread_addr")
  \/ Go("prep_thread_addr", "wait_flg_latency")
  \/ Go("wait_flg_latency", IF flg_latency_cnt >= FlgLatencyWait THEN "wait_flagA"
                            ELSE "wait_flg_latency")
  \/ WaitFlagA
  \/ Go("wait_flagB", IF ~flagb_d THEN "wait_flagB"
                      ELSE IF ~SocketFifoRdy(faddr_reg) THEN "idle"
                      ELSE IF faddr_reg \in ToHost THEN "stream_in_write" ELSE "stream_out_read")
  \/ Go("stream_in_write", IF ~fb THEN "idle"
                           ELSE IF ControlEnds THEN "stream_in_pktend" ELSE "stream_in_write")
  \/ Go("stream_in_pktend", "idle")
  \/ Go("stream_out_read", IF flagb_d THEN "stream_out_read" ELSE "stream_out_read_oe_delay")
  \/ Go("stream_out_read_oe_delay", IF oe_delay_cnt = 0 THEN "idle" ELSE "stream_out_read_oe_delay")

\* slrd[1] is the pin and slrd_streamOUT_n_d, slrd[2] slrd_streamOUT_n_d1 and
\* slrd[3] socket_fifo_wr; fifo_wr is the socket whose FIFO is written, 4 for none.
OutRegs ==
  /\ slrd' = <<current_state = "stream_out_read", slrd[1], slrd[2]>>
  /\ fifo_wr' = IF slrd[3] THEN faddr_reg ELSE 4
  /\ slwr' = SocketFifoRd

-----------------------------------------------------------------------------
(***************************************************************************)
(* The FIFOs: 0 and 1 store what is on the bus, which is nothing the FX3   *)
(* sent unless its output is enabled; 2 and 3 are show-ahead.              *)
(***************************************************************************)
Captured == IF Sloe THEN bus[3] ELSE Junk

ShownAhead(s) ==
  IF used[s] = 0 THEN Junk
  ELSE Word(s, last[s].idx + 1, PctWords[s])

UnlessEnd(w) == IF w.idx = w.size THEN Junk ELSE w

Fifos ==
  /\ used' = [s \in Sockets |->
                IF s \in FromHost /\ fifo_wr = s THEN used[s] + 1
                ELSE IF s \in ToHost /\ SocketFifoRd /\ faddr_reg = s /\ used[s] > 0 THEN used[s] - 1
                ELSE used[s]]
  /\ last' = [s \in Sockets |->
                IF s \in FromHost /\ fifo_wr = s THEN UnlessEnd(Captured)
                ELSE IF s \in ToHost /\ SocketFifoRd /\ faddr_reg = s THEN UnlessEnd(ShownAhead(s))
                ELSE last[s]]
  /\ socket_fifo_q' = IF SocketFifoRd THEN ShownAhead(faddr_reg) ELSE Junk

ClockWith(fa, fb) ==
  /\ Flags(fa, fb) /\ flaga_d' = fa /\ flagb_d' = fb
  /\ StreamFsm(fb) /\ Counters /\ Address /\ OutRegs
  /\ Fx3Read /\ Fx3Written /\ Fifos

Clock == \E fa \in BOOLEAN, fb \in BOOLEAN : ClockWith(fa, fb)

Init ==
  /\ left = [s \in FromHost |-> NoTransfer]
  /\ room = [s \in ToHost |-> DataWords]
  /\ addr_age = 0 /\ bus = <<Junk, Junk, Junk>>
  /\ current_state = "idle" /\ thread_addr_cnt = 0 /\ faddr_reg = 0
  /\ flg_latency_cnt = 0 /\ oe_delay_cnt = 0 /\ slwr_cnt = 0
  /\ flaga_d = FALSE /\ flagb_d = FALSE
  /\ slrd = <<FALSE, FALSE, FALSE>> /\ slwr = FALSE
  /\ socket_fifo_q = Junk /\ fifo_wr = 4
  /\ used = [s \in Sockets |-> 0] /\ last = [s \in Sockets |-> Junk]

Next ==
  \/ Clock
  \/ \E s \in FromHost : HostSends(s) \/ Drain(s)
  \/ \E s \in ToHost : HostTakes(s) \/ Fill(s)

Spec == Init /\ [][Next]_vars

\* The clock never stops, the host takes what it is given, and the FIFOs filled
\* by the host are emptied.  Nothing says that the host sends, or that there is
\* anything to send to it.
FairSpec ==
  /\ Spec /\ WF_vars(Clock)
  /\ \A s \in FromHost : WF_vars(Drain(s))
  /\ \A s \in ToHost : WF_vars(HostTakes(s))

-----------------------------------------------------------------------------
(***************************************************************************)
(* Properties.                                                             *)
(***************************************************************************)
WordSet == [sock : 0 .. 4, idx : 0 .. DataWords, size : 0 .. DataWords]

TypeOK ==
  /\ \A s \in FromHost : left[s].size \in HostSizes[s] \cup {0} /\ left[s].n \in 0 .. left[s].size
  /\ \A s \in ToHost : room[s] \in 0 .. DataWords
  /\ current_state \in {"idle", "prep_thread_addr", "wait_flg_latency", "wait_flagA",
                        "wait_flagB", "stream_in_write", "stream_in_pktend",
                        "stream_out_read", "stream_out_read_oe_delay"}
  /\ {thread_addr_cnt, faddr_reg} \subseteq Sockets
  /\ flg_latency_cnt \in 0 .. FlgLatencyWait + 1 /\ oe_delay_cnt \in 0 .. OeDelay
  /\ slwr_cnt \in 0 .. DataWords /\ addr_age \in 0 .. FlagLatency
  /\ fifo_wr \in FromHost \cup {4}
  /\ socket_fifo_q \in WordSet /\ bus \in [1 .. 3 -> WordSet]
  /\ last \in [Sockets -> WordSet]

Follows(w, v) ==
  v.idx = w.idx + 1 /\ (w # Junk => v.size = w.size)

\* What the host sends to a socket comes to the FIFO of that socket, word by
\* word: a read ends in time for the FX3's buffer to be empty, every word under
\* way is still stored, its FIFO still addressed and the bus still driven when
\* it arrives, and what was addressed before leaves nothing behind.
HostWordsArriveInOrder ==
  fifo_wr \in FromHost =>
    Captured.sock = fifo_wr /\ Follows(last[fifo_wr], Captured)

\* A transfer that was begun is never too long: FIFOs 0 and 1 have room for all
\* of it, and FIFOs 2 and 3 have all the words that are read from them, although
\* the FIFO is looked at only before the first word.  And a buffer that goes to
\* the host holds one packet, neither more nor less: a word is written only when
\* there is room for it, the n-th word of a packet in the n-th place, a data
\* packet fills the buffer, and pktend comes with the last word of a control packet.
TransfersFit ==
  /\ \A s \in FromHost : used[s] <= Capacity[s]
  /\ SocketFifoRd => used[faddr_reg] > 0
  /\ slwr => /\ faddr_reg \in ToHost /\ socket_fifo_q.sock = faddr_reg
             /\ room[faddr_reg] > 0
             /\ socket_fifo_q.idx = DataWords - room[faddr_reg] + 1
             /\ socket_fifo_q.idx <= PctWords[faddr_reg]
  /\ PktEnd => slwr /\ socket_fifo_q.idx = ControlWords

\* No endpoint starves, whatever the others do or do not: what the host sent is
\* read, and a packet that is ready for the host is written.
EverySocketServed ==
  /\ \A s \in FromHost : left[s].n > 0 ~> left[s].n = 0
  /\ \A s \in ToHost : used[s] >= PctWords[s] ~> (slwr /\ faddr_reg = s)
=============================================================================
