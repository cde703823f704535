----------------------------- MODULE WfmPlayer ------------------------------
(***************************************************************************)
(* The waveform player: while wfm_load is set, the payload of the stream   *)
(* packets goes through a FIFO (wfm_wcmd_fsm turns each word into a write  *)
(* command), a command FIFO and DDR2_arb to the DDR2 memory; when the bit  *)
(* has fallen and the FIFO is empty, wfm_rcmd_fsm asks for all that was    *)
(* written, over and over, as long as wfm_play is set.                     *)
(*                                                                         *)
(* Three clocks: Bus is one of the FX3's, Wcmd one of tx_clk, Phy one of   *)
(* the memory controller's, which also clocks wfm_rcmd_fsm.  A FIFO        *)
(* between them is what was put in, the number got out, and copies of both *)
(* that reach the other side Lag clocks later.  A word is its number in    *)
(* the file.  Init is the state after the rise of wfm_load, which resets   *)
(* the FIFOs, the controller and, by its init_done, both state machines.   *)
(*                                                                         *)
(* The memory controller is external: it takes a request in any clock in   *)
(* which local_ready is high; the place of a write burst is that of its    *)
(* first word, and the words that follow belong to it until it is whole.   *)
(***************************************************************************)
EXTENDS Naturals, Sequences, SequencesExt

CONSTANTS
  Files,       \* a file is the payload words of each of its packets
  HeaderWords, \* words of a packet's header
  Lag,         \* clocks until one side of a FIFO sees the other's pointer
  WcmdLimit,   \* write commands in the FIFO at which wcmd_rdy falls
  RcmdSize,    \* read commands the FIFO holds
  AddrSpace,   \* addresses of the memory
  KeepsUp,     \* the bus brings the words of a packet no slower than tx_clk ticks
  KeepsReady   \* local_ready does not fall between two read commands

Burst == 2     \* lcl_burst_length
Addresses == 0 .. AddrSpace - 1
FileWords(f) == FoldFunction(+, 0, f)

ASSUME ConstantsOK ==
  /\ {HeaderWords, Lag, WcmdLimit, RcmdSize} \subseteq Nat \ {0}
  /\ {KeepsUp, KeepsReady} \subseteq BOOLEAN
  /\ \A f \in Files : FileWords(f) \in Burst .. AddrSpace - 1

\* Every packet but the last carries whole bursts, as packets filled with samples do.
ASSUME WholeBursts ==
  \A f \in Files : \A i \in 1 .. Len(f) - 1 : f[i] % Burst = 0

VARIABLES
  \* the host: its file, where in it the bus is, and its two register bits
  file, host, wfm_load, wfm_play,
  moved,       \* whether the bus has moved since the last Wcmd
  \* pct_payload_extrct and the FIFO behind it
  payload_size, wr_cnt, infifo,
  \* wfm_player's synchroniser and wfm_wcmd_fsm
  wfm_load_wcmd, wc,
  wcmds,       \* the write commands
  \* wfm_rcmd_fsm
  rc,
  rcmds,       \* the read commands not yet got out
  \* DDR2_arb and the memory
  arb, mem, burst, out

hostVars == <<file, host, wfm_load, wfm_play>>
inVars   == <<payload_size, wr_cnt>>
wcVars   == <<wfm_load_wcmd, wc>>
phyVars  == <<rc, rcmds, arb, mem, burst, out>>
vars     == <<hostVars, moved, inVars, infifo, wcVars, wcmds, phyVars>>

-----------------------------------------------------------------------------
(***************************************************************************)
(* The FIFOs: a copy of a counter for each clock of lag, the last the one  *)
(* the other side works with.                                              *)
(***************************************************************************)
Delayed(x) == [i \in 1 .. Lag |-> x]
Pass(x, copies) == <<x>> \o Front(copies)
Word(w, n) == IF n < Len(w) THEN w[n + 1] ELSE 0    \* show-ahead; 0 is not of the file

-----------------------------------------------------------------------------
(***************************************************************************)
(* The host sends the packets of the file, and wfm_load falls when all of  *)
(* it has passed the bus and is seen behind it, and the rise of wfm_load   *)
(* by wfm_rcmd_fsm: the bit is written through the control endpoint and    *)
(* the SPI, which takes longer.  wfm_play may change at any time.          *)
(***************************************************************************)
AllSent == host.pct > Len(file)
InPct == ~AllSent /\ host.idx > 0
PctWords == HeaderWords + file[host.pct]

\* Words of the file that have been sent.
Sent == FoldFunction(+, 0, SubSeq(file, 1, host.pct - 1))
        + (IF host.idx > HeaderWords THEN host.idx - HeaderWords ELSE 0)

LoadEnds ==
  /\ wfm_load /\ AllSent /\ infifo.seen[Lag] = Len(infifo.words) /\ rc.load[3]
  /\ wfm_load' = FALSE
  /\ UNCHANGED <<file, host, wfm_play, moved, inVars, infifo, wcVars, wcmds, phyVars>>

PlayBit ==
  /\ wfm_play' = ~wfm_play
  /\ UNCHANGED <<file, host, wfm_load, moved, inVars, infifo, wcVars, wcmds, phyVars>>

-----------------------------------------------------------------------------
(***************************************************************************)
(* pct_payload_extrct: a header brings the length of the payload after it. *)
(***************************************************************************)
LastOfPct == payload_size + HeaderWords - 1

PayloadValid == wr_cnt > HeaderWords - 1 /\ wr_cnt <= LastOfPct

WrCnt == wr_cnt' = IF wr_cnt < LastOfPct THEN wr_cnt + 1 ELSE 0

Bus ==
  /\ ~AllSent
  /\ host' = IF host.idx + 1 < PctWords THEN [host EXCEPT !.idx = @ + 1]
             ELSE [pct |-> host.pct + 1, idx |-> 0]
  /\ moved' = TRUE
  /\ WrCnt
  /\ payload_size' = IF wr_cnt = 0 THEN file[host.pct] ELSE payload_size
  /\ infifo' = IF PayloadValid
               THEN [infifo EXCEPT !.words = Append(@, IF host.idx >= HeaderWords THEN Sent + 1 ELSE 0)]
               ELSE infifo
  /\ UNCHANGED <<file, wfm_load, wfm_play, wcVars, wcmds, phyVars>>

-----------------------------------------------------------------------------
(***************************************************************************)
(* wfm_wcmd_fsm and the synchroniser of wfm_load before it.  wc.load is    *)
(* wfm_load_reg0 and 1, wc.last wr_address_latch.                          *)
(***************************************************************************)
InUsed == infifo.seen[Lag] - infifo.got
WcmdRdy == Len(wcmds.cmds) - wcmds.gone[Lag] < WcmdLimit

WritesCmd == wc.state \in {"burst_wr", "wr"}
LoadFell == ~wc.load[1] /\ wc.load[2]

\* A pair of words is written as a burst; a single word only when no other is there
\* at two clocks in a row.
NextWcmd ==
  CASE wc.state = "idle" -> IF wfm_load_wcmd[3] THEN "check_burst" ELSE "idle"
    [] wc.state = "check_burst" ->
         IF ~WcmdRdy THEN "idle"
         ELSE IF InUsed >= Burst THEN "burst_wr" ELSE IF InUsed = Burst - 1 THEN "check_wr" ELSE "idle"
    [] wc.state = "check_wr" -> IF InUsed = Burst - 1 /\ WcmdRdy THEN "wr" ELSE "idle"
    [] wc.state = "burst_wr" ->
         IF wc.cnt # Burst - 1 \/ (InUsed > Burst * 2 /\ WcmdRdy) THEN "burst_wr" ELSE "idle"
    [] wc.state = "wr" -> "idle"

LoadWcmd == IF wfm_load_wcmd[2] THEN TRUE ELSE IF InUsed = 0 THEN FALSE ELSE wfm_load_wcmd[3]

WcmdRegs ==
  /\ wfm_load_wcmd' = <<wfm_load, wfm_load_wcmd[1], LoadWcmd>>
  /\ wc' = [state |-> NextWcmd,
            load  |-> <<wfm_load_wcmd[3], wc.load[1]>>,
            cnt   |-> IF wc.state = "burst_wr" THEN (wc.cnt + 1) % Burst ELSE 0,
            addr  |-> IF LoadFell THEN 0 ELSE IF WritesCmd THEN (wc.addr + 1) % AddrSpace ELSE wc.addr,
            last  |-> IF LoadFell THEN wc.addr ELSE wc.last]

Wcmd ==
  /\ KeepsUp /\ InPct => moved
  /\ moved' = FALSE
  /\ WcmdRegs
  /\ infifo' = [infifo EXCEPT !.got  = IF WritesCmd /\ InUsed > 0 THEN @ + 1 ELSE @,
                              !.seen = Pass(Len(infifo.words), @)]
  /\ wcmds' = [wcmds EXCEPT
                 !.cmds = IF WritesCmd
                          THEN Append(@, [brst |-> wc.state = "burst_wr", addr |-> wc.addr,
                                          data |-> Word(infifo.words, infifo.got)])
                          ELSE @,
                 !.gone = Pass(wcmds.got, @)]
  /\ UNCHANGED <<hostVars, inVars, phyVars>>

-----------------------------------------------------------------------------
(***************************************************************************)
(* wfm_rcmd_fsm.  rc.load and rc.play are the three stages of the bits it  *)
(* synchronises, rc.last those of wcmd_last_addr.                          *)
(***************************************************************************)
RcmdUsed == Len(rcmds.cmds) + Len(SelectSeq(rcmds.gone, LAMBDA g : g))

RcmdRdy_AtFull == RcmdUsed <= RcmdSize
RcmdRdy == RcmdUsed < RcmdSize

RcmdWr == rc.state \in {"burst_rd", "rd"} /\ RcmdRdy
LoadDone == rc.load[3] /\ ~rc.load[2]
EvenAddr == rc.latch - (rc.latch % 2)

AtEnd == rc.addr >= (EvenAddr + AddrSpace - 2) % AddrSpace

Again == IF rc.play[3] THEN "burst_rd" ELSE "check_rdy"

NextRcmd ==
  CASE rc.state = "idle" -> IF LoadDone THEN "check_rdy" ELSE "idle"
    [] rc.state = "check_rdy" -> IF RcmdRdy THEN Again ELSE "check_rdy"
    [] rc.state = "burst_rd" ->
         IF ~RcmdRdy THEN "burst_rd"
         ELSE IF AtEnd THEN IF rc.latch % 2 = 1 THEN "rd" ELSE "last_burst"
         ELSE IF rc.play[3] THEN "burst_rd" ELSE "rd_stop"
    [] rc.state \in {"last_burst", "rd"} -> IF RcmdRdy THEN Again ELSE rc.state
    [] rc.state = "rd_stop" ->
         IF ~rc.load[3] /\ rc.load[2] THEN "idle" ELSE IF rc.play[3] THEN "burst_rd" ELSE "rd_stop"

RdAddr ==
  IF RcmdWr THEN IF rc.state = "burst_rd" THEN (rc.addr + 2) % AddrSpace ELSE 0
  ELSE IF rc.state = "last_burst" THEN 0 ELSE rc.addr

RcmdRegs ==
  rc' = [state |-> NextRcmd,
         load  |-> <<wc.load[2], rc.load[1], rc.load[2]>>,
         play  |-> <<wfm_play, rc.play[1], rc.play[2]>>,
         last  |-> <<wc.last, rc.last[1]>>,
         latch |-> IF LoadDone THEN rc.last[2] ELSE rc.latch,
         addr  |-> RdAddr]

-----------------------------------------------------------------------------
(***************************************************************************)
(* DDR2_arb.  flag is the burst bit at the output of the write command     *)
(* FIFO, which is anything when the FIFO is empty.                         *)
(***************************************************************************)
WUsed == wcmds.seen[Lag] - wcmds.got
REmpty == Len(rcmds.cmds) = Len(SelectSeq(rcmds.fresh, LAMBDA n : n))

Flags == IF WUsed > 0 THEN {wcmds.cmds[wcmds.got + 1].brst} ELSE BOOLEAN

WriteReq == arb.state \in {"burst_wr", "wr", "hold_wr"} /\ WUsed > 0
ReadReq  == arb.state \in {"burst_rd", "rd_hold"} /\ ~REmpty

BurstBegin == (arb.state = "burst_wr" /\ WUsed > 0) \/ (arb.state = "burst_rd" /\ ~REmpty)

LocalAddr ==
  IF ~BurstBegin THEN arb.addr_reg
  ELSE IF arb.state = "burst_wr" THEN wcmds.cmds[wcmds.got + 1].addr ELSE rcmds.cmds[1].addr

LocalSize(flag) ==
  IF IF arb.state \in {"burst_wr", "wr", "hold_wr"} THEN flag ELSE ~REmpty /\ rcmds.cmds[1].brst
  THEN Burst ELSE 1

\* Reading goes on when there is a command, nothing to write, and room for the words.
ReadMore(room) == ~REmpty /\ WUsed = 0 /\ room

MayWrite(flag) == WUsed > 0 /\ (flag => WUsed >= Burst)

NextArb(ready, room, flag) ==
  CASE arb.state = "idle" ->
         IF ready /\ MayWrite(flag) THEN "burst_wr"
         ELSE IF ready /\ ReadMore(room) THEN "burst_rd" ELSE "idle"
    [] arb.state = "burst_wr" ->
         IF flag THEN "wr"
         ELSE IF ~ready THEN "hold_wr" ELSE IF WUsed > 0 THEN "burst_wr" ELSE "idle"
    [] arb.state = "hold_wr" ->
         IF ~ready THEN "hold_wr" ELSE IF WUsed > 0 /\ ~flag THEN "burst_wr" ELSE "idle"
    [] arb.state = "wr" ->
         IF ~(ready /\ arb.wr_cnt = Burst - 1) THEN "wr"
         ELSE IF flag /\ WUsed > Burst THEN "burst_wr" ELSE "idle"
    [] arb.state \in {"burst_rd", "rd_hold"} ->
         IF ~ready THEN "rd_hold" ELSE IF ReadMore(room) THEN "burst_rd" ELSE "idle"

WrCount(ready) ==
  IF ready /\ WriteReq THEN (arb.wr_cnt + 1) % Burst
  ELSE IF arb.state = "idle" THEN 0 ELSE arb.wr_cnt

ArbRegs(ready, room, flag) ==
  arb' = [state |-> NextArb(ready, room, flag), wr_cnt |-> WrCount(ready), addr_reg |-> LocalAddr]

-----------------------------------------------------------------------------
(***************************************************************************)
(* The memory.  burst is where the next word of a write burst goes and how *)
(* many are still to come.                                                 *)
(***************************************************************************)
WriteAt(flag) ==
  IF burst.left = 0 THEN [addr |-> LocalAddr, left |-> LocalSize(flag)] ELSE burst

MemWrite(ready, flag) ==
  LET b == WriteAt(flag) IN
  /\ mem' = IF ready /\ WriteReq THEN [mem EXCEPT ![b.addr] = wcmds.cmds[wcmds.got + 1].data] ELSE mem
  /\ burst' = IF ~WriteReq THEN burst
              ELSE IF ready THEN [addr |-> (b.addr + 1) % AddrSpace, left |-> b.left - 1]
              ELSE b

MemRead(ready, flag) ==
  out' = IF ready /\ ReadReq
         THEN [i \in 1 .. LocalSize(flag) |-> mem[(LocalAddr + i - 1) % AddrSpace]]
         ELSE out

CmdFifos(ready) ==
  /\ wcmds' = [wcmds EXCEPT !.got = IF ready /\ WriteReq THEN @ + 1 ELSE @,
                            !.seen = Pass(Len(wcmds.cmds), @)]
  /\ rcmds' = [cmds  |-> (IF ready /\ ReadReq THEN Tail(rcmds.cmds) ELSE rcmds.cmds)
                         \o (IF RcmdWr THEN <<[brst |-> rc.state = "burst_rd", addr |-> rc.addr]>>
                             ELSE <<>>),
               fresh |-> Pass(RcmdWr, rcmds.fresh),
               gone  |-> Pass(ready /\ ReadReq, rcmds.gone)]

\* local_ready may be low at any time, save, with KeepsReady, in the clock after a
\* read command when the next is not there yet.
MayStall == KeepsReady => ~(arb.state = "burst_rd" /\ REmpty)

PhyWith(ready, room, flag) ==
  /\ RcmdRegs /\ ArbRegs(ready, room, flag)
  /\ MemWrite(ready, flag) /\ MemRead(ready, flag) /\ CmdFifos(ready)
  /\ UNCHANGED <<hostVars, moved, inVars, infifo, wcVars>>

\* room: the FIFO behind the memory holds fewer than 128 words.
Phy == \E ready \in BOOLEAN, room \in BOOLEAN, flag \in Flags :
         (ready \/ MayStall) /\ PhyWith(ready, room, flag)

Init ==
  /\ file \in Files /\ host = [pct |-> 1, idx |-> 0]
  /\ wfm_load = TRUE /\ wfm_play \in BOOLEAN /\ moved = FALSE
  /\ payload_size = AddrSpace /\ wr_cnt = 0
  /\ infifo = [words |-> <<>>, got |-> 0, seen |-> Delayed(0)]
  /\ wfm_load_wcmd = <<FALSE, FALSE, FALSE>>
  /\ wc = [state |-> "idle", load |-> <<FALSE, FALSE>>, cnt |-> 0, addr |-> 0, last |-> 0]
  /\ wcmds = [cmds |-> <<>>, got |-> 0, seen |-> Delayed(0), gone |-> Delayed(0)]
  /\ rc = [state |-> "idle", load |-> <<FALSE, FALSE, FALSE>>, play |-> <<FALSE, FALSE, FALSE>>,
           last |-> <<0, 0>>, latch |-> 0, addr |-> 0]
  /\ rcmds = [cmds |-> <<>>, fresh |-> Delayed(FALSE), gone |-> Delayed(FALSE)]
  /\ arb = [state |-> "idle", wr_cnt |-> 0, addr_reg |-> 0]
  /\ mem = [a \in Addresses |-> 0] /\ burst = [addr |-> 0, left |-> 0] /\ out = <<>>

Next == LoadEnds \/ PlayBit \/ Bus \/ Wcmd \/ Phy
Spec == Init /\ [][Next]_vars

\* The clocks run and the file is sent; the memory is ready, and what is read is
\* taken, again and again.  The host need not let it play.
Ready == \E flag \in Flags : PhyWith(TRUE, TRUE, flag)
FairSpec ==
  /\ Spec
  /\ WF_vars(LoadEnds) /\ WF_vars(Bus) /\ WF_vars(Wcmd) /\ WF_vars(Ready)

-----------------------------------------------------------------------------
(***************************************************************************)
(* Properties.                                                             *)
(***************************************************************************)
Words == 0 .. AddrSpace

TypeOK ==
  /\ host \in [pct : 1 .. Len(file) + 1, idx : Nat] /\ payload_size \in Words
  /\ wr_cnt \in 0 .. AddrSpace + HeaderWords
  /\ infifo.words \in Seq(Words) /\ infifo.got \in 0 .. Len(infifo.words)
  /\ wc.state \in {"idle", "check_burst", "check_wr", "burst_wr", "wr"}
  /\ {wc.addr, wc.last, rc.addr, rc.latch, arb.addr_reg, burst.addr} \subseteq Addresses
  /\ Len(wcmds.cmds) - wcmds.got \in 0 .. WcmdLimit + 2 * Burst
  /\ rc.state \in {"idle", "check_rdy", "burst_rd", "rd", "last_burst", "rd_stop"}
  /\ Len(rcmds.cmds) \in 0 .. RcmdSize
  /\ arb.state \in {"idle", "burst_wr", "hold_wr", "wr", "burst_rd", "rd_hold"}
  /\ arb.wr_cnt \in 0 .. Burst - 1 /\ burst.left \in 0 .. Burst
  /\ mem \in [Addresses -> Words]

\* What is read from the memory is the file, from its first word to its last and
\* over again, and nothing is read while it is being loaded: no word is written
\* to a wrong place or missed, whatever the bursts it came in, reading starts
\* after the last of them, turns at the last word of files of even and odd
\* length, and goes on where it was when it is stopped.
Player == INSTANCE WaveformPlayer WITH loaded <- Sent

=============================================================================
