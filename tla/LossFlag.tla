------------------------------- MODULE LossFlag -------------------------------
(***************************************************************************)
(* The flag that tells the host of TX packets thrown away.  tx_path_top    *)
(* sets it, on the transmit clock, when a buffer or the one-packet FIFO is *)
(* cleared; rx_path_top, on the receive clock, puts it into the header of  *)
(* each RX packet; and the news that a header was captured goes back to    *)
(* clear it.  Both signals go through two synchronising flip-flops.  So it *)
(* is cleared some clocks after the header looked at it, and a loss that   *)
(* sets it in between is never told.  A step is an edge of one of the two  *)
(* clocks, which come from different PLLs: neither ticks more than Ratio   *)
(* times between two ticks of the other.                                   *)
(*                                                                         *)
(* txpct_loss_clr is the register bit that the host may write for the same *)
(* purpose.  It reaches rx_path_top and nothing there reads it.            *)
(***************************************************************************)
EXTENDS Integers

CONSTANTS
  Ratio,      \* of the clocks, see above
  PctClocks,  \* receive clocks from a header to the end of its packet, at least,
  GapClocks,  \* and from there to the next header
  Settle      \* transmit clocks that a clear command may take

ASSUME ConstantsOK ==
  /\ Ratio \in Nat \ {0} /\ PctClocks \in Nat /\ GapClocks \in Nat
  /\ Settle \in Nat \ {0}

VARIABLES
  \* transmit clock: in_pct_clr_flag of packets2data, the flag, synchronised clear
  in_pct_clr_flag, in_pct_clr_flag_reg, pct_loss_flg, clr_sync, clr_sync_reg,
  \* receive clock: synchronised flag, whether pct_state is "01" and for how many
  \* clocks it stays as it is, pct_hdr_captured
  loss_sync, in_pct, dwell, pct_hdr_captured,
  txpct_loss_clr,
  ticks,      \* transmit ticks since the last receive tick, or minus the reverse
  \* history: a loss since the last header that told of one; what the last header
  \* told; transmit clocks since that header, since the flag rose, and since the
  \* last clear command (Settle + 1 when a packet was lost after it)
  fresh, told, hdr_age, loss_age, cmd_age

txVars  == <<in_pct_clr_flag, in_pct_clr_flag_reg, pct_loss_flg, clr_sync, clr_sync_reg>>
rxVars  == <<loss_sync, in_pct, dwell, pct_hdr_captured>>
history == <<fresh, told, hdr_age, loss_age, cmd_age>>
vars    == <<txVars, rxVars, txpct_loss_clr, ticks, history>>

-----------------------------------------------------------------------------
(***************************************************************************)
(* The windows.  A header captured at one receive clock is known at the    *)
(* next, and three transmit clocks later the flag falls; a flag that rises *)
(* is in a header captured at the third receive clock from there.  Neither *)
(* can be one clock shorter.                                               *)
(***************************************************************************)
HdrWindow == Ratio + 2
LossWindow == HdrWindow + 2 * Ratio - 1

Older(age, limit) == IF age <= limit THEN age + 1 ELSE age

Lost_Level == in_pct_clr_flag
Lost == in_pct_clr_flag /\ ~in_pct_clr_flag_reg

Cleared_Level == clr_sync[2]
Cleared == clr_sync[2] /\ ~clr_sync_reg

\* A clock edge of iq_rdclk; nothing is assumed of the times of the losses.
TxClock ==
  /\ ticks < Ratio
  /\ ticks' = IF ticks > 0 THEN ticks + 1 ELSE 1
  /\ in_pct_clr_flag' \in BOOLEAN /\ in_pct_clr_flag_reg' = in_pct_clr_flag
  /\ clr_sync' = <<pct_hdr_captured, clr_sync[1]>> /\ clr_sync_reg' = clr_sync[2]
  /\ pct_loss_flg' = (Lost \/ (pct_loss_flg /\ ~Cleared))
  /\ fresh' = (fresh \/ (in_pct_clr_flag /\ ~in_pct_clr_flag_reg))
  /\ hdr_age' = Older(hdr_age, HdrWindow)
  /\ loss_age' = IF pct_loss_flg THEN Older(loss_age, LossWindow) ELSE 0
  /\ cmd_age' = IF Lost THEN Settle + 1 ELSE Older(cmd_age, Settle)
  /\ UNCHANGED <<rxVars, txpct_loss_clr, told>>

\* A header is captured as pct_state leaves "00".
Capture ==
  /\ ~in_pct /\ dwell = 0
  /\ in_pct' = TRUE /\ dwell' = PctClocks
  /\ told' = loss_sync[2] /\ fresh' = (fresh /\ ~loss_sync[2]) /\ hdr_age' = 0

PacketEnds ==
  /\ in_pct /\ dwell = 0
  /\ in_pct' = FALSE /\ dwell' = GapClocks
  /\ UNCHANGED <<told, fresh, hdr_age>>

Dwell_NoStop ==
  /\ dwell' = dwell - 1
  /\ UNCHANGED <<in_pct, told, fresh, hdr_age>>

Dwell ==
  /\ dwell' = IF dwell > 0 THEN dwell - 1 ELSE 0
  /\ UNCHANGED <<in_pct, told, fresh, hdr_age>>

RxClock ==
  /\ ticks > -Ratio
  /\ ticks' = IF ticks < 0 THEN ticks - 1 ELSE -1
  /\ loss_sync' = <<pct_loss_flg, loss_sync[1]>>
  /\ pct_hdr_captured' = in_pct
  /\ Capture \/ PacketEnds \/ Dwell
  /\ UNCHANGED <<txVars, txpct_loss_clr, loss_age, cmd_age>>

WriteClr ==
  /\ txpct_loss_clr' = ~txpct_loss_clr
  /\ cmd_age' = IF txpct_loss_clr' THEN 0 ELSE cmd_age
  /\ UNCHANGED <<txVars, rxVars, ticks, fresh, told, hdr_age, loss_age>>

Init ==
  /\ in_pct_clr_flag = FALSE /\ in_pct_clr_flag_reg = TRUE /\ pct_loss_flg = FALSE
  /\ clr_sync = <<FALSE, FALSE>> /\ clr_sync_reg = FALSE
  /\ loss_sync = <<FALSE, FALSE>> /\ in_pct = FALSE /\ dwell = 0
  /\ pct_hdr_captured = FALSE /\ txpct_loss_clr = TRUE /\ ticks = 0
  /\ fresh = FALSE /\ told = FALSE
  /\ hdr_age = HdrWindow + 1 /\ loss_age = 0 /\ cmd_age = Settle + 1

Next == TxClock \/ RxClock \/ WriteClr
Spec == Init /\ [][Next]_vars

-----------------------------------------------------------------------------
(***************************************************************************)
(* Properties.                                                             *)
(***************************************************************************)
TypeOK ==
  /\ {in_pct_clr_flag, in_pct_clr_flag_reg, pct_loss_flg, clr_sync_reg, in_pct,
      pct_hdr_captured, txpct_loss_clr, fresh, told} \subseteq BOOLEAN
  /\ {clr_sync, loss_sync} \subseteq BOOLEAN \X BOOLEAN
  /\ dwell \in (0 .. PctClocks) \cup (0 .. GapClocks) /\ ticks \in -Ratio .. Ratio
  /\ hdr_age \in 0 .. HdrWindow + 1 /\ loss_age \in 0 .. LossWindow + 1
  /\ cmd_age \in 0 .. Settle + 1

\* A header tells of a loss only if there was one since the last header that
\* did: the flag falls, and is seen to have fallen, before the next header.
OneReportPerLoss == [][Capture /\ told' => fresh]_vars

\* The flag is never taken down before a header told of the loss, but for a
\* loss so near a header that it could not be seen in it: one that set the flag
\* at most LossWindow clocks before.
ReportedBeforeCleared ==
  [][pct_loss_flg /\ ~pct_loss_flg' =>
       hdr_age <= HdrWindow /\ (told \/ loss_age <= LossWindow)]_vars

\* "TXPCT_LOSS_CLR: TX packets dropping flag clear, 1 - Rising edge clears flag".
ClearCommandClears == cmd_age = Settle => ~pct_loss_flg
=============================================================================
