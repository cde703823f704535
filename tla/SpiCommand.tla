------------------------------ MODULE SpiCommand ------------------------------
(***************************************************************************)
(* alt_avalon_spi_command: one SPI transaction, polled.  The processor     *)
(* reads the status register of the SPI master, and from that one reading  *)
(* decides both whether to write the next byte and whether to take one;    *)
(* meanwhile the master moves bytes from its holding register to its shift *)
(* register and from there, with a byte of the slave's, to the register    *)
(* that is read.  Each register access is a step, and the master takes its *)
(* steps at any time between them.                                         *)
(*                                                                         *)
(* Bytes are known by their place, as in SpiTransfer.  flags is 0 in every *)
(* call of the firmware.                                                   *)
(***************************************************************************)
EXTENDS SpiTransfer

VARIABLES
  \* the processor
  pc, status, credits,
  written,       \* bytes handed to the master: those of write_data, then zeros
  read_ignore, read_data,
  \* the master (lms_ctr_spi_lms.v); a register is <<>> or <<byte>>
  SSO_reg, select_holding, select_reg, tx_holding, shift, rx_holding, RRDY,
  ROE, TOE,
  frame          \* what the slave was sent since it was selected

cpuVars == <<call, outcome, pc, status, credits, written, read_ignore, read_data>>
selectVars == <<SSO_reg, select_holding, select_reg>>
dataVars == <<tx_holding, shift, rx_holding, RRDY, ROE, TOE, frame>>
vars == <<cpuVars, selectVars, dataVars>>

TRDY == tx_holding = <<>> \/ shift = <<>>
TMT == tx_holding = <<>> /\ shift = <<>>

InitCommand ==
  /\ Init
  /\ pc = "idle" /\ status = [trdy |-> FALSE, rrdy |-> FALSE]
  /\ credits = 1 /\ written = 0 /\ read_ignore = 0 /\ read_data = <<>>
  /\ SSO_reg = FALSE /\ select_holding = 0 /\ select_reg = 0
  /\ tx_holding = <<>> /\ shift = <<>> /\ frame = <<>>
  /\ rx_holding = <<0>> /\ RRDY \in BOOLEAN   \* a byte may be left from before
  /\ ROE = FALSE /\ TOE = FALSE

-----------------------------------------------------------------------------
(***************************************************************************)
(* The routine.                                                            *)
(***************************************************************************)
EnterWith(ahead) ==
  /\ pc = "idle"
  /\ Call
  /\ pc' = "slave_sel"
  /\ credits' = ahead /\ written' = 0
  /\ read_ignore' = call'.write /\ read_data' = <<>>
  /\ UNCHANGED <<status, selectVars, dataVars>>

\* Slips: two bytes ahead, as the master's two registers suggest; none at all.
Enter_TwoCredits == EnterWith(2)
Enter_NoCredits == EnterWith(0)

Enter == EnterWith(1)

SelectSlave ==
  /\ pc = "slave_sel" /\ pc' = "sso"
  /\ select_holding' = call.slave
  /\ UNCHANGED <<call, outcome, status, credits, written, read_ignore, read_data,
                 SSO_reg, select_reg, dataVars>>

\* The master takes the new slave at once if none was selected.
ForceSelect ==
  /\ pc = "sso" /\ pc' = "discard"
  /\ SSO_reg' = TRUE
  /\ select_reg' = IF SSO_reg THEN select_reg ELSE select_holding
  /\ UNCHANGED <<call, outcome, status, credits, written, read_ignore, read_data,
                 select_holding, dataVars>>

Discard(still) ==
  /\ pc = "discard" /\ pc' = "poll"
  /\ RRDY' = still
  /\ UNCHANGED <<call, outcome, status, credits, written, read_ignore, read_data,
                 selectVars, tx_holding, shift, rx_holding, ROE, TOE, frame>>

\* A slip: a byte left from before is not thrown away.
DiscardStale_Not == Discard(RRDY)

DiscardStale == Discard(FALSE)

\* The reading of the status that ends the loop; the others change nothing.
PollStatus ==
  /\ pc = "poll"
  /\ (TRDY /\ credits # 0) \/ RRDY
  /\ status' = [trdy |-> TRDY, rrdy |-> RRDY]
  /\ pc' = "write"
  /\ UNCHANGED <<call, outcome, credits, written, read_ignore, read_data,
                 selectVars, dataVars>>

\* A byte handed to a master that is not ready is lost, and TOE says so.
WriteByte ==
  /\ pc = "write" /\ pc' = "read"
  /\ status.trdy /\ credits > 0
  /\ IF written < call.write + call.read
     THEN /\ credits' = credits - 1
          /\ written' = written + 1
          /\ tx_holding' = IF TRDY THEN <<ByteOf(call, written + 1)>> ELSE tx_holding
          /\ TOE' = (TOE \/ ~TRDY)
     ELSE credits' = -1024 /\ UNCHANGED <<written, tx_holding, TOE>>
  /\ UNCHANGED <<call, outcome, status, read_ignore, read_data, selectVars, shift,
                 rx_holding, RRDY, ROE, frame>>

SkipWrite ==
  /\ pc = "write" /\ pc' = "read"
  /\ ~(status.trdy /\ credits > 0)
  /\ UNCHANGED <<call, outcome, status, credits, written, read_ignore, read_data,
                 selectVars, dataVars>>

TakeLeaving(ignore) ==
  /\ pc = "read"
  /\ status.rrdy
  /\ RRDY' = FALSE
  /\ read_ignore' = ignore
  /\ read_data' = IF read_ignore > 0 THEN read_data ELSE read_data \o rx_holding
  /\ credits' = credits + 1
  /\ pc' = IF read_ignore' = 0 /\ Len(read_data') = call.read THEN "drain" ELSE "poll"
  /\ UNCHANGED <<call, outcome, status, written, selectVars, tx_holding, shift,
                 rx_holding, ROE, TOE, frame>>

\* A slip: the count of bytes to drop runs below zero.
TakeByte_BelowZero == TakeLeaving(read_ignore - 1)

\* The bytes that come while the call's own are sent are dropped.
TakeByte == TakeLeaving(IF read_ignore > 0 THEN read_ignore - 1 ELSE 0)

SkipRead ==
  /\ pc = "read" /\ pc' = "poll"
  /\ ~status.rrdy
  /\ UNCHANGED <<call, outcome, status, credits, written, read_ignore, read_data,
                 selectVars, dataVars>>

AwaitSent ==
  /\ pc = "drain" /\ pc' = "release"
  /\ TMT
  /\ UNCHANGED <<call, outcome, status, credits, written, read_ignore, read_data,
                 selectVars, dataVars>>

Release ==
  /\ pc = "release" /\ pc' = "idle"
  /\ SSO_reg' = FALSE
  /\ frame' = <<>>
  /\ outcome' = [slave |-> select_reg, sent |-> frame, got |-> read_data]
  /\ call' = NoCall
  /\ UNCHANGED <<status, credits, written, read_ignore, read_data, select_holding,
                 select_reg, tx_holding, shift, rx_holding, RRDY, ROE, TOE>>

Routine ==
  \/ SelectSlave \/ ForceSelect \/ DiscardStale \/ PollStatus \/ WriteByte
  \/ SkipWrite \/ TakeByte \/ SkipRead \/ AwaitSent \/ Release

-----------------------------------------------------------------------------
(***************************************************************************)
(* The SPI master: a byte goes on to an idle shift register, and comes out *)
(* of it when its eight bits have been exchanged.                          *)
(***************************************************************************)
Load ==
  /\ tx_holding # <<>> /\ shift = <<>>
  /\ shift' = tx_holding /\ tx_holding' = <<>>
  /\ select_reg' = select_holding
  /\ UNCHANGED <<cpuVars, SSO_reg, select_holding, rx_holding, RRDY, ROE, TOE, frame>>

Exchange ==
  /\ shift # <<>>
  /\ shift' = <<>>
  /\ frame' = frame \o shift
  /\ rx_holding' = <<Len(frame) + 1>>
  /\ RRDY' = TRUE
  /\ ROE' = (ROE \/ RRDY)
  /\ UNCHANGED <<cpuVars, selectVars, tx_holding, TOE>>

NextCommand == Enter \/ Routine \/ Load \/ Exchange
SpecCommand ==
  /\ InitCommand /\ [][NextCommand]_vars
  /\ WF_vars(Routine) /\ WF_vars(Load) /\ WF_vars(Exchange)

-----------------------------------------------------------------------------
(***************************************************************************)
(* Properties.                                                             *)
(***************************************************************************)
PCs == {"idle", "slave_sel", "sso", "discard", "poll", "write", "read", "drain",
        "release"}
Register == {r \in Seq(Nat) : Len(r) <= 1}

\* Every variable has its type; in particular the credits never go below none
\* by more than the mark for "nothing left to send".
TypeOK ==
  /\ call \in Calls \cup {NoCall}
  /\ outcome \in [slave : Nat, sent : Seq(Nat), got : Seq(Nat)]
  /\ pc \in PCs
  /\ status \in [trdy : BOOLEAN, rrdy : BOOLEAN]
  /\ credits \in Int /\ credits >= -1024
  /\ written \in Nat /\ read_ignore \in Nat /\ read_data \in Seq(Nat)
  /\ SSO_reg \in BOOLEAN /\ select_holding \in Nat /\ select_reg \in Nat
  /\ tx_holding \in Register /\ shift \in Register /\ rx_holding \in Register
  /\ RRDY \in BOOLEAN /\ ROE \in BOOLEAN /\ TOE \in BOOLEAN
  /\ frame \in Seq(Nat)

\* No byte is lost in the master, on the way out or on the way in, however slow
\* the processor is to poll: the comment on credits in alt_avalon_spi_command
\* says that more than two bytes sent ahead overflow.
NothingLost == ~ROE /\ ~TOE

\* The polled routine implements the atomic transfer its callers rely on.
TransfersAreWhole == Safety

\* Every call of the routine comes to its end.
EveryCallReturns == (call # NoCall) ~> (call = NoCall)
=============================================================================
