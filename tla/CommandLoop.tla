------------------------------ MODULE CommandLoop ------------------------------
(***************************************************************************)
(* The firmware's main loop, with the FIFOs of the two control endpoints   *)
(* and the FX3 that fills one and empties the other: boot, wait for a      *)
(* packet, reset the FIFO for replies, read the packet's words, run the    *)
(* program of its command, write the reply's words.                        *)
(*                                                                         *)
(* A word of a packet is <<tag, k>>: the k-th word of the packet with that *)
(* tag.  Tags of successive commands differ, and a reply has the tag of    *)
(* the command it was made from.                                           *)
(*                                                                         *)
(* The host is the one the protocol has in mind: it waits for a reply      *)
(* before it sends the next command.                                       *)
(***************************************************************************)
EXTENDS LmsBoard

CONSTANTS
  PacketWords,    \* 64 bytes are 16 words
  Sessions,       \* [commands, fitted, eeprom]: what a host uses, on which board
  None

Byte == 0 .. 255

\* The registers and channels of blocks, and the modes of the MCU.
BlockRegs == LmsRegs \cup BrdRegs \cup
  {"latch", "counter", "dac", "temperature", "other", "PROG_EEPROM", "PROG_SRAM",
   "BOOT_MCU", "none", ""}

\* What the host sends: a command that needs a block has one; registers are those of
\* the chip, and those of the MCU are left to the command made for it.
CommandOK(c) ==
  /\ c.blocks \in Seq([reg : BlockRegs, flag : BOOLEAN, val : Nat])
  /\ \A k \in DOMAIN c.blocks :
       LET b == c.blocks[k]
       IN  /\ c.cmd \in {"LMS7002_WR", "LMS7002_RD"} => b.reg \in LmsRegs
           /\ c.cmd \in {"BRDSPI16_WR", "BRDSPI16_RD"} => b.reg \in BrdRegs
           /\ c.cmd = "ANALOG_VAL_WR" => b.val \in Byte
           /\ c.cmd = "LMS_MCU_FW_WR" => b.val \in 0 .. LastPortion
  /\ c.cmd \in {"LMS_RST", "LMS_MCU_FW_WR", "GPIO_DIR_WR", "GPIO_DIR_RD", "GPIO_WR",
                 "GPIO_RD"} => Len(c.blocks) = 1
  /\ c.cmd = "GET_INFO" => c.blocks = <<>>
  /\ c.cmd = "ANALOG_VAL_RD" => Len(c.blocks) <= FieldBytes

Commands == UNION {s.commands : s \in Sessions}
Statuses == {"none", "BUSY_CMD", "COMPLETED_CMD", "UNKNOWN_CMD", "BLOCKS_ERROR_CMD",
             "ERROR_CMD", "WRONG_ORDER_CMD", "INVALID_PERIPH_ID_CMD"}
Replies == [tag : 0 .. 2, cmd : {c.cmd : c \in Commands} \cup {"none"},
            status : Statuses, data : Seq(Int)]

ASSUME SessionsOK ==
  /\ PacketWords \in Nat \ {0} /\ None \notin Replies
  /\ \A s \in Sessions :
       /\ s.eeprom \in Byte \X Byte /\ None \notin s.commands
       /\ \A c \in s.commands : CommandOK(c)

VARIABLES
  \* the host and the FX3
  session, asked, tag, sent, got, answer,
  moved,          \* has the bus moved a word since the processor's last step?
  \* the FIFOs
  EP0F, EP0F_q, EP8F, EP8F_aclrn,
  \* the firmware
  pc, ops, packet, glEp0Buffer_Rx, reply, cnt, led,
  cmd_errors, dac_val, last_portion, MCU_retries

hostVars == <<session, asked, tag, sent, got, answer>>
fifoVars == <<EP0F, EP0F_q, EP8F, EP8F_aclrn>>
cmdVars == <<packet, glEp0Buffer_Rx, reply, cnt, led>>
cpuVars == <<cmd_errors, dac_val, last_portion, MCU_retries>>
vars == <<boardVars, hostVars, moved, fifoVars, pc, ops, cmdVars, cpuVars>>

\* What a packet is taken for when its words are not those of one command.
Garbled == [tag |-> 2, cmd |-> "garbled", blocks |-> <<>>]
NoReply == [tag |-> 2, cmd |-> "none", status |-> "none", data |-> <<>>]

PacketOf(t) == [k \in 1 .. PacketWords |-> <<t, k>>]

Init ==
  /\ session \in Sessions /\ InitBoard(session.fitted, session.eeprom)
  /\ asked = None /\ tag = 0 /\ sent = PacketWords
  /\ got = <<>> /\ answer = None /\ moved = FALSE
  /\ EP0F = <<>> /\ EP0F_q = <<2, 0>> /\ EP8F = <<>> /\ EP8F_aclrn = TRUE
  /\ pc = "boot" /\ ops = Boot
  /\ packet = Garbled /\ glEp0Buffer_Rx = <<>> /\ reply = NoReply /\ cnt = 0
  /\ led = FALSE
  /\ cmd_errors = 0 /\ dac_val = 125 /\ last_portion = 0 /\ MCU_retries = 0

-----------------------------------------------------------------------------
(***************************************************************************)
(* The host, and the FX3.                                                  *)
(***************************************************************************)
HostAsks ==
  /\ asked = None
  /\ asked' \in session.commands
  /\ tag' = 1 - tag /\ sent' = 0 /\ got' = <<>> /\ answer' = None
  /\ UNCHANGED <<boardVars, session, moved, fifoVars, pc, ops, cmdVars, cpuVars>>

\* A packet from the host comes in one burst, a word of it each bus clock.
InBurst == sent \in 1 .. PacketWords - 1

FX3Delivers ==
  /\ sent < PacketWords
  /\ sent' = sent + 1
  /\ EP0F' = Append(EP0F, <<tag, sent + 1>>)
  /\ moved' = TRUE
  /\ UNCHANGED <<boardVars, session, asked, tag, got, answer, EP0F_q, EP8F,
                 EP8F_aclrn, pc, ops, cmdVars, cpuVars>>

\* Words for the host are fetched once there are as many as make a packet.  The
\* host makes of them a reply only if they are those of one.
FX3Fetches ==
  /\ got # <<>> \/ Len(EP8F) >= PacketWords
  /\ EP8F # <<>> /\ asked # None
  /\ EP8F' = Tail(EP8F)
  /\ LET words == Append(got, Head(EP8F))
     IN  IF Len(words) < PacketWords
         THEN got' = words /\ UNCHANGED <<asked, answer>>
         ELSE /\ got' = <<>>
              /\ asked' = None
              /\ answer' = IF words = PacketOf(tag) THEN reply ELSE NoReply
  /\ UNCHANGED <<boardVars, session, tag, sent, moved, EP0F, EP0F_q, EP8F_aclrn, pc,
                 ops, cmdVars, cpuVars>>

-----------------------------------------------------------------------------
(***************************************************************************)
(* The processor.  While a burst is under way the bus, at 100 MHz, moves   *)
(* at least one word for each access of the processor.                     *)
(***************************************************************************)
Paced == (InBurst => moved) /\ moved' = FALSE

\* An I/O access of the main loop: it goes from pc to the next.
At(here, there) ==
  /\ Paced /\ pc = here /\ pc' = there
  /\ UNCHANGED <<boardVars, hostVars, ops, cpuVars>>

\* A slip: the word in the FIFO is not waited for.
PollStatus_Blind ==
  /\ At("poll", "set_reset") /\ UNCHANGED <<fifoVars, cmdVars>>

\* The reading that ends the wait; the others change nothing.
PollStatus ==
  /\ At("poll", "set_reset")
  /\ EP0F # <<>>
  /\ UNCHANGED <<fifoVars, cmdVars>>

SetReset ==
  /\ At("set_reset", "end_reset")
  /\ EP8F_aclrn' = FALSE /\ EP8F' = <<>>
  /\ UNCHANGED <<EP0F, EP0F_q, cmdVars>>

EndReset ==
  /\ At("end_reset", "led_on")
  /\ EP8F_aclrn' = TRUE
  /\ UNCHANGED <<EP0F, EP0F_q, EP8F, cmdVars>>

LedOn ==
  /\ At("led_on", "read")
  /\ led' = TRUE
  /\ UNCHANGED <<fifoVars, packet, glEp0Buffer_Rx, reply, cnt>>

\* An empty FIFO is not read from, and gives its last word again.
GetFifoData(count) ==
  /\ At("read", IF Len(glEp0Buffer_Rx) + 1 = count THEN "decode" ELSE "read")
  /\ EP0F_q' = IF EP0F = <<>> THEN EP0F_q ELSE Head(EP0F)
  /\ EP0F' = IF EP0F = <<>> THEN <<>> ELSE Tail(EP0F)
  /\ glEp0Buffer_Rx' = Append(glEp0Buffer_Rx, EP0F_q')
  /\ UNCHANGED <<EP8F, EP8F_aclrn, packet, reply, cnt, led>>

\* A slip: the last word is left in the FIFO.
ReadWord_OneLess == GetFifoData(PacketWords - 1)

ReadWord == GetFifoData(PacketWords)

\* The reply is begun, and the program of the command chosen.
Decode ==
  /\ pc = "decode" /\ Paced
  /\ packet' = IF asked # None /\ glEp0Buffer_Rx = PacketOf(tag)
               THEN [tag |-> tag, cmd |-> asked.cmd, blocks |-> asked.blocks]
               ELSE Garbled
  /\ LET status == FirstStatus(packet', last_portion)
     IN  /\ reply' = [tag |-> packet'.tag, cmd |-> packet'.cmd, status |-> status,
                      data |-> <<>>]
         /\ ops' = IF status = "BUSY_CMD" THEN Program(packet') ELSE <<>>
  /\ cmd_errors' = 0 /\ MCU_retries' = 0
  /\ pc' = "serve"
  /\ glEp0Buffer_Rx' = <<>>   \* the next packet overwrites all of it
  /\ UNCHANGED <<boardVars, hostVars, fifoVars, cnt, led, dac_val, last_portion>>

(***************************************************************************)
(* Steps of a program.                                                     *)
(***************************************************************************)
Running == pc \in {"boot", "serve"} /\ ops # <<>> /\ Paced
Done == ops' = Tail(ops)
UnchangedLoop == UNCHANGED <<hostVars, fifoVars, pc, packet, glEp0Buffer_Rx, cnt, led>>

DeviceStep ==
  /\ Running /\ Done /\ UnchangedLoop
  /\ LET op == Head(ops)
     IN  /\ op.dev \in {"dac", "adf", "lms_reset", "lms", "brd", "i2c"}
         /\ CASE op.dev = "dac" ->
                   DacTakes(IF op.act = "on" THEN DacBytes(dac_val) ELSE DacBytesOff)
              [] op.dev = "adf" -> AdfTakes(op)
              [] op.dev = "lms_reset" -> LmsResetTakes(op)
              [] op.dev = "i2c" /\ op.act = "start" -> I2cStartTakes(op)
              [] op.dev = "i2c" /\ op.act = "write" -> I2cWriteTakes(op)
              [] op.dev = "i2c" /\ op.act = "read" -> I2cReadTakes(op)
              [] op.dev \in {"lms", "brd"} /\ op.act = "write" -> RegWriteTakes(op)
              [] OTHER -> UNCHANGED boardVars
         /\ reply' = IF op.dev \in {"lms", "brd"} /\ op.act = "read"
                     THEN [reply EXCEPT !.data = Append(@, regs[op.reg])] ELSE reply
  /\ UNCHANGED cpuVars

ReportOf(what) ==
  CASE what = "dac_val" -> dac_val
    [] what = "temperature" -> Said16(Bytes16(Converted(bytes[1], bytes[2])))
    [] OTHER -> 0

CpuStep ==
  /\ Running /\ Done /\ UnchangedLoop
  /\ UNCHANGED <<boardVars, MCU_retries>>
  /\ LET op == Head(ops)
     IN  /\ op.dev = "cpu"
         /\ dac_val' = CASE op.act = "dac_val" -> op.val
                         [] op.act = "dac_val_eeprom" -> EepromDacVal(bytes[1], bytes[2])
                         [] OTHER -> dac_val
         /\ cmd_errors' = IF op.act = "cmd_errors" THEN cmd_errors + 1 ELSE cmd_errors
         /\ last_portion' = IF op.act = "last_portion" THEN op.val ELSE last_portion
         /\ reply' = IF op.act = "report"
                     THEN [reply EXCEPT !.data = Append(@, ReportOf(op.reg))] ELSE reply

\* One poll of the MCU's status.  limit gives the count at which a wait for it
\* ends, and counted whether that is an error.
PollMcu(limit(_), counted) ==
  /\ Running /\ UnchangedLoop
  /\ UNCHANGED <<boardVars, reply, dac_val, last_portion>>
  /\ Head(ops).dev = "await"
  /\ LET op == Head(ops)
         seen == McuStatus(op.reg)
         tries == (MCU_retries + 1) % RetryRange
         over == tries >= limit(op.val)
     IN  /\ IF seen \/ over THEN ops' = Tail(ops) /\ MCU_retries' = 0
                            ELSE ops' = ops /\ MCU_retries' = tries
         /\ cmd_errors' = IF ~seen /\ over /\ op.reg = "PROGRAMMED" /\ counted
                          THEN cmd_errors + 1 ELSE cmd_errors

\* A slip: the wait after a portion ends as the others do.
AwaitMcu_Bounded ==
  PollMcu(LAMBDA n : IF n < RetryRange THEN n ELSE MAX_MCU_RETRIES, TRUE)

\* A slip: the count is compared with one more than it can come to.
AwaitMcu_NotCounted == PollMcu(LAMBDA n : n, FALSE)

AwaitMcu == PollMcu(LAMBDA n : n, TRUE)

(***************************************************************************)
(* The reply.                                                              *)
(***************************************************************************)
BootDone ==
  /\ pc = "boot" /\ ops = <<>> /\ Paced
  /\ pc' = "poll"
  /\ UNCHANGED <<boardVars, hostVars, fifoVars, ops, cmdVars, cpuVars>>

Respond ==
  /\ pc = "serve" /\ ops = <<>> /\ Paced
  /\ pc' = "send"
  /\ reply' = IF reply.status = "BUSY_CMD"
              THEN [reply EXCEPT !.status = LastStatus(reply.cmd, cmd_errors)] ELSE reply
  /\ UNCHANGED <<boardVars, hostVars, fifoVars, ops, packet, glEp0Buffer_Rx, cnt,
                 led, cpuVars>>

\* A FIFO in reset takes no word.
WriteWord ==
  /\ At("send", IF cnt + 1 = PacketWords THEN "led_off" ELSE "send")
  /\ cnt' = cnt + 1
  /\ EP8F' = IF EP8F_aclrn THEN Append(EP8F, <<reply.tag, cnt + 1>>) ELSE EP8F
  /\ UNCHANGED <<EP0F, EP0F_q, EP8F_aclrn, packet, glEp0Buffer_Rx, reply, led>>

LedOff ==
  /\ At("led_off", "poll")
  /\ led' = FALSE /\ packet' = Garbled /\ cnt' = 0
  /\ UNCHANGED <<fifoVars, glEp0Buffer_Rx, reply>>

Firmware ==
  \/ PollStatus \/ SetReset \/ EndReset \/ LedOn \/ ReadWord \/ Decode
  \/ DeviceStep \/ CpuStep \/ AwaitMcu \/ BootDone \/ Respond \/ WriteWord \/ LedOff

Mcu == (McuTakes \/ McuProgrammed)
       /\ UNCHANGED <<hostVars, moved, fifoVars, pc, ops, cmdVars, cpuVars>>

Next == HostAsks \/ FX3Delivers \/ FX3Fetches \/ Firmware \/ Mcu
Spec == Init /\ [][Next]_vars

\* The FX3 moves what it can and the processor runs; the host need never ask.
FairLoop == WF_vars(FX3Delivers) /\ WF_vars(FX3Fetches) /\ WF_vars(Firmware)
FairSpec == Spec /\ FairLoop /\ WF_vars(Mcu)

\* The same with an MCU that may stop.
DeadMcuSpec == Spec /\ FairLoop

-----------------------------------------------------------------------------
(***************************************************************************)
(* Properties.                                                             *)
(***************************************************************************)
Words == {<<t, k>> : t \in 0 .. 2, k \in 0 .. PacketWords}

\* Every variable has its type; the FIFOs hold one packet at most.
TypeOK ==
  /\ dac \in [drives : BOOLEAN, val : 0 .. 255] /\ dac_val \in 0 .. 255
  /\ {adf, lms_reset_n, moved, EP8F_aclrn, led} \subseteq BOOLEAN
  /\ mcu.mode \in 0 .. 3 /\ mcu.fifo \in 0 .. PortionBytes
  /\ asked \in session.commands \cup {None} /\ tag \in {0, 1} /\ sent \in 0 .. PacketWords
  /\ EP0F \in Seq(Words) /\ EP8F \in Seq(Words) /\ got \in Seq(Words)
  /\ Len(EP0F) <= PacketWords /\ Len(EP8F) + Len(got) <= PacketWords
  /\ pc \in {"boot", "poll", "set_reset", "end_reset", "led_on", "read", "decode",
              "serve", "send", "led_off"}
  /\ reply.status \in Statuses
  /\ cmd_errors \in 0 .. FieldBytes /\ last_portion \in 0 .. LastPortion
  /\ MCU_retries \in 0 .. RetryRange - 1

\* Once the firmware has booted, the DAC and the charge pump of the ADF4002 never
\* drive the oscillator's control pin against each other.
OneTcxoDriver == pc # "boot" => ~(dac.drives /\ adf)

\* When the loop waits for a command and the DAC drives, it drives the value that
\* the firmware reports: from the EEPROM or from the host, all eight bits of it.
DacFollowsDacVal == pc = "poll" /\ dac.drives => dac.val = dac_val

\* The oscillator is driven by one device, and as the firmware says.
OscillatorDriven == OneTcxoDriver /\ DacFollowsDacVal

\* What the MCU has taken of a program is a beginning of it, in order, without a
\* byte written over one that was not taken yet, whatever portions the host sends
\* and however long the MCU takes for each.
ProgramWholeInMcu ==
  ~mcu.overwritten /\ mcu.taken = [k \in 1 .. Len(mcu.taken) |-> k - 1]

\* The last portion is answered with "completed" only if the MCU has said that it
\* is programmed, and not because the polls have run out.
ProgrammedOrError ==
  pc = "send" /\ packet.cmd = "LMS_MCU_FW_WR" /\ packet.blocks[1].val = LastPortion
    => mcu.programmed \/ reply.status # "COMPLETED_CMD"

\* The temperature in a reply is that of the sensor, above and below zero.
ReportsTemperature ==
  pc = "serve" /\ ops # <<>> /\ Head(ops) = Report("temperature") /\ "lm75" \in fitted

TemperatureTrue ==
  [][ReportsTemperature /\ reply' # reply => Last(reply'.data) = 5 * temperature]_vars

\* A command that reads changes no register and no output.
Reads == {"GET_INFO", "LMS7002_RD", "BRDSPI16_RD", "ANALOG_VAL_RD", "GPIO_DIR_RD", "GPIO_RD"}

ReadsChangeNothing ==
  [][pc = "serve" /\ packet.cmd \in Reads
       => UNCHANGED <<dac, adf, lms_reset_n, regs, dac_val, last_portion>>]_vars

\* A command that reads tells what is there and leaves it as it is.
ReadsAreTrue == TemperatureTrue /\ ReadsChangeNothing

\* A reply that fits a command: its status is one the command may have, and there
\* is a value for every block that was to be read.
StatusesOf(c) ==
  IF c.cmd \notin Known THEN {"UNKNOWN_CMD"}
  ELSE IF Check_many_blocks(c) THEN {"BLOCKS_ERROR_CMD"}
  ELSE CASE c.cmd = "LMS_MCU_FW_WR" -> {"COMPLETED_CMD", "ERROR_CMD", "WRONG_ORDER_CMD"}
         [] c.cmd = "ANALOG_VAL_WR" -> {"COMPLETED_CMD", "ERROR_CMD"}
         [] OTHER -> {"COMPLETED_CMD"}

Fits(c, r) ==
  /\ r # None /\ r.cmd = c.cmd
  /\ r.status \in StatusesOf(c)
  /\ Len(r.data) = IF r.status = "COMPLETED_CMD" /\ c.cmd \in Reads THEN Len(c.blocks)
                   ELSE 0

Channel == INSTANCE ControlChannel
  WITH Answers <- Fits

\* The loop, its FIFOs and the FX3 implement the control channel: every command
\* gets a whole reply made for it, however the bus, the reset of the FIFO for
\* replies and the unchecked reads of the words fall in time.
CommandsAnswered == Channel!Spec

\* main.c: "Send response to the command".  Every command is answered, even if the
\* MCU stops: each wait for it has a limit.
EveryCommandAnswered == asked # None ~> asked = None
=============================================================================
