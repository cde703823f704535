------------------------------ MODULE LmsCommands ------------------------------
(***************************************************************************)
(* The commands of the control endpoint and what the firmware does for     *)
(* each: a program of accesses to the devices of the board, run in order.  *)
(*                                                                         *)
(* A command is a record [cmd, blocks]; a block is what the command's own  *)
(* fields hold, brought to one shape [reg, flag, val]:                     *)
(*   register commands    reg, bit 7 of the address as sent, value         *)
(*   analog commands      channel, raw units and no high byte?, value      *)
(*   CMD_ADF4002_WR       which register, charge pump driven?, -           *)
(*   CMD_GPIO_*, LMS_RST  -, -, value                                      *)
(*   CMD_LMS_MCU_FW_WR    PROG_MODE, -, number of the portion              *)
(* The commands whose action ignores Data_blocks have one block.           *)
(***************************************************************************)
EXTENDS Integers, Sequences, SequencesExt

CONSTANTS
  FieldBytes,      \* sizeof(Data_field)
  PortionBytes,    \* bytes of MCU program in a packet
  LastPortion,     \* number of the last portion
  MAX_MCU_RETRIES, \* polls of the MCU's status, in general
  WriteRetries,    \* and after a portion was written
  RetryRange       \* values of MCU_retries, a uint8_t

\* 56, 32, 255, 30, 500 and 256 in the code: the second limit is out of the
\* range of the variable compared with it.
ASSUME ScaleOK ==
  /\ {FieldBytes, PortionBytes, LastPortion, MAX_MCU_RETRIES, WriteRetries, RetryRange}
       \subseteq Nat \ {0}
  /\ MAX_MCU_RETRIES < RetryRange
  /\ WriteRetries >= RetryRange

-----------------------------------------------------------------------------
(***************************************************************************)
(* Steps of programs.                                                      *)
(***************************************************************************)
Op(dev, act, reg, val) == [dev |-> dev, act |-> act, reg |-> reg, val |-> val]

\* Transfers on the SPI buses, each the whole of an alt_avalon_spi_command
\* (SpiTransfer); the first byte of a register's address has bit 7 set to write.
RegWrite(chip, reg, val) == Op(chip, "write", reg, val)
RegRead(chip, reg) == Op(chip, "read", reg, 0)
ReadMcuStatus == Op("lms", "read_unused", "MCU_STATUS_REG", 0)
DacOn == Op("dac", "on", "", 0)
DacOff == Op("dac", "off", "", 0)
AdfBlock(reg, drives) == Op("adf", "block", reg, IF drives THEN 1 ELSE 0)

LmsReset(n) == Op("lms_reset", "write", "", n)

\* Steps of the processor alone.
SetDacVal(v) == Op("cpu", "dac_val", "", v)
LoadDacVal == Op("cpu", "dac_val_eeprom", "", 0)
Report(what) == Op("cpu", "report", what, 0)
CmdError == Op("cpu", "cmd_errors", "", 0)
SavePortion(n) == Op("cpu", "last_portion", "", n)

\* Bytes on the I2C bus; val 1 marks the last, which ends with a stop.
I2C_start(dev, read) == Op("i2c", "start", dev, read)
I2C_write(last) == Op("i2c", "write", "", last)
I2C_read(last) == Op("i2c", "read", "", last)

\* Polls of the MCU's status register for a bit, no more than limit of them.
Await(bit, limit) == Op("await", "poll", bit, limit)

-----------------------------------------------------------------------------
(***************************************************************************)
(* The programs.                                                           *)
(***************************************************************************)
Control_TCXO_ADF_Off ==
  <<AdfBlock("latch", FALSE), AdfBlock("latch", FALSE),
    AdfBlock("counter", FALSE), AdfBlock("counter", FALSE)>>

Configure_LM75 ==
  <<I2C_start("lm75", 0), I2C_write(0), I2C_write(1)>>
  \o <<I2C_start("lm75", 0), I2C_write(0), I2C_write(0), I2C_write(1)>>
  \o <<I2C_start("lm75", 0), I2C_write(0), I2C_write(0), I2C_write(1)>>

rd_dac_val ==
  <<I2C_start("eeprom", 0), I2C_write(0), I2C_write(0),
    I2C_start("eeprom", 1), I2C_read(0), I2C_read(1)>>

Boot ==
  <<LmsReset(0), LmsReset(1)>>
  \o rd_dac_val \o <<LoadDacVal>>
  \o Control_TCXO_ADF_Off \o <<DacOn>> \o Configure_LM75

\* One piece of program for each block.
ForBlocks(p, Ops(_)) == FlattenSeq([k \in DOMAIN p.blocks |-> Ops(p.blocks[k])])

\* Bit 7 of the address is set to write and cleared to read, whatever was sent.
RegOps(chip, b, writes) ==
  IF writes THEN <<RegWrite(chip, b.reg, b.val)>> ELSE <<RegRead(chip, b.reg)>>

\* A slip: the bit is passed on as it was sent.
RdOps_AsSent(chip, b) == RegOps(chip, b, b.flag)

WrOps(chip, b) == RegOps(chip, b, TRUE)
RdOps(chip, b) == RegOps(chip, b, FALSE)

LmsRstOps(v) ==
  CASE v = 0 -> <<LmsReset(1)>>
    [] v = 1 -> <<LmsReset(0)>>
    [] v = 2 -> <<LmsReset(0), LmsReset(1)>>
    [] OTHER -> <<CmdError>>

\* A slip: the DAC goes on driving.
AdfOps_DacLeft(p) == ForBlocks(p, LAMBDA b : <<AdfBlock(b.reg, b.flag)>>)

AdfOps(p) == <<DacOff>> \o ForBlocks(p, LAMBDA b : <<AdfBlock(b.reg, b.flag)>>)

AnalogRdOps(b) ==
  CASE b.reg = "dac" -> <<Report("dac_val")>>
    [] b.reg = "temperature" ->
         <<I2C_start("lm75", 0), I2C_write(1), I2C_start("lm75", 1),
           I2C_read(0), I2C_read(1), Report("temperature")>>
    [] OTHER -> <<CmdError, Report("nothing")>>

AnalogWrOps(b) ==
  IF b.reg = "dac" /\ b.flag
  THEN Control_TCXO_ADF_Off \o <<SetDacVal(b.val), DacOn>>
  ELSE <<CmdError>>

\* The MCU of the LMS7002M: its registers, and the status polled in between.
PortionOps(n) ==
  <<Await("EMPTY_WRITE_BUFF", MAX_MCU_RETRIES)>>
  \o [k \in 1 .. PortionBytes |-> RegWrite("lms", "MCU_FIFO_WR_REG", n)]
  \o <<Await("EMPTY_WRITE_BUFF", WriteRetries)>>
  \o (IF n = LastPortion THEN <<Await("PROGRAMMED", MAX_MCU_RETRIES)>> ELSE <<>>)
  \o <<SavePortion(n)>>

McuControl(mode) == RegWrite("lms", "MCU_CONTROL_REG", mode)

\* The first portion resets the MCU and sets its mode; an unknown mode leaves it
\* in reset, and BOOT_MCU jumps over the rest to the label BOOTING.
FirstPortionOps(mode) ==
  CASE mode = "PROG_EEPROM" -> <<McuControl(0), McuControl(1)>> \o PortionOps(0)
    [] mode = "PROG_SRAM" -> <<McuControl(0), McuControl(2)>> \o PortionOps(0)
    [] mode = "BOOT_MCU" -> <<McuControl(0), McuControl(3), ReadMcuStatus>>
    [] OTHER -> <<McuControl(0)>> \o PortionOps(0)

McuOps(b) == IF b.val = 0 THEN FirstPortionOps(b.reg) ELSE PortionOps(b.val)

Program(p) ==
  CASE p.cmd = "LMS_RST" -> LmsRstOps(p.blocks[1].val)
    [] p.cmd = "LMS7002_WR" -> ForBlocks(p, LAMBDA b : WrOps("lms", b))
    [] p.cmd = "LMS7002_RD" -> ForBlocks(p, LAMBDA b : RdOps("lms", b))
    [] p.cmd = "BRDSPI16_WR" -> ForBlocks(p, LAMBDA b : WrOps("brd", b))
    [] p.cmd = "BRDSPI16_RD" -> ForBlocks(p, LAMBDA b : RdOps("brd", b))
    [] p.cmd = "ADF4002_WR" -> AdfOps(p)
    [] p.cmd = "ANALOG_VAL_RD" -> ForBlocks(p, AnalogRdOps)
    [] p.cmd = "ANALOG_VAL_WR" -> ForBlocks(p, AnalogWrOps)
    [] p.cmd = "LMS_MCU_FW_WR" -> McuOps(p.blocks[1])
    [] p.cmd = "GPIO_DIR_WR" -> <<RegWrite("brd", "GPIO_DIR", p.blocks[1].val)>>
    [] p.cmd = "GPIO_DIR_RD" -> <<RegRead("brd", "GPIO_DIR")>>
    [] p.cmd = "GPIO_WR" -> <<RegWrite("brd", "GPIO_VAL", p.blocks[1].val)>>
    [] p.cmd = "GPIO_RD" -> <<RegRead("brd", "GPIO_RD")>>
    [] OTHER -> <<>>

-----------------------------------------------------------------------------
(***************************************************************************)
(* Statuses.                                                               *)
(***************************************************************************)
Known == {"GET_INFO", "LMS_RST", "LMS7002_WR", "LMS7002_RD", "BRDSPI16_WR",
          "BRDSPI16_RD", "ADF4002_WR", "ANALOG_VAL_RD", "ANALOG_VAL_WR",
          "LMS_MCU_FW_WR", "GPIO_DIR_WR", "GPIO_DIR_RD", "GPIO_WR", "GPIO_RD"}

\* Bytes of a block, for the commands that look whether their blocks fit.
BlockBytes == [c \in {"LMS7002_WR", "LMS7002_RD", "BRDSPI16_WR", "BRDSPI16_RD",
                      "ADF4002_WR", "ANALOG_VAL_WR"} |->
                 IF c = "ADF4002_WR" THEN 3 ELSE 4]

Check_many_blocks(p) ==
  p.cmd \in DOMAIN BlockBytes /\ Len(p.blocks) > FieldBytes \div BlockBytes[p.cmd]

WrongOrder(p, last) ==
  /\ p.cmd = "LMS_MCU_FW_WR"
  /\ p.blocks[1].val # 0 /\ last # p.blocks[1].val - 1

\* Before any step is taken, and when all are.
FirstStatus(p, last) ==
  CASE p.cmd \notin Known -> "UNKNOWN_CMD"
    [] Check_many_blocks(p) -> "BLOCKS_ERROR_CMD"
    [] WrongOrder(p, last) -> "WRONG_ORDER_CMD"
    [] OTHER -> "BUSY_CMD"

LastStatus(cmd, errors) ==
  IF errors = 0 \/ cmd \in {"LMS_RST", "ANALOG_VAL_RD"} THEN "COMPLETED_CMD"
  ELSE IF cmd = "ADF4002_WR" THEN "INVALID_PERIPH_ID_CMD" ELSE "ERROR_CMD"

-----------------------------------------------------------------------------
(***************************************************************************)
(* Conversions of values.                                                  *)
(***************************************************************************)
Int16(x) == ((x + 32768) % 65536) - 32768

\* Tenths of a degree from the two bytes of the LM75, in a signed short int.
Converted(high, low) ==
  Int16(10 * (Int16(high * 256) \div 256) + (IF low >= 128 THEN 5 ELSE 0))

\* The two bytes of the reply, the high one first, and what they say.
Bytes16(x) == <<(x \div 256) % 256, x % 256>>
Said16(b) == Int16(256 * b[1] + b[2])

\* The two bytes for the AD5601: power-down mode in the two highest bits.
DacBytes(v) == <<v \div 4, (v * 64) % 256>>
DacBytesOff == <<192, 0>>

\* A value read from an EEPROM that is empty is replaced.
EepromDacVal(low, high) == IF low = 255 /\ high = 255 THEN 125 ELSE low
=============================================================================
