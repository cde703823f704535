------------------------------- MODULE LmsBoard -------------------------------
(***************************************************************************)
(* The devices that the firmware reaches, and what a step of a program     *)
(* does with them.  An SPI transfer is one step: that the polled routine   *)
(* looks so to its callers is what SpiCommand shows.                       *)
(*                                                                         *)
(* The devices are not part of the repository; each is as much as the      *)
(* firmware relies on.                                                     *)
(***************************************************************************)
EXTENDS LmsCommands

CONSTANT
  Temperatures    \* what the LM75 may measure, in half degrees

\* Nine bits, of which the lowest is half a degree.
ASSUME TemperaturesOK == Temperatures \subseteq -256 .. 255

VARIABLES
  dac,            \* AD5601: does it drive the oscillator's control pin, its value
  adf,            \* does the charge pump of the ADF4002 drive that same pin?
  lms_reset_n,    \* LMS_RESET of the LMS7002M
  regs,           \* registers of the LMS7002M and of the FPGA
  mcu,            \* in the LMS7002M
  i2c,            \* the bus: held, by whom, how many bytes read
  bytes,          \* what I2C_read returned since the last start
  fitted,         \* the I2C devices that are there to answer
  eeprom,         \* the word at DAC_VAL_ADDR, <<low, high>>
  temperature     \* that the LM75 answers with

boardVars == <<dac, adf, lms_reset_n, regs, mcu, i2c, bytes, fitted, eeprom, temperature>>

\* mode 0 is reset, 1 and 2 program, 3 runs what was programmed.
McuAtReset == [mode |-> 0, fifo |-> 0, portion |-> 0, taken |-> <<>>,
               programmed |-> FALSE, overwritten |-> FALSE]
LmsRegs == {"R1", "R2"}
BrdRegs == {"B1", "GPIO_DIR", "GPIO_VAL", "GPIO_RD"}

\* At power-up the DAC drives, and of the ADF4002 nothing is known.
InitBoard(devices, stored) ==
  /\ dac = [drives |-> TRUE, val |-> 0] /\ adf \in BOOLEAN
  /\ lms_reset_n = TRUE
  /\ regs = [r \in LmsRegs \cup BrdRegs |-> 0] /\ mcu = McuAtReset
  /\ i2c = [held |-> FALSE, dev |-> "none", read |-> 0] /\ bytes = <<>>
  /\ fitted = devices /\ eeprom = stored
  /\ temperature = 0

-----------------------------------------------------------------------------
(***************************************************************************)
(* The oscillator's control pin.                                           *)
(***************************************************************************)
DacTakes(b) ==
  /\ dac' = [drives |-> b[1] \div 64 = 0, val |-> (b[1] % 64) * 4 + b[2] \div 64]
  /\ UNCHANGED <<adf, lms_reset_n, regs, mcu, i2c, bytes, fitted, eeprom, temperature>>

AdfTakes(op) ==
  /\ adf' = IF op.reg = "latch" THEN op.val = 1 ELSE adf
  /\ UNCHANGED <<dac, lms_reset_n, regs, mcu, i2c, bytes, fitted, eeprom, temperature>>

(***************************************************************************)
(* Registers, the reset of the LMS7002M, and the MCU in it.                *)
(***************************************************************************)
LmsResetTakes(op) ==
  /\ lms_reset_n' = (op.val # 0)
  /\ IF op.val = 0
     THEN /\ regs' = [r \in DOMAIN regs |-> IF r \in LmsRegs THEN 0 ELSE regs[r]]
          /\ mcu' = McuAtReset
     ELSE UNCHANGED <<regs, mcu>>
  /\ UNCHANGED <<dac, adf, i2c, bytes, fitted, eeprom, temperature>>

McuByte(n) ==
  IF mcu.mode \notin {1, 2} THEN mcu
  ELSE IF mcu.fifo < PortionBytes THEN [mcu EXCEPT !.fifo = @ + 1, !.portion = n]
  ELSE [mcu EXCEPT !.overwritten = TRUE]

RegWriteTakes(op) ==
  /\ IF op.dev = "lms" /\ ~lms_reset_n THEN UNCHANGED <<regs, mcu>>
     ELSE CASE op.reg = "MCU_CONTROL_REG" ->
                 /\ mcu' = IF op.val = 0 THEN McuAtReset ELSE [mcu EXCEPT !.mode = op.val]
                 /\ UNCHANGED regs
            [] op.reg = "MCU_FIFO_WR_REG" -> mcu' = McuByte(op.val) /\ UNCHANGED regs
            [] OTHER -> regs' = [regs EXCEPT ![op.reg] = op.val] /\ UNCHANGED mcu
  /\ UNCHANGED <<dac, adf, lms_reset_n, i2c, bytes, fitted, eeprom, temperature>>

\* A bit of MCU_STATUS_REG.
McuStatus(bit) ==
  IF bit = "PROGRAMMED" THEN mcu.programmed ELSE mcu.fifo = 0

McuTakes ==
  /\ mcu.fifo = PortionBytes
  /\ mcu' = [mcu EXCEPT !.fifo = 0, !.taken = Append(@, mcu.portion)]
  /\ UNCHANGED <<dac, adf, lms_reset_n, regs, i2c, bytes, fitted, eeprom, temperature>>

McuProgrammed ==
  /\ ~mcu.programmed /\ Len(mcu.taken) = LastPortion + 1
  /\ mcu' = [mcu EXCEPT !.programmed = TRUE]
  /\ UNCHANGED <<dac, adf, lms_reset_n, regs, i2c, bytes, fitted, eeprom, temperature>>

(***************************************************************************)
(* The I2C bus.  No step of a program looks whether it was acknowledged;   *)
(* nobody pulls the bus low, so an absent device reads as ones.            *)
(***************************************************************************)
Memory(dev) ==
  IF dev = "eeprom" THEN eeprom
  ELSE <<(temperature \div 2) % 256, 128 * (temperature % 2)>>

I2cStartTakes(op) ==
  /\ i2c' = [held |-> TRUE, dev |-> op.reg, read |-> 0] /\ bytes' = <<>>
  /\ IF op.reg = "lm75" /\ op.val = 1 THEN temperature' \in Temperatures
                                      ELSE UNCHANGED temperature
  /\ UNCHANGED <<dac, adf, lms_reset_n, regs, mcu, fitted, eeprom>>

I2cWriteTakes(op) ==
  /\ i2c' = [i2c EXCEPT !.held = (op.val = 0)]
  /\ UNCHANGED <<dac, adf, lms_reset_n, regs, mcu, bytes, fitted, eeprom, temperature>>

I2cReadTakes(op) ==
  /\ i2c' = [i2c EXCEPT !.held = (op.val = 0), !.read = @ + 1]
  /\ bytes' = Append(bytes,
                     IF i2c.dev \in fitted THEN Memory(i2c.dev)[i2c.read + 1] ELSE 255)
  /\ UNCHANGED <<dac, adf, lms_reset_n, regs, mcu, fitted, eeprom, temperature>>
=============================================================================
