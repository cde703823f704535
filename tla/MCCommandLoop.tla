----------------------------- MODULE MCCommandLoop -----------------------------
EXTENDS CommandLoop

Block(reg, flag, val) == [reg |-> reg, flag |-> flag, val |-> val]
Cmd(cmd, blocks) == [cmd |-> cmd, blocks |-> blocks]

\* The oscillator: the phase detector on, off, and a block that is no latch; the
\* DAC's extremes, a low bit, another unit, another channel.
Pump(on) == Block("latch", on, 0)
Counter == Block("counter", TRUE, 0)
Dac(raw, v) == Block("dac", raw, v)
TcxoSession ==
  {Cmd("ADF4002_WR", bs) :
     bs \in {<<>>, <<Pump(TRUE)>>, <<Counter, Pump(FALSE)>>, <<Counter, Counter, Counter>>}}
  \cup {Cmd("ANALOG_VAL_WR", bs) :
     bs \in {<<Dac(TRUE, 255)>>, <<Dac(TRUE, 1), Dac(FALSE, 2)>>,
             <<Block("other", TRUE, 0)>>}}
  \cup {Cmd("ANALOG_VAL_RD", <<Dac(TRUE, 0)>>)}

\* Registers, with bit 7 of the address sent in either state.
RegisterSession ==
  {Cmd(c, <<Block(r, f, 1)>>) :
     c \in {"LMS7002_WR", "LMS7002_RD"}, r \in {"R1"}, f \in BOOLEAN}
  \cup {Cmd(c, <<Block("B1", f, 1)>>) :
     c \in {"BRDSPI16_WR", "BRDSPI16_RD"}, f \in BOOLEAN}
  \cup {Cmd("LMS7002_WR", <<Block("R1", TRUE, 2), Block("R2", FALSE, 1)>>),
        Cmd("LMS7002_RD", [k \in 1 .. 3 |-> Block("R1", FALSE, 0)])}

BoardSession ==
  {Cmd("LMS_RST", <<Block("", FALSE, v)>>) : v \in 0 .. 3}
  \cup {Cmd(c, <<Block("", FALSE, 1)>>) : c \in {"GPIO_DIR_WR", "GPIO_WR"}}
  \cup {Cmd(c, <<Block("", FALSE, 0)>>) : c \in {"GPIO_DIR_RD", "GPIO_RD"}}
  \cup {Cmd("LMS7002_WR", <<Block("R1", TRUE, 1)>>), Cmd("GET_INFO", <<>>),
        Cmd("CMD_MEMORY_WR", <<>>)}

Sensor == Block("temperature", FALSE, 0)
SensorSession ==
  {Cmd("ANALOG_VAL_RD", bs) :
     bs \in {<<Sensor>>, <<Sensor, Dac(TRUE, 0)>>, <<Block("other", FALSE, 0), Sensor>>}}

Portion(mode, n) == Cmd("LMS_MCU_FW_WR", <<Block(mode, FALSE, n)>>)
McuSession ==
  {Portion(m, 0) : m \in {"PROG_EEPROM", "PROG_SRAM", "BOOT_MCU", "none"}}
  \cup {Portion("PROG_SRAM", n) : n \in 1 .. LastPortion}

On(commands, devices, stored) ==
  [commands |-> commands, fitted |-> devices, eeprom |-> stored]
Both == {"eeprom", "lm75"}
Empty == <<255, 255>>

MCSessions ==
  {On(TcxoSession, Both, <<80, 1>>), On(TcxoSession, Both, Empty),
   On(TcxoSession, {"lm75"}, Empty), On(RegisterSession, Both, Empty),
   On(BoardSession, Both, Empty), On(SensorSession, Both, Empty),
   On(SensorSession, {"eeprom"}, Empty), On(McuSession, Both, Empty)}

\* For the violation, only the commands that lead to it.
McuSessions == {On(McuSession, Both, Empty)}

\* -55, -0.5, 0, 25.5 and 127.5 degrees.
MCTemperatures == {-110, -1, 0, 51, 255}
=============================================================================
