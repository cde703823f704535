--------------------------- MODULE CommandLoopProofs ---------------------------
(***************************************************************************)
(* Proofs about CommandLoop, for all sets of commands with SessionsOK, any *)
(* pace of the FX3 and of the MCU: every command gets the reply made for   *)
(* it, the oscillator has one driver, the MCU gets its program whole, the  *)
(* temperature told is the one measured.                                   *)
(*                                                                         *)
(* The firmware runs a program of accesses for each command; ops is what   *)
(* is left of it.  The invariant says of ops what each of the properties   *)
(* needs: what comes before a step that matters (OscInv, BytesInv), how    *)
(* many replies and errors are still to come (CountInv), which portion of  *)
(* the MCU's program is on its way (McuInv).  LoopInv follows the words of *)
(* a command and of its reply through the FIFOs, and RespInv what the      *)
(* reply is made of.                                                       *)
(***************************************************************************)
EXTENDS CommandLoop, FiniteSetTheorems, WellFoundedInduction, TLAPS

-----------------------------------------------------------------------------
(***************************************************************************)
(* Words in the FIFOs, and where the command is on its way.                *)
(***************************************************************************)
\* n words of the packet with tag t, from the one after the a-th.
Run(t, a, n) == [k \in 1 .. n |-> <<t, a + k>>]

Getting == {"set_reset", "end_reset", "led_on", "read"}

NoAnswer == got = <<>> /\ EP8F = <<>>
AllSent == sent = PacketWords /\ EP0F = <<>>

\* No command; one on its way; being served; its reply on its way.
Quiet ==
  /\ asked = None /\ pc \in {"boot", "poll", "led_off"}
  /\ AllSent /\ NoAnswer
Asking ==
  /\ asked # None /\ pc \in {"boot", "poll", "led_off", "decode"} \cup Getting
  /\ Len(glEp0Buffer_Rx) <= sent
  /\ EP0F = Run(tag, Len(glEp0Buffer_Rx), sent - Len(glEp0Buffer_Rx))
  /\ pc \in Getting =>
       sent = PacketWords \/ sent > Len(glEp0Buffer_Rx) + (IF moved THEN 1 ELSE 0)
  /\ NoAnswer
Serving ==
  /\ asked # None /\ pc \in {"serve", "send"}
  /\ AllSent /\ got = <<>> /\ EP8F = Run(tag, 0, cnt)
Answering ==
  /\ asked # None /\ pc \in {"poll", "led_off"}
  /\ AllSent /\ Len(got) \in 0 .. PacketWords - 1
  /\ got = Run(tag, 0, Len(got)) /\ EP8F = Run(tag, Len(got), PacketWords - Len(got))

\* The reply is ready, and has not been fetched.
Replied == Answering \/ (Serving /\ pc = "send")

LoopBase ==
  /\ session \in Sessions /\ asked \in session.commands \cup {None}
  /\ tag \in {0, 1} /\ sent \in 0 .. PacketWords /\ moved \in BOOLEAN
  /\ cnt \in 0 .. PacketWords
  /\ EP8F_aclrn = (pc # "end_reset")
  /\ pc \in {"boot", "poll", "decode", "serve", "send", "led_off"} \cup Getting
  /\ glEp0Buffer_Rx = Run(tag, 0, Len(glEp0Buffer_Rx))
  /\ Len(glEp0Buffer_Rx) <= PacketWords
  /\ pc \notin {"read", "decode"} => glEp0Buffer_Rx = <<>>
  /\ pc = "read" => Len(glEp0Buffer_Rx) < PacketWords
  /\ pc = "decode" => Len(glEp0Buffer_Rx) = PacketWords
  /\ pc \notin {"send", "led_off"} => cnt = 0
  /\ pc = "send" => cnt < PacketWords

LoopInv == LoopBase /\ (Quiet \/ Asking \/ Serving \/ Answering)

-----------------------------------------------------------------------------
(***************************************************************************)
(* Programs.  Of a sequence of steps only this matters.                    *)
(***************************************************************************)
OpRegs ==
  BlockRegs \cup {"MCU_STATUS_REG", "MCU_CONTROL_REG", "MCU_FIFO_WR_REG", "dac_val",
                  "nothing", "eeprom", "lm75", "EMPTY_WRITE_BUFF", "PROGRAMMED"}
OpSet == [dev : {"dac", "adf", "lms_reset", "lms", "brd", "i2c", "cpu", "await"},
          act : {"on", "off", "block", "write", "read", "read_unused", "start", "poll",
                 "dac_val", "dac_val_eeprom", "report", "cmd_errors", "last_portion"},
          reg : OpRegs,
          val : Nat]

IsDacOn(op) == op.dev = "dac" /\ op.act = "on"
IsDacOff(op) == op.dev = "dac" /\ op.act # "on"
IsPumpOn(op) == op.dev = "adf" /\ op.reg = "latch" /\ op.val = 1
IsPumpOff(op) == op.dev = "adf" /\ op.reg = "latch" /\ op.val # 1
SetsDacVal(op) == op.dev = "cpu" /\ op.act \in {"dac_val", "dac_val_eeprom"}

\* A step of the processor that uses the two bytes just read from an I2C device.
IsTemperature(op) == op.dev = "cpu" /\ op.act = "report" /\ op.reg = "temperature"
IsStored(op) == op.dev = "cpu" /\ op.act = "dac_val_eeprom"
UsesBytes(op) == IsTemperature(op) \/ IsStored(op)
DeviceRead(op) == IF IsStored(op) THEN "eeprom" ELSE "lm75"

IsMcuControl(op) == op.act = "write" /\ op.reg = "MCU_CONTROL_REG"
IsMcuByte(op) == op.act = "write" /\ op.reg = "MCU_FIFO_WR_REG"
SavesPortion(op) == op.dev = "cpu" /\ op.act = "last_portion"
ForMcu(op) == IsMcuControl(op) \/ IsMcuByte(op) \/ SavesPortion(op) \/ op.dev = "await"

\* Steps that may add an error, and that add a value to the reply.
ErrorOps == {op \in OpSet : \/ op.dev = "cpu" /\ op.act = "cmd_errors"
                            \/ op.dev = "await" /\ op.reg = "PROGRAMMED"}
DataOps == {op \in OpSet : \/ op.dev \in {"lms", "brd"} /\ op.act = "read"
                           \/ op.dev = "cpu" /\ op.act = "report"}
Harmless(op) == \/ op.dev \in {"lms", "brd"} /\ op.act = "read"
                \/ op.dev = "i2c" /\ op.act \in {"start", "write", "read"}
                \/ op.dev = "cpu" /\ op.act \in {"report", "cmd_errors"}

Sane(op) ==
  /\ op.dev = "cpu" /\ op.act = "dac_val" => op.val \in Byte
  /\ SavesPortion(op) => op.val \in 0 .. LastPortion
  /\ IsMcuControl(op) => op.dev = "lms" /\ op.val \in 0 .. 3
  /\ IsMcuByte(op) => op.dev = "lms"
  /\ op.dev \in {"lms", "brd"} /\ op.act = "read" => op.reg \in LmsRegs \cup BrdRegs

Hits(s, S) == {i \in DOMAIN s : s[i] \in S}
Count(s, S) == Cardinality(Hits(s, S))

\* A program, or a piece of one, in which no step drives the pin from the ADF4002.
NoPump(s) == \A i \in DOMAIN s : ~IsPumpOn(s[i])
NoDac(s) == \A i \in DOMAIN s : ~IsDacOn(s[i])
PumpsAfterDac(s) == \A i \in DOMAIN s : IsPumpOn(s[i]) => \E j \in 1 .. i - 1 : IsDacOff(s[j])
DacAfterPump(s) == \A i \in DOMAIN s : IsDacOn(s[i]) => \E j \in 1 .. i - 1 : IsPumpOff(s[j])
DacAfterVal(s) == \A i \in DOMAIN s : SetsDacVal(s[i]) => \E j \in i + 1 .. Len(s) : IsDacOn(s[j])
BytesBefore(s) ==
  \A i \in DOMAIN s : UsesBytes(s[i]) =>
    /\ i > 3
    /\ s[i - 3] = I2C_start(DeviceRead(s[i]), 1)
    /\ s[i - 2] = I2C_read(0) /\ s[i - 1] = I2C_read(1)

Program1(s) ==
  /\ s \in Seq(OpSet) /\ \A i \in DOMAIN s : Sane(s[i])
  /\ DacAfterVal(s) /\ BytesBefore(s)

Piece(s) == Program1(s) /\ NoPump(s) /\ DacAfterPump(s)

-----------------------------------------------------------------------------
(***************************************************************************)
(* The invariant, part by part: what is left of a program, and the state   *)
(* it finds.                                                               *)
(***************************************************************************)
McuStates ==
  [mode : 0 .. 3, fifo : 0 .. PortionBytes, portion : Nat, taken : Seq(Nat),
   programmed : BOOLEAN, overwritten : BOOLEAN]

TypeInv ==
  /\ dac \in [drives : BOOLEAN, val : Byte] /\ dac_val \in Byte
  /\ adf \in BOOLEAN /\ lms_reset_n \in BOOLEAN /\ led \in BOOLEAN
  /\ regs \in [LmsRegs \cup BrdRegs -> Nat]
  /\ eeprom \in Byte \X Byte /\ temperature \in -256 .. 255
  /\ cmd_errors \in Nat /\ last_portion \in 0 .. LastPortion
  /\ MCU_retries \in 0 .. RetryRange - 1
  /\ reply \in Replies
  /\ i2c \in [held : BOOLEAN, dev : OpRegs \cup {"none"}, read : Nat]
  /\ mcu \in McuStates

OpsInv ==
  /\ ops \in Seq(OpSet) /\ \A i \in DOMAIN ops : Sane(ops[i])
  /\ pc \notin {"boot", "serve"} => ops = <<>>

OscInv ==
  /\ \A i \in DOMAIN ops : IsPumpOn(ops[i]) =>
       NoDac(ops) /\ (dac.drives => \E j \in 1 .. i - 1 : IsDacOff(ops[j]))
  /\ \A i \in DOMAIN ops : IsDacOn(ops[i]) =>
       NoPump(ops) /\ (adf => \E j \in 1 .. i - 1 : IsPumpOff(ops[j]))
  /\ DacAfterVal(ops)
  /\ dac.drives => dac.val = dac_val \/ \E j \in DOMAIN ops : IsDacOn(ops[j])
  /\ dac.drives /\ adf => pc = "boot" /\ \E j \in DOMAIN ops : IsPumpOff(ops[j])

Answered(dev, k) == IF dev \in fitted THEN Memory(dev)[k] ELSE 255

BytesInv ==
  \A i \in DOMAIN ops : UsesBytes(ops[i]) =>
    LET dev == DeviceRead(ops[i])
    IN  /\ i > 3 => ops[i - 3] = I2C_start(dev, 1)
        /\ i > 2 => ops[i - 2] = I2C_read(0)
        /\ i > 1 => ops[i - 1] = I2C_read(1)
        /\ i = 3 => i2c.dev = dev /\ i2c.read = 0 /\ bytes = <<>>
        /\ i = 2 => i2c.dev = dev /\ i2c.read = 1 /\ bytes = <<Answered(dev, 1)>>
        /\ i = 1 => bytes = <<Answered(dev, 1), Answered(dev, 2)>>

RespInv ==
  /\ pc \in {"serve", "send"} =>
       /\ packet = [tag |-> tag, cmd |-> asked.cmd, blocks |-> asked.blocks]
       /\ reply.tag = tag /\ reply.cmd = asked.cmd
  /\ pc = "serve" => IF reply.status = "BUSY_CMD"
                     THEN asked.cmd \in Known /\ ~Check_many_blocks(asked)
                     ELSE ops = <<>> /\ Fits(asked, reply) /\ reply.status # "COMPLETED_CMD"
  /\ Replied => Fits(asked, reply)

\* Values and errors to come are those that the reply still wants, and allows.
CountInv ==
  /\ pc \notin {"serve", "send"} => cmd_errors <= FieldBytes
  /\ pc = "boot" => cmd_errors = 0 /\ Count(ops, ErrorOps) = 0
  /\ pc = "serve" => cmd_errors + Count(ops, ErrorOps) <= FieldBytes
  /\ pc = "send" => cmd_errors <= FieldBytes
  /\ pc = "serve" /\ reply.status = "BUSY_CMD" =>
       /\ Len(reply.data) + Count(ops, DataOps)
            = IF asked.cmd \in Reads THEN Len(asked.blocks) ELSE 0
       /\ asked.cmd \notin {"LMS_RST", "ANALOG_VAL_RD", "ANALOG_VAL_WR", "LMS_MCU_FW_WR"}
            => cmd_errors = 0 /\ Count(ops, ErrorOps) = 0

ReadsInv ==
  pc = "serve" /\ packet.cmd \in Reads => \A i \in DOMAIN ops : Harmless(ops[i])

-----------------------------------------------------------------------------
(***************************************************************************)
(* The MCU's program.                                                      *)
(***************************************************************************)
\* What is left of a program after k steps.
From(p, k) == [i \in 1 .. Len(p) - k |-> p[k + i]]

Loads == mcu.mode \in {1, 2}
Taken(n) == Loads => mcu.fifo = 0 /\ Len(mcu.taken) = n

PortionNo == packet.blocks[1].val
PortionSteps(n) == PortionBytes + (IF n = LastPortion THEN 4 ELSE 3)

\* k steps of the program of portion n have been taken.
PortionAt(n, k) ==
  /\ k <= 1 => Taken(n)
  /\ k \in 2 .. PortionBytes /\ Loads =>
       mcu.fifo = k - 1 /\ Len(mcu.taken) = n /\ mcu.portion = n
  /\ k = PortionBytes + 1 /\ Loads =>
       \/ (mcu.fifo = PortionBytes /\ Len(mcu.taken) = n /\ mcu.portion = n)
       \/ (mcu.fifo = 0 /\ Len(mcu.taken) = n + 1)
  /\ k >= PortionBytes + 2 => Taken(n + 1)
  /\ n = LastPortion /\ k >= PortionBytes + 3 => mcu.programmed \/ cmd_errors > 0
  /\ k = PortionSteps(n) => last_portion = n

PortionInv(n) ==
  \E k \in 0 .. PortionSteps(n) : ops = From(PortionOps(n), k) /\ PortionAt(n, k)

\* The steps before the first portion's: the MCU is reset, then its mode set.
ModeInv(n) ==
  /\ n = 0 /\ mcu.fifo = 0
  /\ \/ \E m \in {1, 2} :
          \/ ops = <<McuControl(0)>> \o (<<McuControl(m)>> \o PortionOps(0))
          \/ ops = <<McuControl(m)>> \o PortionOps(0) /\ ~Loads
     \/ ops = <<McuControl(0)>> \o PortionOps(0)
     \/ ops = <<McuControl(0), McuControl(3), ReadMcuStatus>>
     \/ ops = <<McuControl(3), ReadMcuStatus>> /\ ~Loads
     \/ ops = <<ReadMcuStatus>> /\ ~Loads
     \/ ops = <<>> /\ ~Loads

LoadsPortion == pc = "serve" /\ packet.cmd = "LMS_MCU_FW_WR" /\ reply.status = "BUSY_CMD"

McuBase ==
  /\ ProgramWholeInMcu
  /\ Loads => lms_reset_n
  /\ ~Loads => mcu.fifo = 0 /\ mcu.taken = <<>>

LoadInv ==
  IF LoadsPortion THEN PortionInv(PortionNo) \/ ModeInv(PortionNo)
  ELSE Taken(last_portion + 1) /\ \A i \in DOMAIN ops : ~ForMcu(ops[i])

McuInv == McuBase /\ LoadInv /\ ProgrammedOrError

-----------------------------------------------------------------------------
(***************************************************************************)
(* Induction, and the concatenation of a sequence of sequences.            *)
(***************************************************************************)
\* Induction on the natural numbers, by the least one that is not in S.
LEMMA SetInduction ==
  ASSUME NEW S, 0 \in S, \A n \in Nat : n \in S => n + 1 \in S
  PROVE  Nat \subseteq S
<1> DEFINE T == Nat \ S
           R == OpToRel(<, Nat)
<1>1. SUFFICES ASSUME T # {} PROVE FALSE
  OBVIOUS
<1>2. IsWellFoundedOn(R, Nat)
  BY NatLessThanWellFounded
<1>3. T \subseteq Nat
  OBVIOUS
<1> HIDE DEF R, T
<1>4. \E x \in T : \A y \in T : ~ (<<y, x>> \in R)
  BY <1>1, <1>2, <1>3, WFMin
<1>5. PICK x \in T : \A y \in T : ~ (y < x)
  BY <1>4, <1>3 DEF R, OpToRel
<1> QED
  BY <1>5 DEF T

\* The function that FlattenSeq is defined with.
Flattens(f, ss, n) == f = [i \in 1 .. n |-> IF i = 1 THEN ss[i] ELSE f[i - 1] \o ss[i]]

\* There is such a function.
LEMMA FlattensExists ==
  ASSUME NEW ss, NEW n \in Nat
  PROVE  \E f : Flattens(f, ss, n)
<1> DEFINE S == {m \in Nat : \E f : Flattens(f, ss, m)}
<1>1. 0 \in S
  <2>1. Flattens([i \in 1 .. 0 |-> {}], ss, 0)
    BY DEF Flattens
  <2> QED
    BY <2>1
<1>2. ASSUME NEW m \in Nat, m \in S PROVE m + 1 \in S
  <2>1. PICK f : Flattens(f, ss, m)
    BY <1>2
  <2> DEFINE next == IF m = 0 THEN ss[1] ELSE f[m] \o ss[m + 1]
             g == [i \in 1 .. m + 1 |-> IF i = m + 1 THEN next ELSE f[i]]
  <2>2. g = [i \in 1 .. m + 1 |-> IF i = 1 THEN ss[i] ELSE g[i - 1] \o ss[i]]
    <3>1. ASSUME NEW i \in 1 .. m + 1
          PROVE  g[i] = IF i = 1 THEN ss[i] ELSE g[i - 1] \o ss[i]
      <4>1. CASE i = m + 1
        BY <4>1
      <4>2. CASE i # m + 1
        <5>1. i \in 1 .. m /\ g[i] = f[i]
          BY <4>2
        <5>2. f[i] = IF i = 1 THEN ss[i] ELSE f[i - 1] \o ss[i]
          BY <2>1, <5>1 DEF Flattens
        <5>3. i # 1 => g[i - 1] = f[i - 1]
          BY <5>1
        <5> QED
          BY <5>1, <5>2, <5>3
      <4> QED
        BY <4>1, <4>2
    <3>2. g = [i \in 1 .. m + 1 |-> g[i]]
      OBVIOUS
    <3> HIDE DEF g
    <3> QED
      BY <3>1, <3>2
  <2>3. Flattens(g, ss, m + 1)
    BY <2>2 DEF Flattens
  <2> QED
    BY <2>3
<1> HIDE DEF S
<1>3. Nat \subseteq S
  BY <1>1, <1>2, SetInduction
<1> QED
  BY <1>3 DEF S

\* FlattenSeq takes its pieces one after the other: what holds of nothing, and goes on to
\* hold when a piece is added, holds of the whole.
LEMMA FlattenInduction ==
  ASSUME NEW X, NEW ss, NEW n \in Nat, ss \in [1 .. n -> Seq(X)],
         NEW C, <<>> \in C[0],
         \A i \in 1 .. n, s \in Seq(X) : s \in C[i - 1] => s \o ss[i] \in C[i]
  PROVE  FlattenSeq(ss) \in Seq(X) /\ FlattenSeq(ss) \in C[n]
<1>1. ss \in Seq(Seq(X)) /\ Len(ss) = n
  OBVIOUS
<1>2. CASE n = 0
  <2>1. ss = <<>>
    BY <1>1, <1>2
  <2> QED
    BY <1>2, <2>1 DEF FlattenSeq
<1>3. CASE n # 0
  <2>1. PICK f : Flattens(f, ss, n) /\ FlattenSeq(ss) = f[n]
    BY <1>1, <1>3, FlattensExists DEF FlattenSeq, Flattens
  <2>2. \A i \in 1 .. n : f[i] = IF i = 1 THEN ss[i] ELSE f[i - 1] \o ss[i]
    BY <2>1 DEF Flattens
  <2> DEFINE S == {m \in Nat : m \in 1 .. n => f[m] \in Seq(X) /\ f[m] \in C[m]}
  <2>3. 0 \in S
    OBVIOUS
  <2>4. ASSUME NEW m \in Nat, m \in S PROVE m + 1 \in S
    <3>1. SUFFICES ASSUME m + 1 \in 1 .. n
                   PROVE  f[m + 1] \in Seq(X) /\ f[m + 1] \in C[m + 1]
      OBVIOUS
    <3>2. ss[m + 1] \in Seq(X)
      BY <3>1
    <3>3. f[m + 1] = IF m + 1 = 1 THEN ss[m + 1] ELSE f[m] \o ss[m + 1]
      BY <2>2, <3>1
    <3>4. CASE m = 0
      <4>1. m + 1 = 1 /\ 1 \in 1 .. n /\ 1 - 1 = 0 /\ <<>> \in Seq(X)
        BY <3>1, <3>4
      <4>2. f[m + 1] = ss[1] /\ ss[1] \in Seq(X)
        BY <3>2, <3>3, <4>1
      <4>3. <<>> \o ss[1] \in C[1]
        BY <4>1
      <4>4. <<>> \o ss[1] = ss[1]
        BY <4>2
      <4> QED
        BY <4>1, <4>2, <4>3, <4>4
    <3>5. CASE m # 0
      <4>1. f[m] \in Seq(X) /\ f[m] \in C[m]
        <5>1. m \in 1 .. n
          BY <3>1, <3>5
        <5> QED
          BY <2>4, <5>1
      <4>2. f[m + 1] = f[m] \o ss[m + 1]
        <5>1. m + 1 # 1
          BY <3>5
        <5> QED
          BY <3>3, <5>1
      <4>3. f[m + 1] \in Seq(X)
        BY <3>2, <4>1, <4>2
      <4>4. (m + 1) - 1 = m
        OBVIOUS
      <4>5. f[m] \o ss[m + 1] \in C[m + 1]
        BY <3>1, <4>1, <4>4
      <4> QED
        BY <4>2, <4>3, <4>5
    <3> QED
      BY <3>4, <3>5
  <2> HIDE DEF S
  <2>5. Nat \subseteq S
    BY <2>3, <2>4, SetInduction
  <2>6. n \in S /\ n \in 1 .. n
    BY <1>3, <2>5
  <2> QED
    BY <2>1, <2>6 DEF S
<1> QED
  BY <1>2, <1>3

-----------------------------------------------------------------------------
(***************************************************************************)
(* Sequences, and how many of their elements are in a set.                 *)
(***************************************************************************)
LEMMA TailFacts ==
  ASSUME NEW X, NEW s \in Seq(X), s # <<>>
  PROVE  /\ Tail(s) \in Seq(X) /\ Len(s) \in Nat /\ Len(s) > 0
         /\ Len(Tail(s)) = Len(s) - 1
         /\ DOMAIN s = 1 .. Len(s) /\ DOMAIN Tail(s) = 1 .. Len(s) - 1
         /\ Head(s) = s[1] /\ 1 \in DOMAIN s /\ s[1] \in X
         /\ \A i \in DOMAIN Tail(s) : Tail(s)[i] = s[i + 1] /\ i + 1 \in DOMAIN s
         /\ s = <<s[1]>> \o Tail(s)
OBVIOUS

\* A concatenation, its length and its elements.
LEMMA ConcatFacts ==
  ASSUME NEW X, NEW s \in Seq(X), NEW t \in Seq(X)
  PROVE  /\ s \o t \in Seq(X) /\ Len(s) \in Nat /\ Len(t) \in Nat
         /\ Len(s \o t) = Len(s) + Len(t)
         /\ DOMAIN s = 1 .. Len(s) /\ DOMAIN t = 1 .. Len(t)
         /\ DOMAIN (s \o t) = 1 .. Len(s) + Len(t)
         /\ \A i \in DOMAIN s : (s \o t)[i] = s[i]
         /\ \A i \in DOMAIN t : (s \o t)[Len(s) + i] = t[i]
OBVIOUS

\* An element of a concatenation is one of either part.
LEMMA ConcatSplit ==
  ASSUME NEW X, NEW s \in Seq(X), NEW t \in Seq(X), NEW i \in DOMAIN (s \o t)
  PROVE  \/ i \in DOMAIN s /\ (s \o t)[i] = s[i]
         \/ \E k \in DOMAIN t : i = Len(s) + k /\ (s \o t)[i] = t[k]
<1>1. CASE i <= Len(s)
  BY <1>1, ConcatFacts
<1>2. CASE ~(i <= Len(s))
  <2>1. i - Len(s) \in DOMAIN t /\ i = Len(s) + (i - Len(s))
    BY <1>2, ConcatFacts
  <2> QED
    BY <2>1, ConcatFacts
<1> QED
  BY <1>1, <1>2

\* A set of numbers, each made greater by d, has as many.
LEMMA ShiftCardinality ==
  ASSUME NEW T, T \subseteq Nat, IsFiniteSet(T), NEW d \in Nat
  PROVE  LET U == {i + d : i \in T} IN IsFiniteSet(U) /\ Cardinality(U) = Cardinality(T)
<1> DEFINE U == {i + d : i \in T}
           f == [i \in T |-> i + d]
<1>1. f \in Bijection(T, U)
  <2>1. f \in [T -> U] /\ \A u \in U : \E i \in T : f[i] = u
    OBVIOUS
  <2>2. \A i, j \in T : f[i] = f[j] => i = j
    OBVIOUS
  <2> HIDE DEF f, U
  <2> QED
    BY <2>1, <2>2 DEF Bijection, Injection, Surjection, IsInjective
<1>2. ExistsBijection(T, U)
  BY <1>1 DEF ExistsBijection
<1> HIDE DEF U
<1>3. IsFiniteSet(U) /\ Cardinality(U) = Cardinality(T)
  BY <1>2, FS_Bijection
<1> QED
  BY <1>3 DEF U

\* No more elements of a sequence are in a set than it has.
LEMMA HitsFinite ==
  ASSUME NEW X, NEW s \in Seq(X), NEW S
  PROVE  IsFiniteSet(Hits(s, S)) /\ Count(s, S) \in Nat /\ Count(s, S) <= Len(s)
<1>1. Hits(s, S) \in SUBSET (1 .. Len(s)) /\ Len(s) \in Nat
  BY DEF Hits
<1>2. IsFiniteSet(1 .. Len(s)) /\ Cardinality(1 .. Len(s)) = Len(s)
  <2>1. PICK n \in Nat : n = Len(s)
    BY <1>1
  <2>2. IsFiniteSet(1 .. n) /\ Cardinality(1 .. n) = IF 1 > n THEN 0 ELSE n - 1 + 1
    BY FS_Interval
  <2>3. (IF 1 > n THEN 0 ELSE n - 1 + 1) = n
    OBVIOUS
  <2> QED
    BY <2>1, <2>2, <2>3
<1>3. IsFiniteSet(Hits(s, S)) /\ Cardinality(Hits(s, S)) <= Len(s)
  BY <1>1, <1>2, FS_Subset
<1> QED
  BY <1>3, FS_CardinalityType DEF Count

\* None, if no element is in the set.
LEMMA CountNone ==
  ASSUME NEW s, NEW S, \A i \in DOMAIN s : s[i] \notin S
  PROVE  Count(s, S) = 0
<1>1. Hits(s, S) = {}
  BY DEF Hits
<1> QED
  BY <1>1, FS_EmptySet DEF Count

\* And if there are none, no element is.
LEMMA NoneCounted ==
  ASSUME NEW X, NEW s \in Seq(X), NEW S, Count(s, S) = 0
  PROVE  \A i \in DOMAIN s : s[i] \notin S
<1>1. IsFiniteSet(Hits(s, S))
  BY HitsFinite
<1>2. Hits(s, S) = {}
  BY <1>1, FS_EmptySet DEF Count
<1> QED
  BY <1>2 DEF Hits

\* As many as it has, if all are in the set.
LEMMA CountAll ==
  ASSUME NEW X, NEW s \in Seq(X), NEW S, \A i \in DOMAIN s : s[i] \in S
  PROVE  Count(s, S) = Len(s)
<1>1. Hits(s, S) = 1 .. Len(s) /\ Len(s) \in Nat
  BY DEF Hits
<1> QED
  BY <1>1, FS_Interval DEF Count

\* A concatenation has those of either part.
LEMMA CountConcat ==
  ASSUME NEW X, NEW s \in Seq(X), NEW t \in Seq(X), NEW S
  PROVE  Count(s \o t, S) = Count(s, S) + Count(t, S)
<1> DEFINE U == {i + Len(s) : i \in Hits(t, S)}
<1>1. IsFiniteSet(Hits(s, S)) /\ IsFiniteSet(Hits(t, S)) /\ Count(s, S) \in Nat /\ Count(t, S) \in Nat
  BY HitsFinite
<1>2. IsFiniteSet(U) /\ Cardinality(U) = Count(t, S)
  <2>1. Hits(t, S) \subseteq Nat /\ Len(s) \in Nat
    BY DEF Hits
  <2> QED
    BY <1>1, <2>1, ShiftCardinality DEF Count
<1>3. Hits(s \o t, S) = Hits(s, S) \cup U
  <2>1. ASSUME NEW i \in Hits(s \o t, S) PROVE i \in Hits(s, S) \cup U
    <3>1. i \in DOMAIN (s \o t) /\ (s \o t)[i] \in S
      BY DEF Hits
    <3>2. CASE i \in DOMAIN s /\ (s \o t)[i] = s[i]
      BY <3>1, <3>2 DEF Hits
    <3>3. CASE \E k \in DOMAIN t : i = Len(s) + k /\ (s \o t)[i] = t[k]
      <4>1. PICK k \in DOMAIN t : i = Len(s) + k /\ (s \o t)[i] = t[k]
        BY <3>3
      <4>2. k \in Hits(t, S) /\ i = k + Len(s)
        BY <3>1, <4>1 DEF Hits
      <4> QED
        BY <4>2
    <3> QED
      BY <3>1, <3>2, <3>3, ConcatSplit
  <2>2. ASSUME NEW i \in Hits(s, S) PROVE i \in Hits(s \o t, S)
    <3>1. i \in DOMAIN s /\ s[i] \in S
      BY DEF Hits
    <3>2. i \in DOMAIN (s \o t) /\ (s \o t)[i] = s[i]
      BY <3>1, ConcatFacts
    <3> QED
      BY <3>1, <3>2 DEF Hits
  <2>3. ASSUME NEW k \in Hits(t, S) PROVE k + Len(s) \in Hits(s \o t, S)
    <3>1. k \in DOMAIN t /\ t[k] \in S
      BY DEF Hits
    <3>2. Len(s) + k \in DOMAIN (s \o t) /\ (s \o t)[Len(s) + k] = t[k] /\ Len(s) + k = k + Len(s)
      BY <3>1, ConcatFacts
    <3> QED
      BY <3>1, <3>2 DEF Hits
  <2> QED
    BY <2>1, <2>2, <2>3
<1>4. Hits(s, S) \cap U = {}
  <2>1. Len(s) \in Nat /\ \A i \in Hits(s, S) : i <= Len(s)
    BY DEF Hits
  <2>2. \A k \in Hits(t, S) : k \in Nat /\ k > 0
    BY DEF Hits
  <2>3. \A u \in U : u > Len(s)
    BY <2>1, <2>2
  <2>4. \A i \in Hits(s, S) : i \in Nat
    BY DEF Hits
  <2>5. \A u \in U : u \in Nat
    BY <2>1, <2>2
  <2> HIDE DEF U
  <2> QED
    BY <2>1, <2>3, <2>4, <2>5
<1> HIDE DEF U
<1>5. Cardinality(Hits(s, S) \cup U) = Cardinality(Hits(s, S)) + Cardinality(U) - Cardinality({})
  BY <1>1, <1>2, <1>4, FS_Union
<1> QED
  BY <1>1, <1>2, <1>3, <1>5, FS_EmptySet DEF Count

\* A sequence of one element.
LEMMA CountOne ==
  ASSUME NEW x, NEW S
  PROVE  Count(<<x>>, S) = IF x \in S THEN 1 ELSE 0
<1>1. Hits(<<x>>, S) = IF x \in S THEN {1} ELSE {}
  BY DEF Hits
<1> QED
  BY <1>1, FS_EmptySet, FS_Singleton DEF Count

\* The first element, and those of the rest.
LEMMA CountTail ==
  ASSUME NEW X, NEW s \in Seq(X), s # <<>>, NEW S
  PROVE  /\ Count(s, S) = (IF s[1] \in S THEN 1 ELSE 0) + Count(Tail(s), S)
         /\ Count(s, S) \in Nat /\ Count(Tail(s), S) \in Nat
<1>1. /\ Tail(s) \in Seq(X) /\ <<s[1]>> \in Seq(X) /\ s = <<s[1]>> \o Tail(s)
  BY TailFacts
<1>2. Count(s, S) = Count(<<s[1]>>, S) + Count(Tail(s), S)
  <2>1. PICK h \in Seq(X), t \in Seq(X) : h = <<s[1]>> /\ t = Tail(s)
    BY <1>1
  <2>2. Count(h \o t, S) = Count(h, S) + Count(t, S)
    BY CountConcat
  <2> QED
    BY <1>1, <2>1, <2>2
<1> QED
  <2>1. Count(<<s[1]>>, S) = IF s[1] \in S THEN 1 ELSE 0
    BY CountOne
  <2>2. Count(s, S) \in Nat /\ Count(Tail(s), S) \in Nat
    BY <1>1, HitsFinite
  <2> QED
    BY <1>2, <2>1, <2>2

-----------------------------------------------------------------------------
(***************************************************************************)
(* The programs of the commands.                                           *)
(***************************************************************************)
\* A step with none of the constraints.
Plain(op) == Sane(op) /\ ~IsPumpOn(op) /\ ~IsDacOn(op) /\ ~SetsDacVal(op) /\ ~UsesBytes(op)

\* One driver at a time, from any state in which there is at most one.
OneDriver(s) ==
  /\ \A i \in DOMAIN s : IsPumpOn(s[i]) => NoDac(s) /\ \E j \in 1 .. i - 1 : IsDacOff(s[j])
  /\ \A i \in DOMAIN s : IsDacOn(s[i]) => NoPump(s) /\ \E j \in 1 .. i - 1 : IsPumpOff(s[j])

MayErr == {"LMS_RST", "ANALOG_VAL_RD", "ANALOG_VAL_WR", "LMS_MCU_FW_WR"}

\* What the invariant needs of the program of a command.
Fit(p, s) ==
  /\ Program1(s) /\ OneDriver(s)
  /\ Count(s, DataOps) = IF p.cmd \in Reads THEN Len(p.blocks) ELSE 0
  /\ Count(s, ErrorOps) <= FieldBytes
  /\ p.cmd \notin MayErr => Count(s, ErrorOps) = 0
  /\ p.cmd \in Reads => \A i \in DOMAIN s : Harmless(s[i])
  /\ p.cmd # "LMS_MCU_FW_WR" => \A i \in DOMAIN s : ~ForMcu(s[i])

\* Steps with none of the constraints, in any order, keep them all.
LEMMA PlainProgram ==
  ASSUME NEW s \in Seq(OpSet), \A i \in DOMAIN s : Plain(s[i])
  PROVE  Program1(s) /\ OneDriver(s)
BY DEF Plain, Program1, OneDriver, DacAfterVal, BytesBefore

\* Steps without a value for the reply, without an error, and for other devices than
\* the MCU.
Silent(op) == Plain(op) /\ op \notin DataOps /\ op \notin ErrorOps /\ ~ForMcu(op)

\* A program that adds neither values nor errors fits a command that asks for none.
LEMMA SilentFits ==
  ASSUME NEW p, p.cmd \notin Reads, NEW s \in Seq(OpSet), \A i \in DOMAIN s : Silent(s[i])
  PROVE  Fit(p, s)
<1>1. Program1(s) /\ OneDriver(s)
  BY PlainProgram DEF Silent
<1>2. Count(s, DataOps) = 0 /\ Count(s, ErrorOps) = 0
  BY CountNone DEF Silent
<1>3. 0 <= FieldBytes
  BY ScaleOK
<1> QED
  BY <1>1, <1>2, <1>3 DEF Fit, Silent

\* Reads of registers, one for each value of the reply.
RegReads == {op \in OpSet : op.dev \in {"lms", "brd"} /\ op.act = "read" /\ op.reg \in LmsRegs \cup BrdRegs}

\* A program of register reads fits a command that reads a register for each block.
LEMMA ReadsFit ==
  ASSUME NEW p, p.cmd \in Reads, NEW s \in Seq(RegReads), Len(s) = Len(p.blocks)
  PROVE  Fit(p, s)
<1>1. s \in Seq(OpSet) /\ \A i \in DOMAIN s : s[i] \in RegReads
  BY DEF RegReads
<1>2. ASSUME NEW op \in RegReads
      PROVE  Plain(op) /\ op \in DataOps /\ op \notin ErrorOps /\ Harmless(op) /\ ~ForMcu(op)
  BY <1>2 DEF RegReads, Plain, DataOps, ErrorOps, Harmless, ForMcu, Sane, IsPumpOn, IsDacOn,
       SetsDacVal, UsesBytes, IsTemperature, IsStored, IsMcuControl, IsMcuByte, SavesPortion
<1>3. Program1(s) /\ OneDriver(s)
  BY <1>1, <1>2, PlainProgram
<1>4. Count(s, DataOps) = Len(p.blocks) /\ Count(s, ErrorOps) = 0
  BY <1>1, <1>2, CountAll, CountNone
<1>5. 0 <= FieldBytes
  BY ScaleOK
<1> QED
  BY <1>1, <1>2, <1>3, <1>4, <1>5 DEF Fit

\* One step for each block.
LEMMA ForBlocksOne ==
  ASSUME NEW X, NEW n \in Nat, NEW f \in [1 .. n -> X]
  PROVE  LET s == FlattenSeq([k \in 1 .. n |-> <<f[k]>>]) IN s \in Seq(X) /\ Len(s) = n
<1> DEFINE ss == [k \in 1 .. n |-> <<f[k]>>]
           C == [m \in Nat |-> {s \in Seq(X) : Len(s) = m}]
<1>1. ss \in [1 .. n -> Seq(X)] /\ <<>> \in C[0]
  OBVIOUS
<1>2. ASSUME NEW i \in 1 .. n, NEW s \in Seq(X), s \in C[i - 1]
      PROVE  s \o ss[i] \in C[i]
  <2>1. Len(s) = i - 1 /\ ss[i] \in Seq(X) /\ Len(ss[i]) = 1
    BY <1>2
  <2>2. s \o ss[i] \in Seq(X) /\ Len(s \o ss[i]) = i /\ i \in Nat
    BY <2>1
  <2> QED
    BY <2>2
<1> HIDE DEF ss, C
<1>3. FlattenSeq(ss) \in Seq(X) /\ FlattenSeq(ss) \in C[n]
  BY <1>1, <1>2, FlattenInduction
<1> QED
  BY <1>3 DEF ss, C

\* What CommandOK says of a block.
LEMMA BlocksOK ==
  ASSUME NEW p, CommandOK(p), NEW k \in 1 .. Len(p.blocks)
  PROVE  /\ p.blocks[k] \in [reg : BlockRegs, flag : BOOLEAN, val : Nat]
         /\ p.blocks[k].reg \in BlockRegs /\ p.blocks[k].val \in Nat
         /\ p.cmd \in {"LMS7002_WR", "LMS7002_RD"} => p.blocks[k].reg \in LmsRegs
         /\ p.cmd \in {"BRDSPI16_WR", "BRDSPI16_RD"} => p.blocks[k].reg \in BrdRegs
         /\ p.cmd = "ANALOG_VAL_WR" => p.blocks[k].val \in Byte
         /\ p.cmd = "LMS_MCU_FW_WR" => p.blocks[k].val \in 0 .. LastPortion
<1> DEFINE B == [reg : BlockRegs, flag : BOOLEAN, val : Nat]
<1>1. p.blocks \in Seq(B) /\ k \in DOMAIN p.blocks
  BY DEF CommandOK
<1> HIDE DEF B
<1>2. p.blocks[k] \in B
  BY <1>1
<1>3. p.blocks[k].reg \in BlockRegs /\ p.blocks[k].val \in Nat
  BY <1>2 DEF B
<1> QED
  BY <1>1, <1>2, <1>3 DEF CommandOK, B

\* An access to a register of a chip, other than those of the MCU.
LEMMA RegisterSteps ==
  ASSUME NEW chip \in {"lms", "brd"}, NEW r \in LmsRegs \cup BrdRegs, NEW v \in Nat
  PROVE  /\ RegRead(chip, r) \in RegReads
         /\ RegWrite(chip, r, v) \in OpSet /\ Silent(RegWrite(chip, r, v))
<1>1. RegRead(chip, r) \in OpSet /\ RegWrite(chip, r, v) \in OpSet
  BY DEF RegRead, RegWrite, Op, OpSet, OpRegs, BlockRegs
<1>2. RegRead(chip, r) \in RegReads
  BY <1>1 DEF RegReads, RegRead, Op
<1>3. r \notin {"MCU_CONTROL_REG", "MCU_FIFO_WR_REG"}
  BY DEF LmsRegs, BrdRegs
<1>4. PICK w : w = RegWrite(chip, r, v)
  OBVIOUS
<1>5. w.dev \in {"lms", "brd"} /\ w.act = "write" /\ w.reg = r
  BY <1>4 DEF RegWrite, Op
<1>6. Silent(w)
  BY <1>3, <1>5 DEF Silent, Plain, DataOps, ErrorOps, ForMcu, Sane, IsPumpOn, IsDacOn,
       SetsDacVal, UsesBytes, IsTemperature, IsStored, IsMcuControl, IsMcuByte, SavesPortion
<1> QED
  BY <1>1, <1>2, <1>4, <1>6

\* Commands that write or read registers, a block each.
LEMMA RegisterPrograms ==
  ASSUME NEW p, CommandOK(p),
         p.cmd \in {"LMS7002_WR", "LMS7002_RD", "BRDSPI16_WR", "BRDSPI16_RD"}
  PROVE  Fit(p, Program(p))
<1> DEFINE n == Len(p.blocks)
           chip == IF p.cmd \in {"LMS7002_WR", "LMS7002_RD"} THEN "lms" ELSE "brd"
<1>1. n \in Nat /\ DOMAIN p.blocks = 1 .. n
  BY DEF CommandOK
<1>2. \A k \in 1 .. n : p.blocks[k].reg \in LmsRegs \cup BrdRegs /\ p.blocks[k].val \in Nat
  BY <1>1, BlocksOK
<1>0. chip \in {"lms", "brd"}
  OBVIOUS
<1>3. CASE p.cmd \in {"LMS7002_RD", "BRDSPI16_RD"}
  <2> DEFINE f == [k \in 1 .. n |-> RegRead(chip, p.blocks[k].reg)]
  <2>1. Program(p) = FlattenSeq([k \in 1 .. n |-> <<f[k]>>])
    BY <1>1, <1>3 DEF Program, ForBlocks, RdOps, RegOps
  <2>2. f \in [1 .. n -> RegReads]
    BY <1>0, <1>2, RegisterSteps
  <2> HIDE DEF f, n
  <2>3. Program(p) \in Seq(RegReads) /\ Len(Program(p)) = n
    BY <1>1, <2>1, <2>2, ForBlocksOne
  <2>4. p.cmd \in Reads
    BY <1>3 DEF Reads
  <2> QED
    BY <2>3, <2>4, ReadsFit DEF n
<1>4. CASE p.cmd \in {"LMS7002_WR", "BRDSPI16_WR"}
  <2> DEFINE f == [k \in 1 .. n |-> RegWrite(chip, p.blocks[k].reg, p.blocks[k].val)]
             X == {op \in OpSet : Silent(op)}
  <2>1. Program(p) = FlattenSeq([k \in 1 .. n |-> <<f[k]>>])
    BY <1>1, <1>4 DEF Program, ForBlocks, WrOps, RegOps
  <2>2. f \in [1 .. n -> X]
    BY <1>0, <1>2, RegisterSteps
  <2> HIDE DEF f, n
  <2>3. Program(p) \in Seq(X)
    BY <1>1, <2>1, <2>2, ForBlocksOne
  <2>4. p.cmd \notin Reads
    BY <1>4 DEF Reads
  <2>5. Program(p) \in Seq(OpSet) /\ \A i \in DOMAIN Program(p) : Silent(Program(p)[i])
    BY <2>3
  <2> QED
    BY <2>4, <2>5, SilentFits
<1> QED
  BY <1>3, <1>4

\* Sequences of one and of two elements.
LEMMA ShortTuples ==
  ASSUME NEW X, NEW x \in X, NEW y \in X
  PROVE  /\ <<x>> \in Seq(X) /\ Len(<<x>>) = 1 /\ DOMAIN <<x>> = {1} /\ <<x>>[1] = x
         /\ <<x, y>> \in Seq(X) /\ Len(<<x, y>>) = 2 /\ DOMAIN <<x, y>> = {1, 2}
         /\ <<x, y>>[1] = x /\ <<x, y>>[2] = y
OBVIOUS

\* Commands that run one or two given steps, or none.
LEMMA ShortPrograms ==
  ASSUME NEW p, CommandOK(p),
         p.cmd \in {"GET_INFO", "LMS_RST", "GPIO_DIR_WR", "GPIO_DIR_RD", "GPIO_WR", "GPIO_RD"}
  PROVE  Fit(p, Program(p))
<1>1. CASE p.cmd = "GET_INFO"
  <2>1. Program(p) = <<>> /\ Len(p.blocks) = 0 /\ <<>> \in Seq(OpSet)
    BY <1>1 DEF Program, CommandOK
  <2>2. Program1(<<>>) /\ OneDriver(<<>>)
    <3>1. \A i \in DOMAIN <<>> : Plain(<<>>[i])
      OBVIOUS
    <3> QED
      BY <2>1, <3>1, PlainProgram
  <2>3. Count(<<>>, DataOps) = 0 /\ Count(<<>>, ErrorOps) = 0 /\ 0 <= FieldBytes
    <3>1. \A i \in DOMAIN <<>> : <<>>[i] \notin DataOps /\ <<>>[i] \notin ErrorOps
      OBVIOUS
    <3> QED
      BY <3>1, CountNone, ScaleOK
  <2>4. \A i \in DOMAIN <<>> : Harmless(<<>>[i]) /\ ~ForMcu(<<>>[i])
    OBVIOUS
  <2> QED
    BY <1>1, <2>1, <2>2, <2>3, <2>4 DEF Fit
<1>2. p.cmd # "GET_INFO" => Len(p.blocks) = 1 /\ p.blocks[1].val \in Nat
  <2>1. p.cmd # "GET_INFO" => Len(p.blocks) = 1
    BY DEF CommandOK
  <2> QED
    BY <2>1, BlocksOK
<1>3. CASE p.cmd \in {"GPIO_DIR_RD", "GPIO_RD"}
  <2>1. /\ RegRead("brd", "GPIO_DIR") \in RegReads /\ RegRead("brd", "GPIO_RD") \in RegReads
    BY RegisterSteps DEF BrdRegs
  <2>2. Program(p) \in Seq(RegReads) /\ Len(Program(p)) = 1
    <3>1. Program(p) \in {<<RegRead("brd", "GPIO_DIR")>>, <<RegRead("brd", "GPIO_RD")>>}
      BY <1>3 DEF Program
    <3>2. ASSUME NEW x \in RegReads PROVE <<x>> \in Seq(RegReads) /\ Len(<<x>>) = 1
      BY ShortTuples
    <3> QED
      BY <2>1, <3>1, <3>2
  <2> QED
    BY <1>2, <1>3, <2>2, ReadsFit DEF Reads
<1>4. CASE p.cmd \in {"GPIO_DIR_WR", "GPIO_WR"}
  <2>1. \E r \in BrdRegs : Program(p) = <<RegWrite("brd", r, p.blocks[1].val)>>
    BY <1>4 DEF Program, BrdRegs
  <2>2. Program(p) \in Seq(OpSet) /\ \A i \in DOMAIN Program(p) : Silent(Program(p)[i])
    BY <1>2, <1>4, <2>1, RegisterSteps
  <2>3. p.cmd \notin Reads
    BY <1>4 DEF Reads
  <2> QED
    BY <2>2, <2>3, SilentFits
<1>5. CASE p.cmd = "LMS_RST"
  <2> DEFINE s == Program(p)
  <2>1. s \in {<<LmsReset(1)>>, <<LmsReset(0)>>, <<LmsReset(0), LmsReset(1)>>, <<CmdError>>}
    BY <1>5 DEF Program, LmsRstOps
  <2>2. LmsReset(0) \in OpSet /\ LmsReset(1) \in OpSet /\ CmdError \in OpSet
    BY DEF LmsReset, CmdError, Op, OpSet, OpRegs, BlockRegs
  <2>3. Silent(LmsReset(0)) /\ Silent(LmsReset(1)) /\ Plain(CmdError) /\ CmdError \notin DataOps
        /\ ~ForMcu(CmdError)
    <3>1. ASSUME NEW w, w.dev = "lms_reset", w.reg = "" PROVE Silent(w)
      BY <3>1 DEF Silent, Plain, DataOps, ErrorOps, ForMcu, Sane, IsPumpOn, IsDacOn,
         SetsDacVal, UsesBytes, IsTemperature, IsStored, IsMcuControl, IsMcuByte, SavesPortion
    <3>2. ASSUME NEW w, w.dev = "cpu", w.act = "cmd_errors"
          PROVE  Plain(w) /\ w \notin DataOps /\ ~ForMcu(w)
      BY <3>2 DEF Plain, DataOps, ForMcu, Sane, IsPumpOn, IsDacOn,
         SetsDacVal, UsesBytes, IsTemperature, IsStored, IsMcuControl, IsMcuByte, SavesPortion
    <3>3. /\ \A n \in {0, 1} : LmsReset(n).dev = "lms_reset" /\ LmsReset(n).reg = ""
          /\ CmdError.dev = "cpu" /\ CmdError.act = "cmd_errors"
      BY DEF LmsReset, CmdError, Op
    <3> QED
      BY <3>1, <3>2, <3>3
  <2>4. p.cmd \notin Reads
    BY <1>5 DEF Reads
  <2>5. CASE s = <<CmdError>>
    <3>1. s \in Seq(OpSet) /\ \A i \in DOMAIN s : s[i] = CmdError
      BY <2>2, <2>5
    <3> HIDE DEF s
    <3>2. Program1(s) /\ OneDriver(s)
      BY <2>3, <3>1, PlainProgram
    <3>3. Count(s, DataOps) = 0
      BY <2>3, <3>1, CountNone
    <3>4. Count(s, ErrorOps) <= FieldBytes
      BY <2>5, CountOne, ScaleOK
    <3>5. p.cmd \in MayErr
      BY <1>5 DEF MayErr
    <3> QED
      BY <1>5, <2>3, <2>4, <3>1, <3>2, <3>3, <3>4, <3>5 DEF Fit, s
  <2>6. CASE s # <<CmdError>>
    <3> DEFINE X == {op \in OpSet : Silent(op)}
    <3>1. LmsReset(0) \in X /\ LmsReset(1) \in X
      BY <2>2, <2>3
    <3> HIDE DEF X
    <3>2. s \in Seq(X)
      <4>1. <<LmsReset(0)>> \in Seq(X) /\ <<LmsReset(1)>> \in Seq(X)
            /\ <<LmsReset(0), LmsReset(1)>> \in Seq(X)
        BY <3>1, ShortTuples
      <4> QED
        BY <2>1, <2>6, <4>1
    <3> HIDE DEF s
    <3>3. s \in Seq(OpSet) /\ \A i \in DOMAIN s : Silent(s[i])
      BY <3>2 DEF X
    <3> QED
      BY <2>4, <3>3, SilentFits DEF s
  <2> QED
    BY <2>5, <2>6
<1> QED
  BY <1>1, <1>3, <1>4, <1>5

\* The DAC is off before the charge pump may be on.
LEMMA AdfProgram ==
  ASSUME NEW p, CommandOK(p), p.cmd = "ADF4002_WR"
  PROVE  Fit(p, Program(p))
<1> DEFINE n == Len(p.blocks)
           X == {op \in OpSet : Sane(op) /\ op.dev = "adf"}
           f == [k \in 1 .. n |-> AdfBlock(p.blocks[k].reg, p.blocks[k].flag)]
<1>1. n \in Nat /\ DOMAIN p.blocks = 1 .. n
  BY DEF CommandOK
<1>2. f \in [1 .. n -> X]
  <2>1. ASSUME NEW r \in BlockRegs, NEW d PROVE AdfBlock(r, d) \in X
    <3>1. AdfBlock(r, d) \in OpSet
      BY DEF AdfBlock, Op, OpSet, OpRegs
    <3> QED
      BY <3>1 DEF AdfBlock, Op, Sane, SavesPortion, IsMcuControl, IsMcuByte
  <2>2. \A k \in 1 .. n : p.blocks[k].reg \in BlockRegs
    BY <1>1, BlocksOK
  <2> HIDE DEF X, n
  <2> QED
    BY <2>1, <2>2
<1> DEFINE t == FlattenSeq([k \in 1 .. n |-> <<f[k]>>])
<1>3. Program(p) = <<DacOff>> \o t
  BY <1>1 DEF Program, AdfOps, ForBlocks
<1> HIDE DEF n, f
<1>4. t \in Seq(X)
  BY <1>1, <1>2, ForBlocksOne
<1> HIDE DEF t
<1>5. /\ DacOff \in OpSet /\ IsDacOff(DacOff) /\ Sane(DacOff) /\ ~SetsDacVal(DacOff)
      /\ ~UsesBytes(DacOff) /\ ~ForMcu(DacOff) /\ ~IsDacOn(DacOff) /\ ~IsPumpOn(DacOff)
      /\ DacOff \notin DataOps /\ DacOff \notin ErrorOps
  BY DEF DacOff, Op, OpSet, OpRegs, BlockRegs, IsDacOff, Sane, SetsDacVal, UsesBytes, IsTemperature, IsStored,
       ForMcu, IsMcuControl, IsMcuByte, SavesPortion, IsDacOn, IsPumpOn, DataOps, ErrorOps
<1> DEFINE s == <<DacOff>> \o t
<1>6. /\ s \in Seq(OpSet) /\ s[1] = DacOff /\ Len(s) \in Nat /\ Len(s) > 0
      /\ \A i \in DOMAIN s : i = 1 \/ s[i] \in X
  <2>1. t \in Seq(OpSet) /\ \A i \in DOMAIN t : t[i] \in X
    BY <1>4
  <2> HIDE DEF X
  <2> QED
    BY <1>5, <2>1
<1> HIDE DEF s
<1>7. ASSUME NEW op \in X
      PROVE  /\ ~SetsDacVal(op) /\ ~UsesBytes(op) /\ ~ForMcu(op) /\ ~IsDacOn(op) /\ Sane(op)
             /\ op \notin DataOps /\ op \notin ErrorOps
  BY DEF SetsDacVal, UsesBytes, IsTemperature, IsStored, Sane,
       ForMcu, IsMcuControl, IsMcuByte, SavesPortion, IsDacOn, DataOps, ErrorOps
<1> HIDE DEF X
<1>8. \A i \in DOMAIN s : /\ ~SetsDacVal(s[i]) /\ ~UsesBytes(s[i]) /\ ~ForMcu(s[i]) /\ ~IsDacOn(s[i])
                          /\ Sane(s[i]) /\ s[i] \notin DataOps /\ s[i] \notin ErrorOps
  BY <1>5, <1>6, <1>7
<1>9. Program1(s)
  BY <1>6, <1>8 DEF Program1, DacAfterVal, BytesBefore
<1>10. OneDriver(s)
  <2>1. ASSUME NEW i \in DOMAIN s, IsPumpOn(s[i]) PROVE \E j \in 1 .. i - 1 : IsDacOff(s[j])
    <3>1. i \in Nat /\ i > 1
      BY <1>5, <1>6, <2>1
    <3> QED
      BY <1>5, <1>6, <3>1
  <2> QED
    BY <1>8, <2>1 DEF OneDriver, NoDac
<1>11. Count(s, DataOps) = 0 /\ Count(s, ErrorOps) = 0 /\ 0 <= FieldBytes
  BY <1>8, CountNone, ScaleOK
<1>12. p.cmd \notin Reads
  BY DEF Reads
<1> QED
  BY <1>3, <1>8, <1>9, <1>10, <1>11, <1>12 DEF Fit, s

\* Bytes are read right before they are used, in each of two pieces and so in both.
LEMMA BytesConcat ==
  ASSUME NEW X, NEW s \in Seq(X), NEW t \in Seq(X), BytesBefore(s), BytesBefore(t)
  PROVE  BytesBefore(s \o t)
<1> DEFINE st == s \o t
<1>0. /\ Len(s) \in Nat /\ DOMAIN s = 1 .. Len(s)
      /\ Len(t) \in Nat /\ DOMAIN t = 1 .. Len(t)
      /\ \A i \in 1 .. Len(s) : st[i] = s[i]
      /\ \A i \in 1 .. Len(t) : st[Len(s) + i] = t[i]
  BY ConcatFacts
<1>1. SUFFICES ASSUME NEW i \in DOMAIN st, UsesBytes(st[i])
               PROVE  /\ i > 3
                      /\ st[i - 3] = I2C_start(DeviceRead(st[i]), 1)
                      /\ st[i - 2] = I2C_read(0) /\ st[i - 1] = I2C_read(1)
  BY DEF BytesBefore
<1>4. \/ i \in DOMAIN s /\ st[i] = s[i]
      \/ \E k \in DOMAIN t : i = Len(s) + k /\ st[i] = t[k]
  BY ConcatSplit
<1> HIDE DEF st
<1>2. CASE i \in DOMAIN s /\ st[i] = s[i]
  <2>1. /\ i > 3 /\ s[i - 3] = I2C_start(DeviceRead(s[i]), 1)
        /\ s[i - 2] = I2C_read(0) /\ s[i - 1] = I2C_read(1)
    BY <1>1, <1>2 DEF BytesBefore
  <2>2. i - 3 \in 1 .. Len(s) /\ i - 2 \in 1 .. Len(s) /\ i - 1 \in 1 .. Len(s)
    BY <1>0, <1>2, <2>1
  <2> QED
    BY <1>0, <1>2, <2>1, <2>2
<1>3. ASSUME NEW k \in DOMAIN t, i = Len(s) + k, st[i] = t[k]
      PROVE  /\ i > 3
             /\ st[i - 3] = I2C_start(DeviceRead(st[i]), 1)
             /\ st[i - 2] = I2C_read(0) /\ st[i - 1] = I2C_read(1)
  <2>1. /\ k > 3 /\ t[k - 3] = I2C_start(DeviceRead(t[k]), 1)
        /\ t[k - 2] = I2C_read(0) /\ t[k - 1] = I2C_read(1)
    BY <1>1, <1>3 DEF BytesBefore
  <2>0. PICK l \in Nat, n \in Nat : l = Len(s) /\ n = Len(t)
    BY <1>0
  <2>4. k \in Nat /\ k > 3 /\ k <= n /\ i = l + k
    BY <1>0, <1>3, <2>0, <2>1
  <2>5. k - 3 \in 1 .. n /\ k - 2 \in 1 .. n /\ k - 1 \in 1 .. n
    BY <2>4
  <2>6. i - 3 = l + (k - 3) /\ i - 2 = l + (k - 2) /\ i - 1 = l + (k - 1) /\ i > 3
    BY <2>4
  <2>2. /\ k - 3 \in 1 .. Len(t) /\ k - 2 \in 1 .. Len(t) /\ k - 1 \in 1 .. Len(t)
        /\ i - 3 = Len(s) + (k - 3) /\ i - 2 = Len(s) + (k - 2) /\ i - 1 = Len(s) + (k - 1)
        /\ i > 3
    BY <2>0, <2>5, <2>6
  <2>3. st[i - 3] = t[k - 3] /\ st[i - 2] = t[k - 2] /\ st[i - 1] = t[k - 1]
    BY <1>0, <2>2
  <2> QED
    BY <1>3, <2>1, <2>2, <2>3
<1> QED
  BY <1>2, <1>3, <1>4

\* The pump is off before the DAC is on, and the DAC is on after its value is set, in
\* each of two pieces and so in both.
LEMMA DacConcat ==
  ASSUME NEW X, NEW s \in Seq(X), NEW t \in Seq(X),
         DacAfterPump(s), DacAfterVal(s), DacAfterPump(t), DacAfterVal(t)
  PROVE  DacAfterPump(s \o t) /\ DacAfterVal(s \o t)
<1> DEFINE st == s \o t
<1>0. /\ Len(s) \in Nat /\ DOMAIN s = 1 .. Len(s)
      /\ Len(t) \in Nat /\ DOMAIN t = 1 .. Len(t)
      /\ DOMAIN st = 1 .. Len(s) + Len(t) /\ Len(st) = Len(s) + Len(t)
      /\ \A i \in 1 .. Len(s) : st[i] = s[i]
      /\ \A i \in 1 .. Len(t) : st[Len(s) + i] = t[i]
  BY ConcatFacts
<1>1. ASSUME NEW i \in DOMAIN st
      PROVE  \/ i \in DOMAIN s /\ st[i] = s[i]
             \/ \E k \in DOMAIN t : i = Len(s) + k /\ st[i] = t[k]
  BY ConcatSplit
<1> HIDE DEF st
<1>2. ASSUME NEW i \in DOMAIN st, IsDacOn(st[i])
      PROVE  \E j \in 1 .. i - 1 : IsPumpOff(st[j])
  <2>1. CASE i \in DOMAIN s /\ st[i] = s[i]
    <3>1. PICK j \in 1 .. i - 1 : IsPumpOff(s[j])
      BY <1>2, <2>1 DEF DacAfterPump
    <3>2. j \in 1 .. Len(s)
      BY <1>0, <2>1
    <3> QED
      BY <1>0, <3>1, <3>2
  <2>2. CASE \E k \in DOMAIN t : i = Len(s) + k /\ st[i] = t[k]
    <3>1. PICK k \in DOMAIN t : i = Len(s) + k /\ st[i] = t[k]
      BY <2>2
    <3>2. PICK j \in 1 .. k - 1 : IsPumpOff(t[j])
      BY <1>2, <3>1 DEF DacAfterPump
    <3>3. j \in 1 .. Len(t) /\ Len(s) + j \in 1 .. i - 1
      BY <1>0, <3>1
    <3> QED
      BY <1>0, <3>2, <3>3
  <2> QED
    BY <1>1, <2>1, <2>2
<1>3. ASSUME NEW i \in DOMAIN st, SetsDacVal(st[i])
      PROVE  \E j \in i + 1 .. Len(st) : IsDacOn(st[j])
  <2>1. CASE i \in DOMAIN s /\ st[i] = s[i]
    <3>1. PICK j \in i + 1 .. Len(s) : IsDacOn(s[j])
      BY <1>3, <2>1 DEF DacAfterVal
    <3>2. j \in 1 .. Len(s) /\ j \in i + 1 .. Len(st)
      BY <1>0, <2>1
    <3> QED
      BY <1>0, <3>1, <3>2
  <2>2. CASE \E k \in DOMAIN t : i = Len(s) + k /\ st[i] = t[k]
    <3>1. PICK k \in DOMAIN t : i = Len(s) + k /\ st[i] = t[k]
      BY <2>2
    <3>2. PICK j \in k + 1 .. Len(t) : IsDacOn(t[j])
      BY <1>3, <3>1 DEF DacAfterVal
    <3>3. j \in 1 .. Len(t) /\ Len(s) + j \in i + 1 .. Len(st)
      BY <1>0, <3>1
    <3> QED
      BY <1>0, <3>2, <3>3
  <2> QED
    BY <1>1, <2>1, <2>2
<1> QED
  BY <1>2, <1>3 DEF DacAfterPump, DacAfterVal, st

\* The steps for one channel that is read.
ReadSteps == {op \in OpSet : Sane(op) /\ Harmless(op) /\ ~ForMcu(op)}

\* What is read for one channel: one value, and at most one error.
LEMMA AnalogRdPiece ==
  ASSUME NEW b
  PROVE  /\ AnalogRdOps(b) \in Seq(ReadSteps) /\ BytesBefore(AnalogRdOps(b))
         /\ Count(AnalogRdOps(b), DataOps) = 1 /\ Count(AnalogRdOps(b), ErrorOps) <= 1
<1>1. ASSUME NEW what \in {"dac_val", "temperature", "nothing"}
      PROVE  /\ Report(what) \in ReadSteps /\ Report(what) \in DataOps
             /\ Report(what) \notin ErrorOps /\ (UsesBytes(Report(what)) <=> what = "temperature")
             /\ ~IsStored(Report(what))
  <2>1. Report(what) \in OpSet
    BY DEF Report, Op, OpSet, OpRegs, BlockRegs
  <2>2. PICK w : w = Report(what)
    OBVIOUS
  <2>3. w.dev = "cpu" /\ w.act = "report" /\ w.reg = what
    BY <2>2 DEF Report, Op
  <2> QED
    BY <2>1, <2>2, <2>3 DEF ReadSteps, Sane, Harmless, ForMcu, IsMcuControl, IsMcuByte, SavesPortion,
         DataOps, ErrorOps, UsesBytes, IsTemperature, IsStored
<1>2. ASSUME NEW w \in OpSet, w.dev = "i2c", w.act \in {"start", "write", "read"}, w.reg \in BlockRegs \cup {"lm75"}
      PROVE  w \in ReadSteps /\ w \notin DataOps /\ w \notin ErrorOps /\ ~UsesBytes(w)
  BY <1>2 DEF ReadSteps, Sane, Harmless, ForMcu, IsMcuControl, IsMcuByte, SavesPortion,
         DataOps, ErrorOps, UsesBytes, IsTemperature, IsStored, BlockRegs, LmsRegs, BrdRegs
<1>3. ASSUME NEW n \in {0, 1}
      PROVE  \A w \in {I2C_start("lm75", n), I2C_write(n), I2C_read(n)} :
               w \in ReadSteps /\ w \notin DataOps /\ w \notin ErrorOps /\ ~UsesBytes(w)
  <2>1. \A w \in {I2C_start("lm75", n), I2C_write(n), I2C_read(n)} :
          /\ w \in OpSet /\ w.dev = "i2c" /\ w.act \in {"start", "write", "read"}
          /\ w.reg \in BlockRegs \cup {"lm75"}
    <3>1. n \in Nat /\ "" \in BlockRegs
      BY DEF BlockRegs
    <3>2. ASSUME NEW w, NEW r \in BlockRegs \cup {"lm75"}, NEW a \in {"start", "write", "read"},
                 w = Op("i2c", a, r, n)
          PROVE  /\ w \in OpSet /\ w.dev = "i2c" /\ w.act \in {"start", "write", "read"}
                 /\ w.reg \in BlockRegs \cup {"lm75"}
      BY <3>1, <3>2 DEF Op, OpSet, OpRegs
    <3>3. /\ I2C_start("lm75", n) = Op("i2c", "start", "lm75", n)
          /\ I2C_write(n) = Op("i2c", "write", "", n) /\ I2C_read(n) = Op("i2c", "read", "", n)
      BY DEF I2C_start, I2C_write, I2C_read
    <3>4. ASSUME NEW w \in {I2C_start("lm75", n), I2C_write(n), I2C_read(n)}
          PROVE  \E r \in BlockRegs \cup {"lm75"}, a \in {"start", "write", "read"} :
                   w = Op("i2c", a, r, n)
      <4>1. CASE w = I2C_start("lm75", n)
        BY <3>3, <4>1
      <4>2. CASE w = I2C_write(n)
        BY <3>1, <3>3, <4>2
      <4>3. CASE w = I2C_read(n)
        BY <3>1, <3>3, <4>3
      <4> QED
        BY <4>1, <4>2, <4>3
    <3> QED
      BY <3>2, <3>4
  <2> QED
    BY <1>2, <2>1
<1>4. CmdError \in ReadSteps /\ CmdError \notin DataOps /\ ~UsesBytes(CmdError)
  <2>1. CmdError \in OpSet
    BY DEF CmdError, Op, OpSet, OpRegs, BlockRegs
  <2>2. PICK w : w = CmdError
    OBVIOUS
  <2>3. w.dev = "cpu" /\ w.act = "cmd_errors"
    BY <2>2 DEF CmdError, Op
  <2> QED
    BY <2>1, <2>2, <2>3 DEF ReadSteps, Sane, Harmless, ForMcu, IsMcuControl, IsMcuByte, SavesPortion,
         DataOps, UsesBytes, IsTemperature, IsStored
<1>5. CASE b.reg = "dac"
  <2>1. AnalogRdOps(b) = <<Report("dac_val")>>
    BY <1>5 DEF AnalogRdOps
  <2>2. <<Report("dac_val")>> \in Seq(ReadSteps)
    BY <1>1
  <2>3. BytesBefore(<<Report("dac_val")>>)
    BY <1>1 DEF BytesBefore
  <2> QED
    BY <1>1, <2>1, <2>2, <2>3, CountOne
<1>6. CASE b.reg = "temperature"
  <2>1. PICK o1, o2, o3, o4, o5, o6 :
          /\ o1 = I2C_start("lm75", 0) /\ o2 = I2C_write(1) /\ o3 = I2C_start("lm75", 1)
          /\ o4 = I2C_read(0) /\ o5 = I2C_read(1) /\ o6 = Report("temperature")
    OBVIOUS
  <2>2. AnalogRdOps(b) = <<o1, o2, o3, o4, o5, o6>>
    BY <1>6, <2>1 DEF AnalogRdOps
  <2>3. /\ \A w \in {o1, o2, o3, o4, o5} :
             w \in ReadSteps /\ w \notin DataOps /\ w \notin ErrorOps /\ ~UsesBytes(w)
        /\ o6 \in ReadSteps /\ o6 \in DataOps /\ o6 \notin ErrorOps
    BY <1>1, <1>3, <2>1
  <2>4. <<o1, o2, o3, o4, o5, o6>> \in Seq(ReadSteps)
    BY <2>3
  <2>5. /\ Hits(<<o1, o2, o3, o4, o5, o6>>, DataOps) = {6}
        /\ Hits(<<o1, o2, o3, o4, o5, o6>>, ErrorOps) = {}
    BY <2>3 DEF Hits
  <2>6. BytesBefore(<<o1, o2, o3, o4, o5, o6>>)
    <3>1. DeviceRead(o6) = "lm75"
      BY <1>1, <2>1 DEF DeviceRead
    <3> QED
      BY <2>1, <2>3, <3>1 DEF BytesBefore
  <2> QED
    BY <2>2, <2>4, <2>5, <2>6, FS_Singleton, FS_EmptySet DEF Count
<1>7. CASE b.reg \notin {"dac", "temperature"}
  <2>1. AnalogRdOps(b) = <<CmdError, Report("nothing")>>
    BY <1>7 DEF AnalogRdOps
  <2>2. PICK o1, o2 : o1 = CmdError /\ o2 = Report("nothing")
    OBVIOUS
  <2>3. /\ o1 \in ReadSteps /\ o1 \notin DataOps /\ ~UsesBytes(o1)
        /\ o2 \in ReadSteps /\ o2 \in DataOps /\ o2 \notin ErrorOps /\ ~UsesBytes(o2)
    BY <1>1, <1>4, <2>2
  <2>4. <<o1, o2>> \in Seq(ReadSteps)
    BY <2>3, ShortTuples
  <2>5. Hits(<<o1, o2>>, DataOps) = {2} /\ Hits(<<o1, o2>>, ErrorOps) \in {{1}, {}}
    BY <2>3 DEF Hits
  <2>6. BytesBefore(<<o1, o2>>)
    BY <2>3 DEF BytesBefore
  <2>7. Cardinality({1}) = 1 /\ Cardinality({2}) = 1 /\ Cardinality({}) = 0
    BY FS_Singleton, FS_EmptySet
  <2>8. Count(<<o1, o2>>, DataOps) = 1 /\ Count(<<o1, o2>>, ErrorOps) <= 1
    BY <2>5, <2>7 DEF Count
  <2> QED
    BY <2>1, <2>2, <2>4, <2>6, <2>8
<1> QED
  BY <1>5, <1>6, <1>7

\* CMD_ANALOG_VAL_RD.
LEMMA AnalogRdProgram ==
  ASSUME NEW p, CommandOK(p), p.cmd = "ANALOG_VAL_RD"
  PROVE  Fit(p, Program(p))
<1> DEFINE n == Len(p.blocks)
           ss == [k \in 1 .. n |-> AnalogRdOps(p.blocks[k])]
           C == [m \in Nat |-> {s \in Seq(ReadSteps) : /\ BytesBefore(s) /\ Count(s, DataOps) = m
                                                       /\ Count(s, ErrorOps) <= m}]
           s == FlattenSeq(ss)
<1>1. n \in Nat /\ DOMAIN p.blocks = 1 .. n /\ n <= FieldBytes
  BY DEF CommandOK
<1>2. Program(p) = s
  BY <1>1 DEF Program, ForBlocks
<1>3. ss \in [1 .. n -> Seq(ReadSteps)]
  BY AnalogRdPiece
<1>4. <<>> \in C[0]
  <2>1. <<>> \in Seq(ReadSteps) /\ BytesBefore(<<>>)
    BY DEF BytesBefore
  <2>2. Count(<<>>, DataOps) = 0 /\ Count(<<>>, ErrorOps) = 0
    <3>1. \A i \in DOMAIN <<>> : <<>>[i] \notin DataOps /\ <<>>[i] \notin ErrorOps
      OBVIOUS
    <3> QED
      BY <3>1, CountNone
  <2> QED
    BY <2>1, <2>2
<1>5. ASSUME NEW i \in 1 .. n, NEW t \in Seq(ReadSteps), t \in C[i - 1]
      PROVE  t \o ss[i] \in C[i]
  <2>1. PICK u : u = ss[i]
    OBVIOUS
  <2>2. /\ u \in Seq(ReadSteps) /\ BytesBefore(u)
        /\ Count(u, DataOps) = 1 /\ Count(u, ErrorOps) <= 1
    BY <2>1, AnalogRdPiece
  <2>3. i - 1 \in Nat /\ i \in Nat
    BY <1>1
  <2>4. BytesBefore(t) /\ Count(t, DataOps) = i - 1 /\ Count(t, ErrorOps) <= i - 1
    BY <1>5, <2>3
  <2>5. /\ Count(t, ErrorOps) \in Nat /\ Count(u, ErrorOps) \in Nat
    BY <2>2, HitsFinite
  <2>6. /\ t \o u \in Seq(ReadSteps) /\ BytesBefore(t \o u)
        /\ Count(t \o u, DataOps) = Count(t, DataOps) + Count(u, DataOps)
        /\ Count(t \o u, ErrorOps) = Count(t, ErrorOps) + Count(u, ErrorOps)
    BY <2>2, <2>4, BytesConcat, CountConcat
  <2>7. Count(t \o u, DataOps) = i /\ Count(t \o u, ErrorOps) <= i
    BY <2>2, <2>3, <2>4, <2>5, <2>6
  <2> QED
    BY <2>1, <2>3, <2>6, <2>7
<1> HIDE DEF n, ss, C
<1>6. s \in Seq(ReadSteps) /\ s \in C[n]
  BY <1>1, <1>3, <1>4, <1>5, FlattenInduction
<1> HIDE DEF s
<1>7. BytesBefore(s) /\ Count(s, DataOps) = n /\ Count(s, ErrorOps) <= n
  BY <1>1, <1>6 DEF C
<1>8. s \in Seq(OpSet) /\ \A i \in DOMAIN s : s[i] \in ReadSteps
  BY <1>6 DEF ReadSteps
<1>9. ASSUME NEW op \in ReadSteps
      PROVE  Sane(op) /\ Harmless(op) /\ ~ForMcu(op) /\ ~IsPumpOn(op) /\ ~IsDacOn(op) /\ ~SetsDacVal(op)
  BY DEF ReadSteps, Harmless, IsPumpOn, IsDacOn, SetsDacVal
<1>10. Program1(s) /\ OneDriver(s)
  BY <1>7, <1>8, <1>9 DEF Program1, OneDriver, DacAfterVal
<1>11. Count(s, ErrorOps) <= FieldBytes
  <2>1. Count(s, ErrorOps) \in Nat /\ FieldBytes \in Nat
    BY <1>8, HitsFinite, ScaleOK
  <2> QED
    BY <1>1, <1>7, <2>1
<1>12. p.cmd \in MayErr /\ p.cmd \in Reads
  BY DEF MayErr, Reads
<1> QED
  BY <1>2, <1>7, <1>8, <1>9, <1>10, <1>11, <1>12 DEF Fit, n

\* The steps for one channel that is written.
WriteSteps == {op \in OpSet : /\ Sane(op) /\ ~IsPumpOn(op) /\ ~UsesBytes(op)
                              /\ op \notin DataOps /\ ~ForMcu(op)}

\* What is written for one channel: the pump is off before the DAC is on.
LEMMA AnalogWrPiece ==
  ASSUME NEW b, b.val \in Byte
  PROVE  LET s == AnalogWrOps(b)
         IN  /\ s \in Seq(WriteSteps) /\ DacAfterPump(s) /\ DacAfterVal(s)
             /\ Count(s, ErrorOps) <= 1
<1>1. CmdError \in WriteSteps /\ ~IsDacOn(CmdError) /\ ~SetsDacVal(CmdError)
  <2>1. CmdError \in OpSet
    BY DEF CmdError, Op, OpSet, OpRegs, BlockRegs
  <2>2. PICK w : w = CmdError
    OBVIOUS
  <2>3. w.dev = "cpu" /\ w.act = "cmd_errors"
    BY <2>2 DEF CmdError, Op
  <2> QED
    BY <2>1, <2>2, <2>3 DEF WriteSteps, Sane, ForMcu, IsMcuControl, IsMcuByte, SavesPortion,
         DataOps, UsesBytes, IsTemperature, IsStored, IsPumpOn, IsDacOn, SetsDacVal
<1>2. CASE b.reg = "dac" /\ b.flag
  <2>1. PICK a, c, v, d : /\ a = AdfBlock("latch", FALSE) /\ c = AdfBlock("counter", FALSE)
                          /\ v = SetDacVal(b.val) /\ d = DacOn
    OBVIOUS
  <2>2. a \in OpSet /\ c \in OpSet /\ v \in OpSet /\ d \in OpSet
    <3>1. a \in OpSet
      BY <2>1 DEF AdfBlock, Op, OpSet, OpRegs, BlockRegs
    <3>2. c \in OpSet
      BY <2>1 DEF AdfBlock, Op, OpSet, OpRegs, BlockRegs
    <3>3. v \in OpSet
      <4>1. b.val \in Nat
        BY DEF Byte
      <4> QED
        BY <2>1, <4>1 DEF SetDacVal, Op, OpSet, OpRegs, BlockRegs
    <3>4. d \in OpSet
      BY <2>1 DEF DacOn, Op, OpSet, OpRegs, BlockRegs
    <3> QED
      BY <3>1, <3>2, <3>3, <3>4
  <2>3. /\ a.dev = "adf" /\ a.reg = "latch" /\ a.val # 1 /\ c.dev = "adf" /\ c.reg = "counter"
        /\ v.dev = "cpu" /\ v.act = "dac_val" /\ v.val \in Byte /\ d.dev = "dac" /\ d.act = "on"
        /\ d.reg = ""
    <3>1. a.dev = "adf" /\ a.reg = "latch" /\ a.val = 0
      BY <2>1 DEF AdfBlock, Op
    <3>2. a.val # 1
      BY <3>1
    <3>3. c.dev = "adf" /\ c.reg = "counter"
      BY <2>1 DEF AdfBlock, Op
    <3>4. v.dev = "cpu" /\ v.act = "dac_val" /\ v.val = b.val
      BY <2>1 DEF SetDacVal, Op
    <3>5. d.dev = "dac" /\ d.act = "on" /\ d.reg = ""
      BY <2>1 DEF DacOn, Op
    <3> QED
      BY <3>1, <3>2, <3>3, <3>4, <3>5
  <2>4. /\ IsPumpOff(a) /\ IsDacOn(d)
        /\ \A w \in {a, c, d, v} : w \in WriteSteps /\ w \notin ErrorOps
        /\ \A w \in {a, c, v} : ~IsDacOn(w)
        /\ \A w \in {a, c, d} : ~SetsDacVal(w)
    <3>0. IsPumpOff(a)
      BY <2>3 DEF IsPumpOff
    <3>1. IsDacOn(d) /\ ~IsDacOn(a) /\ ~IsDacOn(c) /\ ~IsDacOn(v)
      BY <2>3 DEF IsDacOn
    <3>2. ~SetsDacVal(a) /\ ~SetsDacVal(c) /\ ~SetsDacVal(d)
      BY <2>3 DEF SetsDacVal
    <3>3. ASSUME NEW w \in OpSet, w.dev \in {"adf", "dac"}, w.reg \in {"latch", "counter", ""},
                 w.val # 1 \/ w.reg # "latch"
          PROVE  w \in WriteSteps /\ w \notin ErrorOps
      BY <3>3 DEF WriteSteps, Sane, ForMcu, IsMcuControl, IsMcuByte, SavesPortion, ErrorOps,
         DataOps, UsesBytes, IsTemperature, IsStored, IsPumpOn
    <3>4. v \in WriteSteps /\ v \notin ErrorOps
      BY <2>2, <2>3 DEF WriteSteps, Sane, ForMcu, IsMcuControl, IsMcuByte, SavesPortion, ErrorOps,
         DataOps, UsesBytes, IsTemperature, IsStored, IsPumpOn
    <3>5. a \in WriteSteps /\ a \notin ErrorOps /\ c \in WriteSteps /\ c \notin ErrorOps
      BY <2>2, <2>3, <3>3
    <3>6. d \in WriteSteps /\ d \notin ErrorOps
      BY <2>2, <2>3, <3>3
    <3> QED
      BY <3>0, <3>1, <3>2, <3>4, <3>5, <3>6
  <2> DEFINE off == <<a, a, c, c>>
             on == <<v, d>>
             s == off \o on
  <2>5. AnalogWrOps(b) = s
    BY <1>2, <2>1 DEF AnalogWrOps, Control_TCXO_ADF_Off
  <2>6. /\ s \in Seq(WriteSteps) /\ DOMAIN s = 1 .. 6 /\ Len(s) = 6
        /\ s[1] = a /\ s[2] = a /\ s[3] = c /\ s[4] = c /\ s[5] = v /\ s[6] = d
    <3>1. /\ off \in Seq(WriteSteps) /\ DOMAIN off = 1 .. 4 /\ Len(off) = 4
          /\ off[1] = a /\ off[2] = a /\ off[3] = c /\ off[4] = c
      BY <2>4
    <3>2. /\ on \in Seq(WriteSteps) /\ DOMAIN on = 1 .. 2 /\ Len(on) = 2
          /\ on[1] = v /\ on[2] = d
      BY <2>4
    <3> HIDE DEF off, on
    <3>0. off \in Seq(WriteSteps) /\ on \in Seq(WriteSteps)
      BY <3>1, <3>2
    <3>3. /\ s \in Seq(WriteSteps) /\ Len(s) = Len(off) + Len(on)
          /\ DOMAIN s = 1 .. Len(off) + Len(on)
          /\ \A i \in DOMAIN off : s[i] = off[i]
          /\ \A i \in DOMAIN on : s[Len(off) + i] = on[i]
      BY <3>0, ConcatFacts DEF s
    <3> HIDE DEF s
    <3>4. s[4 + 1] = v /\ s[4 + 2] = d
      BY <3>1, <3>2, <3>3
    <3> QED
      BY <3>1, <3>2, <3>3, <3>4
  <2> HIDE DEF s
  <2>7. \A i \in 1 .. 6 : i = 1 \/ i = 2 \/ i = 3 \/ i = 4 \/ i = 5 \/ i = 6
    OBVIOUS
  <2>8. DacAfterPump(s) /\ DacAfterVal(s)
    <3>1. ASSUME NEW i \in DOMAIN s, IsDacOn(s[i]) PROVE \E j \in 1 .. i - 1 : IsPumpOff(s[j])
      <4>1. i = 6
        BY <2>4, <2>6, <2>7, <3>1
      <4>2. 1 \in 1 .. i - 1
        BY <4>1
      <4> QED
        BY <2>4, <2>6, <4>2
    <3>2. ASSUME NEW i \in DOMAIN s, SetsDacVal(s[i])
          PROVE  \E j \in i + 1 .. Len(s) : IsDacOn(s[j])
      <4>1. i = 5
        BY <2>4, <2>6, <2>7, <3>2
      <4>2. 6 \in i + 1 .. Len(s)
        BY <2>6, <4>1
      <4> QED
        BY <2>4, <2>6, <4>2
    <3> QED
      BY <3>1, <3>2 DEF DacAfterPump, DacAfterVal
  <2>9. Count(s, ErrorOps) = 0
    <3>1. \A i \in DOMAIN s : s[i] \notin ErrorOps
      BY <2>4, <2>6, <2>7
    <3> QED
      BY <3>1, CountNone
  <2> QED
    BY <2>5, <2>6, <2>8, <2>9
<1>3. CASE ~(b.reg = "dac" /\ b.flag)
  <2>1. AnalogWrOps(b) = <<CmdError>>
    BY <1>3 DEF AnalogWrOps
  <2>2. PICK e : e = CmdError
    OBVIOUS
  <2>3. <<e>> \in Seq(WriteSteps) /\ DOMAIN <<e>> = {1} /\ <<e>>[1] = e
    BY <1>1, <2>2
  <2>4. DacAfterPump(<<e>>) /\ DacAfterVal(<<e>>)
    BY <1>1, <2>2, <2>3 DEF DacAfterPump, DacAfterVal
  <2>5. Count(<<e>>, ErrorOps) <= 1
    BY CountOne
  <2> QED
    BY <2>1, <2>2, <2>3, <2>4, <2>5
<1> QED
  BY <1>2, <1>3

\* The pump is off before the DAC is on, with the value that was set.
LEMMA AnalogWrProgram ==
  ASSUME NEW p, CommandOK(p), p.cmd = "ANALOG_VAL_WR", ~Check_many_blocks(p)
  PROVE  Fit(p, Program(p))
<1> DEFINE n == Len(p.blocks)
           ss == [k \in 1 .. n |-> AnalogWrOps(p.blocks[k])]
           C == [m \in Nat |-> {s \in Seq(WriteSteps) : /\ DacAfterPump(s) /\ DacAfterVal(s)
                                                        /\ Count(s, ErrorOps) <= m}]
           s == FlattenSeq(ss)
<1>1. n \in Nat /\ DOMAIN p.blocks = 1 .. n /\ n <= FieldBytes /\ FieldBytes \in Nat
  <2>1. n \in Nat /\ DOMAIN p.blocks = 1 .. n
    BY DEF CommandOK
  <2>2. n <= FieldBytes \div 4
    <3>1. "ANALOG_VAL_WR" \in DOMAIN BlockBytes /\ BlockBytes["ANALOG_VAL_WR"] = 4
      BY DEF BlockBytes
    <3>2. ~(n > FieldBytes \div 4)
      BY <3>1 DEF Check_many_blocks
    <3> QED
      BY <2>1, <3>2, ScaleOK
  <2>3. FieldBytes \in Nat /\ FieldBytes \div 4 <= FieldBytes /\ FieldBytes \div 4 \in Nat
    BY ScaleOK
  <2> QED
    BY <2>1, <2>2, <2>3
<1>2. Program(p) = s
  BY <1>1 DEF Program, ForBlocks
<1>0. \A k \in 1 .. n : p.blocks[k].val \in Byte
  BY BlocksOK
<1>3. ss \in [1 .. n -> Seq(WriteSteps)]
  BY <1>0, AnalogWrPiece
<1>4. <<>> \in C[0]
  <2>1. <<>> \in Seq(WriteSteps) /\ DacAfterPump(<<>>) /\ DacAfterVal(<<>>)
    BY DEF DacAfterPump, DacAfterVal
  <2>2. Count(<<>>, ErrorOps) = 0
    <3>1. \A i \in DOMAIN <<>> : <<>>[i] \notin ErrorOps
      OBVIOUS
    <3> QED
      BY <3>1, CountNone
  <2> QED
    BY <2>1, <2>2
<1>5. ASSUME NEW i \in 1 .. n, NEW t \in Seq(WriteSteps), t \in C[i - 1]
      PROVE  t \o ss[i] \in C[i]
  <2>1. PICK u : u = ss[i]
    OBVIOUS
  <2>2. /\ u \in Seq(WriteSteps) /\ DacAfterPump(u) /\ DacAfterVal(u) /\ Count(u, ErrorOps) <= 1
    BY <1>0, <2>1, AnalogWrPiece
  <2>3. i - 1 \in Nat /\ i \in Nat
    BY <1>1
  <2>4. DacAfterPump(t) /\ DacAfterVal(t) /\ Count(t, ErrorOps) <= i - 1
    BY <1>5, <2>3
  <2>5. /\ Count(t, ErrorOps) \in Nat /\ Count(u, ErrorOps) \in Nat
    BY <2>2, HitsFinite
  <2>6. /\ t \o u \in Seq(WriteSteps) /\ DacAfterPump(t \o u) /\ DacAfterVal(t \o u)
        /\ Count(t \o u, ErrorOps) = Count(t, ErrorOps) + Count(u, ErrorOps)
    BY <2>2, <2>4, DacConcat, CountConcat
  <2>7. Count(t \o u, ErrorOps) <= i
    BY <2>2, <2>3, <2>4, <2>5, <2>6
  <2> QED
    BY <2>1, <2>3, <2>6, <2>7
<1> HIDE DEF n, ss, C
<1>6. s \in Seq(WriteSteps) /\ s \in C[n]
  BY <1>1, <1>3, <1>4, <1>5, FlattenInduction
<1> HIDE DEF s
<1>7. DacAfterPump(s) /\ DacAfterVal(s) /\ Count(s, ErrorOps) <= n
  BY <1>1, <1>6 DEF C
<1>8. s \in Seq(OpSet) /\ \A i \in DOMAIN s : s[i] \in WriteSteps
  BY <1>6 DEF WriteSteps
<1>9. \A i \in DOMAIN s : /\ Sane(s[i]) /\ ~IsPumpOn(s[i]) /\ ~UsesBytes(s[i])
                          /\ s[i] \notin DataOps /\ ~ForMcu(s[i])
  BY <1>8 DEF WriteSteps
<1>10. Program1(s) /\ OneDriver(s)
  BY <1>7, <1>8, <1>9 DEF Program1, OneDriver, NoPump, DacAfterPump, BytesBefore
<1>11. Count(s, DataOps) = 0 /\ Count(s, ErrorOps) <= FieldBytes
  <2>1. Count(s, ErrorOps) \in Nat
    BY <1>8, HitsFinite
  <2> QED
    BY <1>1, <1>7, <1>9, <2>1, CountNone
<1>12. p.cmd \in MayErr /\ p.cmd \notin Reads
  BY DEF MayErr, Reads
<1> QED
  BY <1>2, <1>9, <1>10, <1>11, <1>12 DEF Fit

-----------------------------------------------------------------------------
(***************************************************************************)
(* The program of a portion of the MCU's program, and the boot.            *)
(***************************************************************************)
McuSteps == {op \in OpSet : Plain(op) /\ op \notin DataOps}

EmptyAwait(limit) == Await("EMPTY_WRITE_BUFF", limit)
ProgrammedAwait == Await("PROGRAMMED", MAX_MCU_RETRIES)
PortionByte(n) == RegWrite("lms", "MCU_FIFO_WR_REG", n)

\* The steps of which the programs for the MCU are made.
LEMMA McuStepsOf ==
  ASSUME NEW n \in 0 .. LastPortion, NEW limit \in Nat, NEW m \in 0 .. 3
  PROVE  /\ EmptyAwait(limit) \in McuSteps /\ ProgrammedAwait \in McuSteps
         /\ PortionByte(n) \in McuSteps /\ SavePortion(n) \in McuSteps
         /\ McuControl(m) \in McuSteps /\ ReadMcuStatus \in McuSteps
         /\ \A w \in {EmptyAwait(limit), PortionByte(n), SavePortion(n), McuControl(m), ReadMcuStatus} :
              w \notin ErrorOps
<1>0. n \in Nat /\ limit \in Nat /\ MAX_MCU_RETRIES \in Nat /\ LastPortion \in Nat /\ m \in Nat
  BY ScaleOK
<1>1. ASSUME NEW w, NEW r \in {"EMPTY_WRITE_BUFF", "PROGRAMMED"}, NEW v \in Nat, w = Await(r, v)
      PROVE  w \in McuSteps /\ (r = "EMPTY_WRITE_BUFF" => w \notin ErrorOps)
  <2>1. w \in OpSet
    BY <1>1 DEF Await, Op, OpSet, OpRegs
  <2>2. w.dev = "await" /\ w.act = "poll" /\ w.reg = r
    BY <1>1 DEF Await, Op
  <2> QED
    BY <2>1, <2>2 DEF McuSteps, Plain, Sane, SavesPortion, IsMcuControl, IsMcuByte, IsPumpOn,
         IsDacOn, SetsDacVal, UsesBytes, IsTemperature, IsStored, DataOps, ErrorOps
<1>2. ASSUME NEW w, w = PortionByte(n) PROVE w \in McuSteps /\ w \notin ErrorOps
  <2>1. w \in OpSet
    BY <1>0, <1>2 DEF PortionByte, RegWrite, Op, OpSet, OpRegs
  <2>2. w.dev = "lms" /\ w.act = "write" /\ w.reg = "MCU_FIFO_WR_REG"
    BY <1>2 DEF PortionByte, RegWrite, Op
  <2> QED
    BY <2>1, <2>2 DEF McuSteps, Plain, Sane, SavesPortion, IsMcuControl, IsMcuByte, IsPumpOn,
         IsDacOn, SetsDacVal, UsesBytes, IsTemperature, IsStored, DataOps, ErrorOps
<1>3. ASSUME NEW w, w = SavePortion(n) PROVE w \in McuSteps /\ w \notin ErrorOps
  <2>1. w \in OpSet
    BY <1>0, <1>3 DEF SavePortion, Op, OpSet, OpRegs, BlockRegs
  <2>2. w.dev = "cpu" /\ w.act = "last_portion" /\ w.reg = "" /\ w.val \in 0 .. LastPortion
    BY <1>3 DEF SavePortion, Op
  <2> QED
    BY <2>1, <2>2 DEF McuSteps, Plain, Sane, SavesPortion, IsMcuControl, IsMcuByte, IsPumpOn,
         IsDacOn, SetsDacVal, UsesBytes, IsTemperature, IsStored, DataOps, ErrorOps
<1>4. ASSUME NEW w, w = McuControl(m) PROVE w \in McuSteps /\ w \notin ErrorOps
  <2>1. w \in OpSet
    BY <1>0, <1>4 DEF McuControl, RegWrite, Op, OpSet, OpRegs
  <2>2. w.dev = "lms" /\ w.act = "write" /\ w.reg = "MCU_CONTROL_REG" /\ w.val \in 0 .. 3
    BY <1>4 DEF McuControl, RegWrite, Op
  <2> QED
    BY <2>1, <2>2 DEF McuSteps, Plain, Sane, SavesPortion, IsMcuControl, IsMcuByte, IsPumpOn,
         IsDacOn, SetsDacVal, UsesBytes, IsTemperature, IsStored, DataOps, ErrorOps
<1>5. ASSUME NEW w, w = ReadMcuStatus PROVE w \in McuSteps /\ w \notin ErrorOps
  <2>1. w \in OpSet
    BY <1>5 DEF ReadMcuStatus, Op, OpSet, OpRegs
  <2>2. w.dev = "lms" /\ w.act = "read_unused" /\ w.reg = "MCU_STATUS_REG"
    BY <1>5 DEF ReadMcuStatus, Op
  <2> QED
    BY <2>1, <2>2 DEF McuSteps, Plain, Sane, SavesPortion, IsMcuControl, IsMcuByte, IsPumpOn,
         IsDacOn, SetsDacVal, UsesBytes, IsTemperature, IsStored, DataOps, ErrorOps
<1> QED
  BY <1>0, <1>1, <1>2, <1>3, <1>4, <1>5 DEF EmptyAwait, ProgrammedAwait

\* The steps for a portion, by their numbers.
LEMMA PortionProgram ==
  ASSUME NEW n \in 0 .. LastPortion
  PROVE  LET s == PortionOps(n)
         IN  /\ s \in Seq(McuSteps) /\ Len(s) = PortionSteps(n) /\ DOMAIN s = 1 .. PortionSteps(n)
             /\ s[1] = EmptyAwait(MAX_MCU_RETRIES)
             /\ \A k \in 2 .. PortionBytes + 1 : s[k] = PortionByte(n)
             /\ s[PortionBytes + 2] = EmptyAwait(WriteRetries)
             /\ n = LastPortion => s[PortionBytes + 3] = ProgrammedAwait
             /\ s[PortionSteps(n)] = SavePortion(n)
<1> DEFINE P == PortionBytes
           X == McuSteps
<1>1. P \in Nat \ {0} /\ MAX_MCU_RETRIES \in Nat /\ WriteRetries \in Nat
  BY ScaleOK
<1>2. PICK e1, b, e2, w, v : /\ e1 = EmptyAwait(MAX_MCU_RETRIES) /\ b = PortionByte(n)
                             /\ e2 = EmptyAwait(WriteRetries) /\ w = ProgrammedAwait
                             /\ v = SavePortion(n)
  OBVIOUS
<1>3. e1 \in X /\ b \in X /\ e2 \in X /\ w \in X /\ v \in X
  <2>1. 0 \in 0 .. 3
    OBVIOUS
  <2> QED
    BY <1>1, <1>2, <2>1, McuStepsOf
<1> DEFINE last == IF n = LastPortion THEN <<w>> ELSE <<>>
           bs == [k \in 1 .. P |-> b]
           s1 == <<e1>> \o bs
           s2 == s1 \o <<e2>>
           s3 == s2 \o last
           s4 == s3 \o <<v>>
<1>4. PortionOps(n) = s4
  BY <1>2 DEF PortionOps, EmptyAwait, ProgrammedAwait, PortionByte
<1> HIDE DEF X
<1>5. /\ s1 \in Seq(X) /\ Len(s1) = P + 1
      /\ s1[1] = e1 /\ \A k \in 2 .. P + 1 : s1[k] = b
  <2>1. bs \in Seq(X) /\ Len(bs) = P /\ DOMAIN bs = 1 .. P /\ \A k \in 1 .. P : bs[k] = b
    BY <1>1, <1>3
  <2>2. <<e1>> \in Seq(X) /\ Len(<<e1>>) = 1 /\ <<e1>>[1] = e1 /\ DOMAIN <<e1>> = {1}
    BY <1>3
  <2> HIDE DEF bs
  <2>3. /\ s1 \in Seq(X) /\ Len(s1) = 1 + P /\ s1[1] = e1
        /\ \A k \in 1 .. P : s1[1 + k] = b
    BY <2>1, <2>2, ConcatFacts
  <2> HIDE DEF s1
  <2>4. ASSUME NEW k \in 2 .. P + 1 PROVE s1[k] = b
    <3>1. k - 1 \in 1 .. P /\ 1 + (k - 1) = k
      BY <1>1
    <3> QED
      BY <2>3, <3>1
  <2> QED
    BY <1>1, <2>3, <2>4
<1> HIDE DEF s1
<1>6. /\ s2 \in Seq(X) /\ Len(s2) = P + 2 /\ s2[1] = e1
      /\ (\A k \in 2 .. P + 1 : s2[k] = b) /\ s2[P + 2] = e2
  <2>1. <<e2>> \in Seq(X) /\ Len(<<e2>>) = 1 /\ <<e2>>[1] = e2 /\ DOMAIN <<e2>> = {1}
    BY <1>3
  <2>2. /\ s2 \in Seq(X) /\ Len(s2) = P + 1 + 1
        /\ \A k \in 1 .. P + 1 : s2[k] = s1[k]
        /\ s2[P + 1 + 1] = e2
    BY <1>5, <2>1, ConcatFacts
  <2> HIDE DEF s2
  <2> QED
    BY <1>1, <1>5, <2>2
<1> HIDE DEF s2
<1> DEFINE L == IF n = LastPortion THEN P + 3 ELSE P + 2
<1>7. /\ s3 \in Seq(X) /\ Len(s3) = L
      /\ s3[1] = e1 /\ (\A k \in 2 .. P + 1 : s3[k] = b) /\ s3[P + 2] = e2
      /\ n = LastPortion => s3[P + 3] = w
  <2>1. CASE n = LastPortion
    <3>1. <<w>> \in Seq(X) /\ Len(<<w>>) = 1 /\ <<w>>[1] = w /\ DOMAIN <<w>> = {1}
      BY <1>3
    <3>2. /\ s3 \in Seq(X) /\ Len(s3) = P + 2 + 1
          /\ \A k \in 1 .. P + 2 : s3[k] = s2[k]
          /\ s3[P + 2 + 1] = w
      BY <1>6, <2>1, <3>1, ConcatFacts
    <3> HIDE DEF s3
    <3> QED
      BY <1>1, <1>6, <2>1, <3>2
  <2>2. CASE n # LastPortion
    <3>1. s3 = s2
      BY <1>6, <2>2
    <3> QED
      BY <1>6, <2>2, <3>1
  <2> QED
    BY <2>1, <2>2
<1> HIDE DEF s3
<1>8. L \in Nat /\ L >= P + 2 /\ (n = LastPortion => L = P + 3) /\ PortionSteps(n) = L + 1
  BY <1>1 DEF PortionSteps
<1> HIDE DEF L
<1>9. /\ s4 \in Seq(X) /\ Len(s4) = L + 1 /\ DOMAIN s4 = 1 .. L + 1
      /\ \A k \in 1 .. L : s4[k] = s3[k]
      /\ s4[L + 1] = v
  <2>1. <<v>> \in Seq(X) /\ Len(<<v>>) = 1 /\ <<v>>[1] = v /\ DOMAIN <<v>> = {1}
    BY <1>3
  <2> QED
    BY <1>7, <1>8, <2>1, ConcatFacts
<1> HIDE DEF s4
<1>10. /\ s4[1] = e1 /\ (\A k \in 2 .. P + 1 : s4[k] = b) /\ s4[P + 2] = e2
       /\ n = LastPortion => s4[P + 3] = w
  BY <1>1, <1>7, <1>8, <1>9
<1> QED
  BY <1>2, <1>4, <1>8, <1>9, <1>10 DEF X

\* One error at most: that the MCU is not programmed when the polls run out.
LEMMA PortionErrors ==
  ASSUME NEW n \in 0 .. LastPortion
  PROVE  Count(PortionOps(n), ErrorOps) <= 1
<1> DEFINE s == PortionOps(n)
           P == PortionBytes
<1>1. P \in Nat \ {0} /\ MAX_MCU_RETRIES \in Nat /\ WriteRetries \in Nat
  BY ScaleOK
<1>2. \A limit \in Nat : EmptyAwait(limit) \notin ErrorOps
  BY McuStepsOf
<1>3. PortionByte(n) \notin ErrorOps /\ SavePortion(n) \notin ErrorOps
  BY McuStepsOf
<1>4. /\ DOMAIN s = 1 .. PortionSteps(n) /\ s[1] = EmptyAwait(MAX_MCU_RETRIES)
      /\ \A k \in 2 .. P + 1 : s[k] = PortionByte(n)
      /\ s[P + 2] = EmptyAwait(WriteRetries)
      /\ s[PortionSteps(n)] = SavePortion(n)
  BY PortionProgram
<1> HIDE DEF s
<1>5. ASSUME NEW i \in Hits(s, ErrorOps) PROVE i = P + 3
  <2>1. i \in 1 .. PortionSteps(n) /\ s[i] \in ErrorOps
    BY <1>4 DEF Hits
  <2>2. i # 1 /\ i # P + 2 /\ i # PortionSteps(n) /\ ~(i \in 2 .. P + 1)
    BY <1>1, <1>2, <1>3, <1>4, <2>1
  <2>3. PortionSteps(n) \in {P + 3, P + 4}
    BY DEF PortionSteps
  <2> QED
    BY <1>1, <2>1, <2>2, <2>3
<1>6. Hits(s, ErrorOps) \in {{}, {P + 3}}
  BY <1>5
<1>7. Cardinality({}) = 0 /\ Cardinality({P + 3}) = 1
  BY FS_EmptySet, FS_Singleton
<1> QED
  BY <1>6, <1>7 DEF Count, s

\* CMD_LMS_MCU_FW_WR.
LEMMA McuProgram ==
  ASSUME NEW p, CommandOK(p), p.cmd = "LMS_MCU_FW_WR"
  PROVE  Fit(p, Program(p))
<1>1. p.blocks[1].val \in 0 .. LastPortion
  <2>1. Len(p.blocks) = 1
    BY DEF CommandOK
  <2> QED
    BY <2>1, BlocksOK
<1>2. PICK n \in 0 .. LastPortion, h \in Seq(McuSteps) :
        /\ Program(p) \in {h, h \o PortionOps(n)}
        /\ \A i \in DOMAIN h : h[i] \notin ErrorOps
  <2> DEFINE b == p.blocks[1]
             Q == {m \in McuSteps : m \notin ErrorOps}
  <2>1. Program(p) = IF b.val = 0 THEN FirstPortionOps(b.reg) ELSE PortionOps(b.val)
    BY DEF Program, McuOps
  <2>2. CASE b.val # 0
    <3>1. <<>> \in Seq(McuSteps) /\ (\A i \in DOMAIN <<>> : <<>>[i] \notin ErrorOps)
      OBVIOUS
    <3>2. <<>> \o PortionOps(b.val) = PortionOps(b.val)
      <4>1. PortionOps(b.val) \in Seq(McuSteps)
        BY <1>1, PortionProgram
      <4> QED
        BY <4>1
    <3> QED
      BY <1>1, <2>1, <2>2, <3>1, <3>2
  <2>3. CASE b.val = 0
    <3>1. LastPortion \in Nat /\ 0 \in 0 .. LastPortion /\ 0 \in Nat
      BY ScaleOK
    <3>2. PICK c0, c1, c2, c3, r : /\ c0 = McuControl(0) /\ c1 = McuControl(1) /\ c2 = McuControl(2)
                                   /\ c3 = McuControl(3) /\ r = ReadMcuStatus
      OBVIOUS
    <3>3. \A m \in 0 .. 3 : McuControl(m) \in Q /\ ReadMcuStatus \in Q
      BY <3>1, McuStepsOf
    <3> HIDE DEF Q
    <3>4. c0 \in Q /\ c1 \in Q /\ c2 \in Q /\ c3 \in Q /\ r \in Q
      <4>1. 0 \in 0 .. 3 /\ 1 \in 0 .. 3 /\ 2 \in 0 .. 3 /\ 3 \in 0 .. 3
        OBVIOUS
      <4> QED
        BY <3>2, <3>3, <4>1
    <3>5. <<c0, c1>> \in Seq(Q) /\ <<c0, c2>> \in Seq(Q) /\ <<c0>> \in Seq(Q) /\ <<c0, c3, r>> \in Seq(Q)
      BY <3>4
    <3>6. FirstPortionOps(b.reg) \in {<<c0, c1>> \o PortionOps(0), <<c0, c2>> \o PortionOps(0),
                                      <<c0, c3, r>>, <<c0>> \o PortionOps(0)}
      BY <3>2 DEF FirstPortionOps
    <3>7. PICK h \in Seq(Q) : Program(p) \in {h, h \o PortionOps(0)}
      BY <2>1, <2>3, <3>5, <3>6
    <3>8. h \in Seq(McuSteps) /\ \A i \in DOMAIN h : h[i] \notin ErrorOps
      BY DEF Q
    <3> QED
      BY <3>1, <3>7, <3>8
  <2> QED
    BY <2>2, <2>3
<1> DEFINE t == PortionOps(n)
           s == Program(p)
<1>3. t \in Seq(McuSteps) /\ Count(t, ErrorOps) <= 1 /\ Count(t, ErrorOps) \in Nat
  BY PortionProgram, PortionErrors, HitsFinite
<1> HIDE DEF t
<1>4. h \o t \in Seq(McuSteps) /\ Count(h \o t, ErrorOps) = Count(h, ErrorOps) + Count(t, ErrorOps)
  BY <1>3, CountConcat
<1>5. Count(h, ErrorOps) = 0
  BY <1>2, CountNone
<1>6. s \in Seq(McuSteps) /\ Count(s, ErrorOps) <= 1 /\ Count(s, ErrorOps) \in Nat
  <2>1. CASE s = h
    BY <1>5, <2>1
  <2>2. CASE s = h \o t
    <3>1. Count(h \o t, ErrorOps) <= 1 /\ Count(h \o t, ErrorOps) \in Nat
      BY <1>3, <1>4, <1>5
    <3> HIDE DEF s
    <3> QED
      BY <1>4, <2>2, <3>1
  <2> QED
    BY <1>2, <2>1, <2>2 DEF t
<1> HIDE DEF s
<1>7. s \in Seq(OpSet) /\ \A i \in DOMAIN s : Plain(s[i]) /\ s[i] \notin DataOps
  BY <1>6 DEF McuSteps
<1>8. Program1(s) /\ OneDriver(s)
  BY <1>7, PlainProgram
<1>9. Count(s, DataOps) = 0 /\ Count(s, ErrorOps) <= FieldBytes
  <2>1. FieldBytes \in Nat /\ FieldBytes >= 1
    BY ScaleOK
  <2> QED
    BY <1>6, <1>7, <2>1, CountNone
<1>10. p.cmd \in MayErr /\ p.cmd \notin Reads
  BY DEF MayErr, Reads
<1> QED
  BY <1>8, <1>9, <1>10 DEF Fit, s

\* The program of every command that is run is as the invariant wants it.
LEMMA ProgramFits ==
  ASSUME NEW p, CommandOK(p), p.cmd \in Known, ~Check_many_blocks(p)
  PROVE  Fit(p, Program(p))
BY RegisterPrograms, ShortPrograms, AdfProgram, AnalogRdProgram, AnalogWrProgram, McuProgram
   DEF Known

\* Steps of the boot that have no constraint.
BootSteps == {op \in OpSet : /\ Sane(op) /\ ~IsPumpOn(op) /\ op \notin ErrorOps /\ ~ForMcu(op)}

\* The boot: the DAC is on at its end, after the pump is off.
LEMMA BootProgram ==
  /\ Boot \in Seq(BootSteps) /\ BytesBefore(Boot) /\ DacAfterPump(Boot) /\ DacAfterVal(Boot)
  /\ \E i \in DOMAIN Boot : IsDacOn(Boot[i])
  /\ \E i \in DOMAIN Boot : IsPumpOff(Boot[i])
<1> DEFINE X == BootSteps
           Free == {op \in X : ~IsDacOn(op) /\ ~SetsDacVal(op) /\ ~UsesBytes(op)}
<1>1. ASSUME NEW w \in OpSet, w.dev \in {"lms_reset", "i2c", "adf"},
             w.reg \in {"", "lm75", "eeprom", "latch", "counter"}, w.val # 1 \/ w.reg # "latch"
      PROVE  w \in Free
  BY <1>1 DEF BootSteps, Sane, ForMcu, IsMcuControl, IsMcuByte, SavesPortion, ErrorOps,
       UsesBytes, IsTemperature, IsStored, IsPumpOn, IsDacOn, SetsDacVal
<1>2. ASSUME NEW w, NEW dev \in {"lms_reset", "i2c", "adf"}, NEW act \in {"start", "write", "read", "block"},
             NEW reg \in {"", "lm75", "eeprom", "latch", "counter"}, NEW val \in Nat,
             w = Op(dev, act, reg, val), val # 1 \/ reg # "latch"
      PROVE  w \in Free
  <2>1. w \in OpSet
    BY <1>2 DEF Op, OpSet, OpRegs, BlockRegs
  <2>2. w.dev = dev /\ w.reg = reg /\ w.val = val
    BY <1>2 DEF Op
  <2> HIDE DEF Free
  <2> QED
    BY <1>1, <1>2, <2>1, <2>2
<1> HIDE DEF Free
<1>3. PICK r0, r1, t0, e0, e1, w0, w1, i0, i1, ld, a, c, d :
        /\ r0 = LmsReset(0) /\ r1 = LmsReset(1) /\ t0 = I2C_start("lm75", 0)
        /\ e0 = I2C_start("eeprom", 0) /\ e1 = I2C_start("eeprom", 1)
        /\ w0 = I2C_write(0) /\ w1 = I2C_write(1) /\ i0 = I2C_read(0) /\ i1 = I2C_read(1)
        /\ ld = LoadDacVal /\ a = AdfBlock("latch", FALSE) /\ c = AdfBlock("counter", FALSE)
        /\ d = DacOn
  OBVIOUS
<1>4. r0 \in Free /\ r1 \in Free
  BY <1>2, <1>3 DEF LmsReset
<1>5. t0 \in Free /\ e0 \in Free /\ e1 \in Free
  BY <1>2, <1>3 DEF I2C_start
<1>6. w0 \in Free /\ w1 \in Free
  BY <1>2, <1>3 DEF I2C_write
<1>7. i0 \in Free /\ i1 \in Free
  BY <1>2, <1>3 DEF I2C_read
<1>8. a \in Free /\ IsPumpOff(a)
  <2>1. a = Op("adf", "block", "latch", 0)
    BY <1>3 DEF AdfBlock
  <2>2. a.dev = "adf" /\ a.reg = "latch" /\ a.val = 0
    BY <2>1 DEF Op
  <2>3. a.val # 1
    BY <2>2
  <2>4. IsPumpOff(a)
    BY <2>2, <2>3 DEF IsPumpOff
  <2>5. 0 \in Nat /\ 0 # 1
    OBVIOUS
  <2> QED
    BY <1>2, <2>1, <2>4, <2>5
<1>9. c \in Free
  <2>1. c = Op("adf", "block", "counter", 0)
    BY <1>3 DEF AdfBlock
  <2> QED
    BY <1>2, <2>1
<1>10. ld \in X /\ SetsDacVal(ld) /\ ~IsDacOn(ld) /\ DeviceRead(ld) = "eeprom"
  <2>1. ld \in OpSet
    BY <1>3 DEF LoadDacVal, Op, OpSet, OpRegs, BlockRegs
  <2>2. ld.dev = "cpu" /\ ld.act = "dac_val_eeprom" /\ ld.reg = ""
    BY <1>3 DEF LoadDacVal, Op
  <2> QED
    BY <2>1, <2>2 DEF BootSteps, Sane, ForMcu, IsMcuControl, IsMcuByte, SavesPortion, ErrorOps,
       IsStored, IsPumpOn, IsDacOn, SetsDacVal, DeviceRead
<1>11. d \in X /\ IsDacOn(d) /\ ~SetsDacVal(d) /\ ~UsesBytes(d)
  <2>1. d \in OpSet
    BY <1>3 DEF DacOn, Op, OpSet, OpRegs, BlockRegs
  <2>2. d.dev = "dac" /\ d.act = "on" /\ d.reg = ""
    BY <1>3 DEF DacOn, Op
  <2> QED
    BY <2>1, <2>2 DEF BootSteps, Sane, ForMcu, IsMcuControl, IsMcuByte, SavesPortion, ErrorOps,
       UsesBytes, IsTemperature, IsStored, IsPumpOn, IsDacOn, SetsDacVal
<1>12. \A op \in Free : op \in X /\ ~IsDacOn(op) /\ ~SetsDacVal(op) /\ ~UsesBytes(op)
  BY DEF Free
<1> HIDE DEF X
<1> DEFINE s1 == <<r0, r1>> \o <<e0, w0, w0, e1, i0, i1>>
           s2 == s1 \o <<ld>>
           s3 == s2 \o <<a, a, c, c>>
           s4 == s3 \o <<d>>
           conf == <<t0, w0, w1>> \o <<t0, w0, w0, w1>> \o <<t0, w0, w0, w1>>
           s5 == s4 \o conf
<1>13. Boot = s5
  BY <1>3 DEF Boot, rd_dac_val, Control_TCXO_ADF_Off, Configure_LM75
<1>14. s1 \in Seq(Free) /\ Len(s1) = 8 /\ s1[6] = e1 /\ s1[7] = i0 /\ s1[8] = i1
  <2>1. <<r0, r1>> \in Seq(Free) /\ Len(<<r0, r1>>) = 2
    BY <1>4
  <2> DEFINE u == <<e0, w0, w0, e1, i0, i1>>
  <2>2. u \in Seq(Free) /\ Len(u) = 6 /\ DOMAIN u = 1 .. 6 /\ u[4] = e1 /\ u[5] = i0 /\ u[6] = i1
    BY <1>5, <1>6, <1>7
  <2> HIDE DEF u
  <2>3. s1 \in Seq(Free) /\ Len(s1) = 2 + 6 /\ \A i \in 1 .. 6 : s1[2 + i] = u[i]
    BY <2>1, <2>2, ConcatFacts DEF u
  <2> HIDE DEF s1
  <2>4. s1[2 + 4] = e1 /\ s1[2 + 5] = i0 /\ s1[2 + 6] = i1
    BY <2>2, <2>3
  <2> QED
    BY <2>3, <2>4
<1> HIDE DEF s1
<1>15. s1 \in Seq(X) /\ \A i \in DOMAIN s1 : s1[i] \in Free
  <2>1. Free \subseteq X
    BY <1>12
  <2>2. s1 \in Seq(Free)
    BY <1>14
  <2> QED
    BY <2>1, <2>2
<1>16. /\ s2 \in Seq(X) /\ Len(s2) = 9 /\ s2[6] = e1 /\ s2[7] = i0 /\ s2[8] = i1 /\ s2[9] = ld
       /\ \A i \in 1 .. 8 : s2[i] \in Free
  <2>1. <<ld>> \in Seq(X) /\ Len(<<ld>>) = 1 /\ DOMAIN <<ld>> = {1} /\ <<ld>>[1] = ld
    BY <1>10
  <2>3. s1 \in Seq(X) /\ Len(s1) = 8 /\ DOMAIN s1 = 1 .. 8
    BY <1>14, <1>15
  <2>4. PICK u : u = <<ld>>
    OBVIOUS
  <2>5. u \in Seq(X) /\ Len(u) = 1 /\ 1 \in DOMAIN u /\ u[1] = ld /\ s2 = s1 \o u
    BY <2>1, <2>4
  <2> HIDE DEF s2
  <2>2. s2 \in Seq(X) /\ Len(s2) = 8 + 1 /\ (\A i \in 1 .. 8 : s2[i] = s1[i]) /\ s2[8 + 1] = ld
    <3>1. s1 \in Seq(X) /\ u \in Seq(X) /\ s2 = s1 \o u
      BY <2>3, <2>5
    <3>2. /\ s2 \in Seq(X) /\ Len(s2) = Len(s1) + Len(u)
          /\ \A i \in DOMAIN s1 : s2[i] = s1[i]
          /\ \A i \in DOMAIN u : s2[Len(s1) + i] = u[i]
      BY <3>1, ConcatFacts
    <3> QED
      BY <2>3, <2>5, <3>2
  <2> QED
    BY <1>14, <1>15, <2>2
<1> HIDE DEF s2
<1>17. BytesBefore(s2)
  <2>1. ASSUME NEW i \in DOMAIN s2, UsesBytes(s2[i]) PROVE i = 9
    <3>1. i \in 1 .. 9 /\ i \notin 1 .. 8
      BY <1>12, <1>16, <2>1
    <3> QED
      BY <3>1
  <2>2. 9 - 3 = 6 /\ 9 - 2 = 7 /\ 9 - 1 = 8 /\ 9 > 3
    OBVIOUS
  <2>3. e1 = I2C_start("eeprom", 1) /\ i0 = I2C_read(0) /\ i1 = I2C_read(1)
    BY <1>3
  <2> QED
    BY <1>10, <1>16, <2>1, <2>2, <2>3 DEF BytesBefore
<1>18. /\ s3 \in Seq(X) /\ Len(s3) = 13 /\ BytesBefore(s3) /\ s3[10] = a
       /\ \A i \in DOMAIN s3 : ~IsDacOn(s3[i])
  <2> DEFINE u == <<a, a, c, c>>
  <2>1. /\ u \in Seq(X) /\ Len(u) = 4 /\ DOMAIN u = 1 .. 4 /\ u[1] = a
        /\ \A i \in DOMAIN u : u[i] \in Free
    BY <1>8, <1>9, <1>12
  <2> HIDE DEF u
  <2>2. BytesBefore(u) /\ \A i \in DOMAIN u : ~IsDacOn(u[i])
    BY <1>12, <2>1 DEF BytesBefore
  <2>0. s2 \in Seq(X) /\ u \in Seq(X) /\ s3 = s2 \o u
    BY <1>16, <2>1 DEF u
  <2> HIDE DEF s3
  <2>6. /\ s3 \in Seq(X) /\ Len(s3) = Len(s2) + Len(u)
        /\ \A i \in DOMAIN u : s3[Len(s2) + i] = u[i]
    BY <2>0, ConcatFacts
  <2>7. \A i \in DOMAIN s3 : \/ i \in DOMAIN s2 /\ s3[i] = s2[i]
                             \/ \E k \in DOMAIN u : i = Len(s2) + k /\ s3[i] = u[k]
    BY <2>0, ConcatSplit
  <2>8. BytesBefore(s3)
    BY <1>17, <2>0, <2>2, BytesConcat
  <2>3. s3 \in Seq(X) /\ BytesBefore(s3)
    BY <2>6, <2>8
  <2>4. Len(s3) = 9 + 4 /\ s3[9 + 1] = a
    BY <1>16, <2>1, <2>6
  <2>5. ASSUME NEW i \in DOMAIN s3 PROVE ~IsDacOn(s3[i])
    <3>2. \A k \in DOMAIN s2 : ~IsDacOn(s2[k])
      <4>1. ASSUME NEW k \in DOMAIN s2 PROVE s2[k] \in Free \/ s2[k] = ld
        <5>1. k \in 1 .. 8 \/ k = 9
          BY <1>16
        <5> QED
          BY <1>16, <5>1
      <4> QED
        BY <1>10, <1>12, <4>1
    <3> QED
      BY <2>2, <2>7, <3>2
  <2> QED
    BY <2>3, <2>4, <2>5
<1> HIDE DEF s3
<1>19. /\ s4 \in Seq(X) /\ Len(s4) = 14 /\ BytesBefore(s4) /\ s4[10] = a /\ s4[14] = d
       /\ DOMAIN s4 = 1 .. 14
       /\ \A i \in DOMAIN s4 : (IsDacOn(s4[i]) => i = 14) /\ (SetsDacVal(s4[i]) => i # 14)
  <2>1. /\ <<d>> \in Seq(X) /\ Len(<<d>>) = 1 /\ DOMAIN <<d>> = {1} /\ <<d>>[1] = d
    BY <1>11
  <2>2. BytesBefore(<<d>>)
    BY <1>11, <2>1 DEF BytesBefore
  <2>0. s3 \in Seq(X) /\ <<d>> \in Seq(X) /\ BytesBefore(s3)
    BY <1>18, <2>1
  <2>3. s4 \in Seq(X) /\ BytesBefore(s4)
    BY <2>0, <2>2, BytesConcat, ConcatFacts
  <2>7. /\ Len(s4) = Len(s3) + Len(<<d>>) /\ DOMAIN s4 = 1 .. Len(s3) + Len(<<d>>)
        /\ DOMAIN s3 = 1 .. Len(s3)
        /\ \A i \in DOMAIN s3 : s4[i] = s3[i]
        /\ \A i \in DOMAIN <<d>> : s4[Len(s3) + i] = <<d>>[i]
    BY <2>0, ConcatFacts
  <2> HIDE DEF s4
  <2>4. /\ Len(s4) = 13 + 1 /\ DOMAIN s4 = 1 .. 13 + 1 /\ s4[13 + 1] = d
        /\ \A i \in 1 .. 13 : s4[i] = s3[i]
    BY <1>18, <2>1, <2>7
  <2>5. ASSUME NEW i \in DOMAIN s4 PROVE (IsDacOn(s4[i]) => i = 14) /\ (SetsDacVal(s4[i]) => i # 14)
    <3>1. i \in 1 .. 13 \/ i = 14
      BY <2>4
    <3>2. i \in 1 .. 13 => ~IsDacOn(s4[i])
      BY <1>18, <2>4
    <3>3. i = 14 => ~SetsDacVal(s4[i])
      BY <1>11, <2>4
    <3> QED
      BY <3>1, <3>2, <3>3
  <2>6. 10 \in 1 .. 13
    OBVIOUS
  <2> QED
    BY <1>18, <2>3, <2>4, <2>5, <2>6
<1> HIDE DEF s4
<1>20. DacAfterPump(s4) /\ DacAfterVal(s4)
  <2>1. ASSUME NEW i \in DOMAIN s4, IsDacOn(s4[i]) PROVE \E j \in 1 .. i - 1 : IsPumpOff(s4[j])
    <3>1. i = 14
      BY <1>19, <2>1
    <3>2. 10 \in 1 .. i - 1
      BY <3>1
    <3> QED
      BY <1>8, <1>19, <3>2
  <2>2. ASSUME NEW i \in DOMAIN s4, SetsDacVal(s4[i]) PROVE \E j \in i + 1 .. Len(s4) : IsDacOn(s4[j])
    <3>1. i # 14 /\ i \in 1 .. 14
      BY <1>19, <2>2
    <3>2. 14 \in i + 1 .. Len(s4)
      BY <1>19, <3>1
    <3> QED
      BY <1>11, <1>19, <3>2
  <2> QED
    BY <2>1, <2>2 DEF DacAfterPump, DacAfterVal
<1>21. conf \in Seq(Free)
  <2> DEFINE u == <<t0, w0, w1>>
             v == <<t0, w0, w0, w1>>
  <2>1. u \in Seq(Free) /\ v \in Seq(Free)
    BY <1>5, <1>6
  <2> HIDE DEF u, v
  <2>2. u \o v \in Seq(Free)
    BY <2>1
  <2>3. u \o v \o v \in Seq(Free)
    BY <2>1, <2>2
  <2> QED
    BY <2>3 DEF u, v
<1> HIDE DEF conf
<1>22. /\ conf \in Seq(X) /\ BytesBefore(conf) /\ DacAfterPump(conf) /\ DacAfterVal(conf)
  <2>1. conf \in Seq(X) /\ \A i \in DOMAIN conf : conf[i] \in Free
    BY <1>12, <1>21
  <2> QED
    BY <1>12, <2>1 DEF BytesBefore, DacAfterPump, DacAfterVal
<1>23. /\ s5 \in Seq(X) /\ BytesBefore(s5) /\ DacAfterPump(s5) /\ DacAfterVal(s5)
  BY <1>19, <1>20, <1>22, BytesConcat, DacConcat
<1>24. /\ 10 \in DOMAIN s5 /\ s5[10] = a /\ 14 \in DOMAIN s5 /\ s5[14] = d
  <2>1. /\ DOMAIN s5 = 1 .. Len(s4) + Len(conf) /\ Len(conf) \in Nat
        /\ \A i \in DOMAIN s4 : s5[i] = s4[i]
    <3>1. s4 \in Seq(X) /\ conf \in Seq(X)
      BY <1>19, <1>22
    <3> QED
      BY <3>1, ConcatFacts
  <2> HIDE DEF s5
  <2>2. 10 \in 1 .. 14 /\ 14 \in 1 .. 14
    OBVIOUS
  <2> QED
    BY <1>19, <2>1, <2>2
<1> HIDE DEF s5
<1> QED
  BY <1>8, <1>11, <1>13, <1>23, <1>24 DEF X

-----------------------------------------------------------------------------
(***************************************************************************)
(* The words on their way (LoopInv).                                       *)
(***************************************************************************)
WordsOf(t) == {<<t, m>> : m \in Nat}

\* A run, its length and its words.
LEMMA RunIs ==
  ASSUME NEW t, NEW a \in Nat, NEW n \in Nat
  PROVE  /\ Run(t, a, n) \in Seq(WordsOf(t)) /\ Len(Run(t, a, n)) = n
         /\ DOMAIN Run(t, a, n) = 1 .. n
         /\ \A k \in 1 .. n : Run(t, a, n)[k] = <<t, a + k>>
BY DEF Run, WordsOf

\* A run of words is taken from at its head and added to at its end.
LEMMA RunFacts ==
  ASSUME NEW t, NEW a \in Nat, NEW n \in Nat
  PROVE  /\ Len(Run(t, a, n)) = n /\ (n = 0 <=> Run(t, a, n) = <<>>)
         /\ Run(t, a, 0) = <<>>
         /\ n > 0 => Head(Run(t, a, n)) = <<t, a + 1>> /\ Tail(Run(t, a, n)) = Run(t, a + 1, n - 1)
         /\ Append(Run(t, a, n), <<t, a + n + 1>>) = Run(t, a, n + 1)
         /\ PacketOf(t) = Run(t, 0, PacketWords)
<1> DEFINE X == WordsOf(t)
           r == Run(t, a, n)
<1>1. r \in Seq(X) /\ Len(r) = n /\ \A k \in 1 .. n : r[k] = <<t, a + k>>
  BY RunIs
<1>0. <<t, a + n + 1>> \in X
  <2>1. a + n + 1 \in Nat
    OBVIOUS
  <2> QED
    BY <2>1 DEF WordsOf
<1>2. n = 0 <=> r = <<>>
  <2> HIDE DEF r
  <2> QED
    BY <1>1
<1>3. Run(t, a, 0) = <<>>
  BY DEF Run
<1>4. ASSUME n > 0 PROVE Head(r) = <<t, a + 1>> /\ Tail(r) = Run(t, a + 1, n - 1)
  <2>1. r # <<>> /\ r \in Seq(X) /\ Len(r) = n /\ \A k \in 1 .. n : r[k] = <<t, a + k>>
    BY <1>1, <1>2, <1>4
  <2> DEFINE u == Tail(r)
             v == Run(t, a + 1, n - 1)
  <2>2. /\ u \in Seq(X) /\ Len(u) = n - 1 /\ Head(r) = r[1]
        /\ \A k \in 1 .. n - 1 : u[k] = r[k + 1]
    BY <2>1
  <2>3. /\ v \in Seq(X) /\ Len(v) = n - 1 /\ \A k \in 1 .. n - 1 : v[k] = <<t, a + 1 + k>>
    <3>1. a + 1 \in Nat /\ n - 1 \in Nat
      BY <1>4
    <3> QED
      BY <3>1, RunIs
  <2> HIDE DEF r, u, v
  <2>4. ASSUME NEW k \in 1 .. n - 1 PROVE u[k] = v[k]
    <3>1. k + 1 \in 1 .. n /\ a + (k + 1) = a + 1 + k
      BY <1>4
    <3> QED
      BY <2>1, <2>2, <2>3, <3>1
  <2>5. u = v
    BY <2>2, <2>3, <2>4
  <2>6. 1 \in 1 .. n
    BY <1>4
  <2> QED
    BY <2>1, <2>2, <2>5, <2>6 DEF u, v
<1>5. Append(r, <<t, a + n + 1>>) = Run(t, a, n + 1)
  <2> DEFINE w == <<t, a + n + 1>>
             u == Append(r, w)
             v == Run(t, a, n + 1)
  <2>1. r \in Seq(X) /\ Len(r) = n /\ \A k \in 1 .. n : r[k] = <<t, a + k>>
    BY <1>1
  <2>2. w \in X
    BY <1>0
  <2>3. v \in Seq(X) /\ Len(v) = n + 1 /\ \A k \in 1 .. n + 1 : v[k] = <<t, a + k>>
    <3>1. n + 1 \in Nat
      OBVIOUS
    <3> QED
      BY <3>1, RunIs
  <2> HIDE DEF r, v
  <2>4. /\ u \in Seq(X) /\ Len(u) = n + 1 /\ u[n + 1] = w
        /\ \A k \in 1 .. n : u[k] = r[k]
    BY <2>1, <2>2
  <2> HIDE DEF u
  <2>5. ASSUME NEW k \in 1 .. n + 1 PROVE u[k] = v[k]
    <3>1. CASE k \in 1 .. n
      BY <2>1, <2>3, <2>4, <3>1
    <3>2. CASE k = n + 1
      <4>1. a + k = a + n + 1
        BY <3>2
      <4> QED
        BY <2>3, <2>4, <3>2, <4>1
    <3> QED
      BY <3>1, <3>2
  <2>6. u = v
    BY <2>3, <2>4, <2>5
  <2> QED
    BY <2>6 DEF u, v
<1>6. PacketOf(t) = Run(t, 0, PacketWords)
  <2>1. \A k \in 1 .. PacketWords : 0 + k = k
    BY SessionsOK
  <2> QED
    BY <2>1 DEF PacketOf, Run
<1> QED
  BY <1>1, <1>2, <1>3, <1>4, <1>5, <1>6

\* The first word of a run, and the run of the others.
LEMMA RunHead ==
  ASSUME NEW t, NEW a \in Nat, NEW n \in Nat, n > 0
  PROVE  Head(Run(t, a, n)) = <<t, a + 1>> /\ Tail(Run(t, a, n)) = Run(t, a + 1, n - 1)
BY RunFacts

\* LoopInv holds at first.
LEMMA LoopInit == Init => LoopInv
<1> SUFFICES ASSUME Init PROVE LoopInv
  OBVIOUS
<1>1. PacketWords \in Nat \ {0}
  BY SessionsOK
<1>2. /\ session \in Sessions /\ asked = None /\ tag = 0 /\ sent = PacketWords /\ got = <<>>
      /\ moved = FALSE /\ EP0F = <<>> /\ EP8F = <<>> /\ EP8F_aclrn = TRUE /\ pc = "boot"
      /\ glEp0Buffer_Rx = <<>> /\ cnt = 0
  BY DEF Init
<1>3. Len(glEp0Buffer_Rx) = 0 /\ glEp0Buffer_Rx = Run(tag, 0, Len(glEp0Buffer_Rx))
  BY <1>2, RunFacts
<1>4. LoopBase
  <2>1. tag \in {0, 1} /\ sent \in 0 .. PacketWords /\ cnt \in 0 .. PacketWords
    BY <1>1, <1>2
  <2>2. Len(glEp0Buffer_Rx) <= PacketWords
    BY <1>1, <1>3
  <2> QED
    BY <1>2, <1>3, <2>1, <2>2 DEF LoopBase, Getting
<1>5. Quiet
  BY <1>2 DEF Quiet, AllSent, NoAnswer
<1> QED
  BY <1>4, <1>5 DEF LoopInv

\* Steps that leave the words where they are.
LEMMA LoopStill ==
  ASSUME LoopInv, moved' \in BOOLEAN, pc \in Getting => moved' = moved,
         UNCHANGED <<session, asked, tag, sent, got, EP0F, EP8F, EP8F_aclrn, pc, glEp0Buffer_Rx, cnt>>
  PROVE  LoopInv'
BY DEF LoopInv, LoopBase, Quiet, Asking, Serving, Answering, AllSent, NoAnswer, Run, Getting

\* What the phase says where the loop is.
LEMMA Phases ==
  ASSUME LoopInv
  PROVE  /\ asked = None => Quiet
         /\ sent # PacketWords => Asking
         /\ pc \in Getting \cup {"decode"} => Asking
         /\ pc \in {"serve", "send"} => Serving
         /\ EP0F # <<>> => Asking
         /\ PacketWords \in Nat \ {0} /\ sent \in Nat /\ Len(glEp0Buffer_Rx) \in Nat
         /\ tag \in {0, 1}
<1>1. PacketWords \in Nat \ {0}
  BY SessionsOK
<1>2. sent \in Nat /\ tag \in {0, 1}
  BY <1>1 DEF LoopInv, LoopBase
<1>3. Len(glEp0Buffer_Rx) \in Nat
  <2>1. pc \notin {"read", "decode"} => glEp0Buffer_Rx = <<>>
    BY DEF LoopInv, LoopBase
  <2>2. glEp0Buffer_Rx = Run(tag, 0, Len(glEp0Buffer_Rx))
    BY DEF LoopInv, LoopBase
  <2>3. DOMAIN glEp0Buffer_Rx = 1 .. Len(glEp0Buffer_Rx)
    BY <2>2 DEF Run
  <2> QED
    BY <2>1, <2>2, <2>3
<1> QED
  BY <1>1, <1>2, <1>3 DEF LoopInv, Quiet, Asking, Serving, Answering, AllSent, NoAnswer, Getting

\* A word for the host is the next of the reply to its command.
LEMMA FetchFacts ==
  ASSUME LoopInv, FX3Fetches
  PROVE  /\ Answering /\ AllSent /\ pc \in {"poll", "led_off"}
         /\ Len(got) \in Nat /\ Len(got) < PacketWords
         /\ Append(got, Head(EP8F)) = Run(tag, 0, Len(got) + 1)
         /\ Len(Append(got, Head(EP8F))) = Len(got) + 1
         /\ EP8F' = Run(tag, Len(got) + 1, PacketWords - (Len(got) + 1))
         /\ PacketWords - (Len(got) + 1) \in Nat
<1> DEFINE words == Append(got, Head(EP8F))
<1>0. PacketWords \in Nat \ {0} /\ sent \in Nat /\ Len(glEp0Buffer_Rx) \in Nat /\ tag \in {0, 1}
  BY Phases
<1>1. /\ got # <<>> \/ Len(EP8F) >= PacketWords
      /\ EP8F # <<>> /\ asked # None /\ EP8F' = Tail(EP8F)
  BY DEF FX3Fetches
<1>2. Answering
  <2>1. ~Asking /\ ~Quiet
    BY <1>1 DEF Asking, Quiet, NoAnswer
  <2>2. ~Serving
    <3>1. SUFFICES ASSUME Serving PROVE FALSE
      OBVIOUS
    <3>2. got = <<>> /\ EP8F = Run(tag, 0, cnt) /\ pc \in {"serve", "send"}
      BY <3>1 DEF Serving
    <3>3. cnt < PacketWords /\ cnt \in Nat
      BY <1>0, <3>2 DEF LoopInv, LoopBase
    <3>4. Len(EP8F) = cnt
      BY <3>2, <3>3, RunFacts
    <3> QED
      BY <1>0, <1>1, <3>2, <3>3, <3>4
  <2> QED
    BY <2>1, <2>2 DEF LoopInv
<1> DEFINE g == Len(got)
<1>3. /\ g < PacketWords /\ got = Run(tag, 0, g) /\ EP8F = Run(tag, g, PacketWords - g)
      /\ pc \in {"poll", "led_off"} /\ AllSent
  BY <1>0, <1>2 DEF Answering
<1>4. g \in Nat
  BY <1>0, <1>2 DEF Answering
<1>5. PacketWords - g \in Nat /\ PacketWords - g > 0 /\ g + 1 \in Nat
      /\ 0 + g + 1 = g + 1 /\ (PacketWords - g) - 1 = PacketWords - (g + 1)
  BY <1>0, <1>3, <1>4
<1>6. /\ Head(EP8F) = <<tag, g + 1>> /\ EP8F' = Run(tag, g + 1, PacketWords - (g + 1))
  <2>1. EP8F = Run(tag, g, PacketWords - g) /\ EP8F' = Tail(EP8F)
    BY <1>1, <1>3
  <2>2. /\ Head(Run(tag, g, PacketWords - g)) = <<tag, g + 1>>
        /\ Tail(Run(tag, g, PacketWords - g)) = Run(tag, g + 1, (PacketWords - g) - 1)
    <3>1. PICK n \in Nat : n = PacketWords - g /\ n > 0
      BY <1>5
    <3>2. Head(Run(tag, g, n)) = <<tag, g + 1>> /\ Tail(Run(tag, g, n)) = Run(tag, g + 1, n - 1)
      BY <1>4, <3>1, RunHead
    <3> QED
      BY <3>1, <3>2
  <2> QED
    BY <1>5, <2>1, <2>2
<1>7. words = Run(tag, 0, g + 1) /\ Len(words) = g + 1
  <2>1. Append(Run(tag, 0, g), <<tag, 0 + g + 1>>) = Run(tag, 0, g + 1)
    BY <1>4, RunFacts
  <2>2. Len(Run(tag, 0, g + 1)) = g + 1
    <3>1. PICK n \in Nat : n = g + 1
      BY <1>5
    <3>2. Len(Run(tag, 0, n)) = n
      BY RunIs
    <3> QED
      BY <3>1, <3>2
  <2> QED
    BY <1>3, <1>5, <1>6, <2>1, <2>2
<1> QED
  BY <1>2, <1>3, <1>4, <1>5, <1>6, <1>7

\* The host asks, and the FX3 moves a word.
LEMMA LoopHost ==
  ASSUME LoopInv, HostAsks \/ FX3Delivers \/ FX3Fetches
  PROVE  LoopInv'
<1> DEFINE L == Len(glEp0Buffer_Rx)
<1>0. PacketWords \in Nat \ {0} /\ sent \in Nat /\ L \in Nat /\ tag \in {0, 1}
  BY Phases
<1>1. CASE HostAsks
  <2>1. /\ asked = None /\ asked' \in session.commands /\ tag' = 1 - tag /\ sent' = 0
        /\ got' = <<>>
        /\ UNCHANGED <<session, moved, EP0F, EP8F, EP8F_aclrn, pc, glEp0Buffer_Rx, cnt>>
    BY <1>1 DEF HostAsks, fifoVars, cmdVars
  <2>2. Quiet
    BY <2>1, Phases
  <2>3. /\ pc \in {"boot", "poll", "led_off"} /\ EP0F = <<>> /\ EP8F = <<>>
    BY <2>2 DEF Quiet, AllSent, NoAnswer
  <2>4. glEp0Buffer_Rx = <<>>
    BY <2>3 DEF LoopInv, LoopBase
  <2>5. Len(glEp0Buffer_Rx') = 0 /\ \A t : Run(t, 0, 0) = <<>>
    BY <2>1, <2>4, RunFacts
  <2>6. asked' # None /\ session \in Sessions
    BY <2>1, SessionsOK DEF LoopInv, LoopBase
  <2>7. tag' \in {0, 1} /\ sent' \in 0 .. PacketWords
    BY <1>0, <2>1
  <2>8. LoopBase'
    BY <1>0, <2>1, <2>3, <2>4, <2>5, <2>7 DEF LoopInv, LoopBase, Getting
  <2>9. Asking'
    BY <2>1, <2>3, <2>4, <2>5, <2>6 DEF Asking, NoAnswer, Getting
  <2> QED
    BY <2>8, <2>9 DEF LoopInv
<1>2. CASE FX3Delivers
  <2>1. /\ sent < PacketWords /\ sent' = sent + 1 /\ EP0F' = Append(EP0F, <<tag, sent + 1>>)
        /\ moved' = TRUE
        /\ UNCHANGED <<session, asked, tag, got, EP8F, EP8F_aclrn, pc, glEp0Buffer_Rx, cnt>>
    BY <1>2 DEF FX3Delivers, cmdVars
  <2>2. Asking
    BY <1>0, <2>1, Phases
  <2>3. L <= sent /\ EP0F = Run(tag, L, sent - L)
    BY <2>2 DEF Asking
  <2>4. EP0F' = Run(tag, L, sent' - L) /\ L <= sent'
    <3>1. sent - L \in Nat /\ L + (sent - L) + 1 = sent + 1 /\ (sent - L) + 1 = sent' - L
      BY <1>0, <2>1, <2>3
    <3>2. Append(Run(tag, L, sent - L), <<tag, L + (sent - L) + 1>>) = Run(tag, L, (sent - L) + 1)
      BY <1>0, <3>1, RunFacts
    <3> QED
      BY <1>0, <2>1, <2>3, <3>1, <3>2
  <2>5. pc \in Getting => sent' = PacketWords \/ sent' > L + 1
    <3>1. pc \in Getting => sent > L + (IF moved THEN 1 ELSE 0)
      BY <1>0, <2>1, <2>2 DEF Asking
    <3> QED
      BY <1>0, <2>1, <3>1
  <2>6. sent' \in 0 .. PacketWords
    BY <1>0, <2>1
  <2>7. LoopBase'
    BY <2>1, <2>6 DEF LoopInv, LoopBase
  <2>8. Asking'
    BY <2>1, <2>2, <2>4, <2>5 DEF Asking, NoAnswer
  <2> QED
    BY <2>7, <2>8 DEF LoopInv
<1>3. CASE FX3Fetches
  <2> DEFINE words == Append(got, Head(EP8F))
  <2>1. /\ got # <<>> \/ Len(EP8F) >= PacketWords
        /\ EP8F # <<>> /\ asked # None /\ EP8F' = Tail(EP8F)
        /\ IF Len(words) < PacketWords THEN got' = words /\ asked' = asked
                                       ELSE got' = <<>> /\ asked' = None
        /\ UNCHANGED <<session, tag, sent, moved, EP0F, EP8F_aclrn, pc, glEp0Buffer_Rx, cnt>>
    BY <1>3 DEF FX3Fetches, cmdVars
  <2> DEFINE g == Len(got)
  <2>2. /\ Answering /\ AllSent /\ pc \in {"poll", "led_off"}
        /\ g \in Nat /\ g < PacketWords
        /\ words = Run(tag, 0, g + 1) /\ Len(words) = g + 1
        /\ EP8F' = Run(tag, g + 1, PacketWords - (g + 1))
    BY <1>3, FetchFacts
  <2> HIDE DEF words
  <2>8. LoopBase'
    BY <2>1 DEF LoopInv, LoopBase
  <2>9. CASE g + 1 < PacketWords
    <3>1. got' = words /\ asked' = asked
      BY <2>1, <2>2, <2>9
    <3>2. Answering'
      <4>1. g + 1 \in 0 .. PacketWords - 1
        BY <1>0, <2>2, <2>9
      <4> QED
        BY <2>1, <2>2, <3>1, <4>1 DEF Answering, AllSent
    <3> QED
      BY <2>8, <3>2 DEF LoopInv
  <2>10. CASE g + 1 = PacketWords
    <3>1. got' = <<>> /\ asked' = None
      BY <1>0, <2>1, <2>2, <2>10
    <3>2. EP8F' = <<>>
      <4>1. PacketWords - (g + 1) = 0
        BY <1>0, <2>10
      <4> QED
        BY <2>2, <4>1, RunFacts
    <3>3. Quiet'
      BY <2>1, <2>2, <3>1, <3>2 DEF Quiet, AllSent, NoAnswer
    <3> QED
      BY <2>8, <3>3 DEF LoopInv
  <2> QED
    BY <1>0, <2>2, <2>9, <2>10
<1> QED
  BY <1>1, <1>2, <1>3

\* The processor gets the words of a command.
LEMMA LoopReads ==
  ASSUME LoopInv, PollStatus \/ SetReset \/ EndReset \/ LedOn \/ ReadWord \/ Decode
  PROVE  LoopInv'
<1> DEFINE L == Len(glEp0Buffer_Rx)
<1>0. /\ PacketWords \in Nat \ {0} /\ sent \in Nat /\ L \in Nat /\ tag \in {0, 1}
      /\ sent <= PacketWords
  BY Phases DEF LoopInv, LoopBase
<1>1. CASE PollStatus \/ SetReset \/ EndReset \/ LedOn
  <2>1. /\ UNCHANGED <<session, asked, tag, sent, got, EP0F, glEp0Buffer_Rx, cnt>>
        /\ moved' = FALSE
        /\ pc \in {"poll", "set_reset", "end_reset", "led_on"}
        /\ pc' \in Getting /\ EP8F_aclrn' = (pc' # "end_reset") /\ EP8F' \in {EP8F, <<>>}
        /\ pc = "poll" => EP0F # <<>>
    <3>1. CASE PollStatus
      BY <3>1 DEF PollStatus, At, Paced, hostVars, fifoVars, cmdVars, Getting, LoopInv, LoopBase
    <3>2. CASE SetReset
      BY <3>2 DEF SetReset, At, Paced, hostVars, cmdVars, Getting
    <3>3. CASE EndReset
      BY <3>3 DEF EndReset, At, Paced, hostVars, cmdVars, Getting
    <3>4. CASE LedOn
      BY <3>4 DEF LedOn, At, Paced, hostVars, fifoVars, Getting, LoopInv, LoopBase
    <3> QED
      BY <1>1, <3>1, <3>2, <3>3, <3>4
  <2>2. Asking
    BY <2>1, Phases DEF Getting
  <2>3. /\ L <= sent /\ EP0F = Run(tag, L, sent - L) /\ NoAnswer
    BY <2>2 DEF Asking
  <2>4. L = 0 /\ glEp0Buffer_Rx = <<>> /\ cnt = 0
    BY <2>1 DEF LoopInv, LoopBase
  <2>5. sent = PacketWords \/ sent > 0
    <3>1. CASE pc = "poll"
      <4>1. sent # 0
        <5>1. Run(tag, 0, 0) = <<>>
          BY RunFacts
        <5> QED
          BY <1>0, <2>1, <2>3, <2>4, <3>1, <5>1
      <4> QED
        BY <1>0, <4>1
    <3>2. CASE pc # "poll"
      <4>1. pc \in Getting
        BY <2>1, <3>2 DEF Getting
      <4>2. sent = PacketWords \/ sent > L + (IF moved THEN 1 ELSE 0)
        BY <2>2, <4>1 DEF Asking
      <4> QED
        BY <1>0, <2>4, <4>2
    <3> QED
      BY <3>1, <3>2
  <2>7. LoopBase'
    <3>1. Len(glEp0Buffer_Rx') < PacketWords /\ Len(glEp0Buffer_Rx') <= PacketWords
      BY <1>0, <2>1, <2>4
    <3> QED
      BY <2>1, <2>4, <3>1 DEF LoopInv, LoopBase, Getting
  <2>8. Asking'
    <3>1. pc' \in Getting => sent' = PacketWords \/ sent' > Len(glEp0Buffer_Rx') + (IF moved' THEN 1 ELSE 0)
      BY <1>0, <2>1, <2>4, <2>5
    <3>2. NoAnswer'
      BY <2>1, <2>3 DEF NoAnswer
    <3> QED
      BY <2>1, <2>2, <2>3, <3>1, <3>2 DEF Asking
  <2> QED
    BY <2>7, <2>8 DEF LoopInv
<1>2. CASE ReadWord
  <2>1. /\ UNCHANGED <<session, asked, tag, sent, got, EP8F, EP8F_aclrn, cnt>>
        /\ moved' = FALSE /\ (InBurst => moved) /\ pc = "read"
        /\ pc' = IF L + 1 = PacketWords THEN "decode" ELSE "read"
        /\ EP0F' = (IF EP0F = <<>> THEN <<>> ELSE Tail(EP0F))
        /\ EP0F # <<>> => glEp0Buffer_Rx' = Append(glEp0Buffer_Rx, Head(EP0F))
    BY <1>2 DEF ReadWord, GetFifoData, At, Paced, hostVars
  <2>2. Asking
    BY <2>1, Phases DEF Getting
  <2>3. /\ L <= sent /\ EP0F = Run(tag, L, sent - L) /\ NoAnswer
        /\ sent = PacketWords \/ sent > L + (IF moved THEN 1 ELSE 0)
    BY <2>1, <2>2 DEF Asking, Getting
  <2>4. glEp0Buffer_Rx = Run(tag, 0, L) /\ L < PacketWords
    BY <2>1 DEF LoopInv, LoopBase
  <2>5. sent > L /\ sent - L \in Nat /\ sent - L > 0
    BY <1>0, <2>3, <2>4
  <2> HIDE DEF L
  <2>6. EP0F # <<>> /\ Head(EP0F) = <<tag, L + 1>> /\ Tail(EP0F) = Run(tag, L + 1, (sent - L) - 1)
    <3>1. PICK n \in Nat : n = sent - L /\ n > 0
      BY <2>5
    <3>2. EP0F = Run(tag, L, n)
      BY <2>3, <3>1
    <3>3. /\ Run(tag, L, n) # <<>> /\ Head(Run(tag, L, n)) = <<tag, L + 1>>
          /\ Tail(Run(tag, L, n)) = Run(tag, L + 1, n - 1)
      <4>1. L \in Nat /\ n # 0
        BY <1>0, <3>1
      <4>2. Run(tag, L, n) # <<>>
        BY <4>1, RunFacts
      <4>3. Head(Run(tag, L, n)) = <<tag, L + 1>> /\ Tail(Run(tag, L, n)) = Run(tag, L + 1, n - 1)
        BY <3>1, <4>1, RunHead
      <4> QED
        BY <4>2, <4>3
    <3> QED
      BY <3>1, <3>2, <3>3
  <2>7. glEp0Buffer_Rx' = Run(tag, 0, L + 1) /\ Len(glEp0Buffer_Rx') = L + 1
    <3>0. L \in Nat /\ 0 \in Nat /\ 0 + L + 1 = L + 1
      BY <1>0
    <3>1. Append(Run(tag, 0, L), <<tag, 0 + L + 1>>) = Run(tag, 0, L + 1) /\ 0 + L + 1 = L + 1
      BY <3>0, RunFacts
    <3>2. Len(Run(tag, 0, L + 1)) = L + 1
      <4>1. L + 1 \in Nat
        BY <1>0
      <4> QED
        BY <4>1, RunFacts
    <3> QED
      BY <2>1, <2>4, <2>6, <3>1, <3>2
  <2>8. EP0F' = Run(tag, L + 1, sent - (L + 1)) /\ L + 1 <= sent
    <3>1. (sent - L) - 1 = sent - (L + 1)
      BY <1>0
    <3> QED
      BY <1>0, <2>1, <2>5, <2>6, <3>1
  <2>9. sent = PacketWords \/ sent > L + 1
    <3>1. CASE sent # PacketWords
      <4>1. InBurst
        BY <1>0, <2>5, <3>1 DEF InBurst
      <4> QED
        BY <2>1, <2>3, <3>1, <4>1
    <3> QED
      BY <3>1
  <2>10. LoopBase'
    <3>1. Len(glEp0Buffer_Rx') <= PacketWords
      BY <1>0, <2>4, <2>7
    <3>2. pc' \in {"read", "decode"} /\ (pc' = "read" => L + 1 < PacketWords)
          /\ (pc' = "decode" => L + 1 = PacketWords)
      BY <1>0, <2>1, <2>4
    <3> QED
      BY <2>1, <2>7, <3>1, <3>2 DEF LoopInv, LoopBase, Getting
  <2>11. Asking'
    <3>1. pc' \in Getting => sent' = PacketWords \/ sent' > Len(glEp0Buffer_Rx') + (IF moved' THEN 1 ELSE 0)
      BY <1>0, <2>1, <2>7, <2>9
    <3>2. NoAnswer'
      BY <2>1, <2>3 DEF NoAnswer
    <3>3. pc' \in {"boot", "poll", "led_off", "decode"} \cup Getting
      BY <2>1 DEF Getting
    <3> QED
      BY <2>1, <2>2, <2>7, <2>8, <3>1, <3>2, <3>3 DEF Asking
  <2> QED
    BY <2>10, <2>11 DEF LoopInv
<1>3. CASE Decode
  <2>1. /\ UNCHANGED <<session, asked, tag, sent, got, EP0F, EP8F, EP8F_aclrn, cnt>>
        /\ moved' = FALSE /\ pc = "decode" /\ pc' = "serve" /\ glEp0Buffer_Rx' = <<>>
    BY <1>3 DEF Decode, Paced, hostVars, fifoVars
  <2>2. Asking
    BY <2>1, Phases DEF Getting
  <2>3. L = PacketWords /\ cnt = 0
    BY <2>1 DEF LoopInv, LoopBase
  <2>4. L <= sent /\ EP0F = Run(tag, L, sent - L) /\ NoAnswer
    BY <2>2 DEF Asking
  <2>5. sent = PacketWords /\ EP0F = <<>>
    <3>1. sent = L /\ sent - L = 0
      BY <1>0, <2>3, <2>4
    <3> QED
      BY <1>0, <2>3, <2>4, <3>1, RunFacts
  <2>6. Run(tag, 0, 0) = <<>> /\ Len(glEp0Buffer_Rx') = 0
    BY <2>1, RunFacts
  <2>7. LoopBase'
    <3>1. Len(glEp0Buffer_Rx') <= PacketWords
      BY <1>0, <2>6
    <3> QED
      BY <2>1, <2>3, <2>6, <3>1 DEF LoopInv, LoopBase, Getting
  <2>8. Serving'
    BY <2>1, <2>2, <2>3, <2>4, <2>5, <2>6 DEF Serving, Asking, AllSent, NoAnswer
  <2> QED
    BY <2>7, <2>8 DEF LoopInv
<1> QED
  BY <1>1, <1>2, <1>3

\* It gives the words of the reply.
LEMMA LoopReplies ==
  ASSUME LoopInv, BootDone \/ Respond \/ WriteWord \/ LedOff, pc = "send" => reply.tag = tag
  PROVE  LoopInv'
<1>0. PacketWords \in Nat \ {0} /\ tag \in {0, 1} /\ cnt \in 0 .. PacketWords
  BY Phases DEF LoopInv, LoopBase
<1>1. CASE BootDone
  <2>1. /\ UNCHANGED <<session, asked, tag, sent, got, EP0F, EP8F, EP8F_aclrn, glEp0Buffer_Rx, cnt>>
        /\ moved' = FALSE /\ pc = "boot" /\ pc' = "poll"
    BY <1>1 DEF BootDone, Paced, hostVars, fifoVars, cmdVars
  <2>2. LoopBase'
    BY <2>1 DEF LoopInv, LoopBase, Getting
  <2>3. Quiet \/ Asking
    BY <2>1 DEF LoopInv, Serving, Answering
  <2>4. Quiet => Quiet'
    BY <2>1 DEF Quiet, AllSent, NoAnswer
  <2>5. Asking => Asking'
    BY <2>1 DEF Asking, NoAnswer, Getting
  <2> QED
    BY <2>2, <2>3, <2>4, <2>5 DEF LoopInv
<1>2. CASE Respond
  <2>1. /\ UNCHANGED <<session, asked, tag, sent, got, EP0F, EP8F, EP8F_aclrn, glEp0Buffer_Rx, cnt>>
        /\ moved' = FALSE /\ pc = "serve" /\ pc' = "send"
    BY <1>2 DEF Respond, Paced, hostVars, fifoVars
  <2>2. cnt = 0
    BY <2>1 DEF LoopInv, LoopBase
  <2>3. LoopBase'
    <3>1. cnt' \in 0 .. PacketWords /\ cnt' < PacketWords
      BY <1>0, <2>1, <2>2
    <3> QED
      BY <2>1, <3>1 DEF LoopInv, LoopBase, Getting
  <2>4. Serving
    BY <2>1, Phases
  <2>5. Serving'
    BY <2>1, <2>4 DEF Serving, AllSent
  <2> QED
    BY <2>3, <2>5 DEF LoopInv
<1>3. CASE WriteWord
  <2>1. /\ UNCHANGED <<session, asked, tag, sent, got, EP0F, EP8F_aclrn, glEp0Buffer_Rx>>
        /\ moved' = FALSE /\ pc = "send" /\ cnt' = cnt + 1
        /\ pc' = IF cnt + 1 = PacketWords THEN "led_off" ELSE "send"
        /\ EP8F' = IF EP8F_aclrn THEN Append(EP8F, <<reply.tag, cnt + 1>>) ELSE EP8F
    BY <1>3 DEF WriteWord, At, Paced, hostVars
  <2>2. Serving
    BY <2>1, Phases
  <2>3. /\ asked # None /\ AllSent /\ got = <<>> /\ EP8F = Run(tag, 0, cnt)
        /\ EP8F_aclrn = TRUE /\ cnt < PacketWords
    BY <2>1, <2>2 DEF Serving, LoopInv, LoopBase
  <2>4. EP8F' = Run(tag, 0, cnt')
    <3>0. cnt \in Nat /\ 0 \in Nat /\ 0 + cnt + 1 = cnt + 1
      BY <1>0
    <3>1. Append(Run(tag, 0, cnt), <<tag, 0 + cnt + 1>>) = Run(tag, 0, cnt + 1) /\ 0 + cnt + 1 = cnt + 1
      BY <3>0, RunFacts
    <3> QED
      BY <2>1, <2>3, <3>1
  <2>5. LoopBase'
    <3>1. cnt' \in 0 .. PacketWords /\ (pc' = "send" => cnt' < PacketWords) /\ pc' \in {"send", "led_off"}
      BY <1>0, <2>1, <2>3
    <3> QED
      BY <2>1, <3>1 DEF LoopInv, LoopBase, Getting
  <2>6. CASE cnt + 1 = PacketWords
    <3>1. got' = Run(tag', 0, 0) /\ Len(got') = 0 /\ EP8F' = Run(tag', 0, PacketWords - 0)
      <4>1. Run(tag, 0, 0) = <<>> /\ PacketWords - 0 = PacketWords
        BY <1>0, RunFacts
      <4> QED
        BY <2>1, <2>3, <2>4, <2>6, <4>1
    <3>2. Answering'
      <4>1. 0 \in 0 .. PacketWords - 1
        BY <1>0
      <4> QED
        BY <2>1, <2>3, <2>6, <3>1, <4>1 DEF Answering, AllSent
    <3> QED
      BY <2>5, <3>2 DEF LoopInv
  <2>7. CASE cnt + 1 # PacketWords
    <3>1. Serving'
      BY <2>1, <2>3, <2>4, <2>7 DEF Serving, AllSent
    <3> QED
      BY <2>5, <3>1 DEF LoopInv
  <2> QED
    BY <2>6, <2>7
<1>4. CASE LedOff
  <2>1. /\ UNCHANGED <<session, asked, tag, sent, got, EP0F, EP8F, EP8F_aclrn, glEp0Buffer_Rx>>
        /\ moved' = FALSE /\ pc = "led_off" /\ pc' = "poll" /\ cnt' = 0
    BY <1>4 DEF LedOff, At, Paced, hostVars, fifoVars
  <2>2. LoopBase'
    <3>1. cnt' \in 0 .. PacketWords
      BY <1>0, <2>1
    <3> QED
      BY <2>1, <3>1 DEF LoopInv, LoopBase, Getting
  <2>3. Quiet \/ Asking \/ Answering
    BY <2>1 DEF LoopInv, Serving
  <2>4. Quiet => Quiet'
    BY <2>1 DEF Quiet, AllSent, NoAnswer
  <2>5. Asking => Asking'
    BY <2>1 DEF Asking, NoAnswer, Getting
  <2>6. Answering => Answering'
    BY <2>1 DEF Answering, AllSent
  <2> QED
    BY <2>2, <2>3, <2>4, <2>5, <2>6 DEF LoopInv
<1> QED
  BY <1>1, <1>2, <1>3, <1>4

\* What the steps of a program and of the MCU leave alone.
LEMMA LoopRuns ==
  ASSUME LoopInv, DeviceStep \/ CpuStep \/ AwaitMcu \/ Mcu \/ UNCHANGED vars
  PROVE  LoopInv'
<1>1. UNCHANGED <<session, asked, tag, sent, got, EP0F, EP8F, EP8F_aclrn, pc, glEp0Buffer_Rx, cnt>>
  BY DEF DeviceStep, CpuStep, AwaitMcu, PollMcu, UnchangedLoop, Mcu, vars, hostVars, fifoVars, cmdVars
<1>2. moved' = moved \/ (moved' = FALSE /\ pc \in {"boot", "serve"})
  BY DEF DeviceStep, CpuStep, AwaitMcu, PollMcu, Running, Paced, Mcu, vars
<1>3. moved' \in BOOLEAN /\ (pc \in Getting => moved' = moved)
  BY <1>2 DEF LoopInv, LoopBase, Getting
<1> QED
  BY <1>1, <1>3, LoopStill

\* LoopInv goes on to hold.
LEMMA LoopStep ==
  ASSUME LoopInv, pc = "send" => reply.tag = tag, [Next]_vars
  PROVE  LoopInv'
BY LoopHost, LoopReads, LoopReplies, LoopRuns DEF Next, Firmware

-----------------------------------------------------------------------------
(***************************************************************************)
(* What a step takes from a program and what it does to the board.         *)
(***************************************************************************)
\* Steps that run no step of a program and begin none.
Others ==
  \/ HostAsks \/ FX3Delivers \/ FX3Fetches
  \/ PollStatus \/ SetReset \/ EndReset \/ LedOn \/ ReadWord
  \/ BootDone \/ Respond \/ WriteWord \/ LedOff \/ UNCHANGED vars

\* They leave the board and the program alone, and leave a program only at its end.
LEMMA OthersFrame ==
  ASSUME Others
  PROVE  /\ UNCHANGED <<boardVars, ops, cpuVars>>
         /\ pc' = "boot" => pc = "boot"
         /\ pc' = "serve" => pc = "serve" /\ UNCHANGED <<packet, reply>>
         /\ pc' # pc => pc \notin {"boot", "serve"} \/ ops = <<>>
<1>1. CASE HostAsks
  BY <1>1 DEF HostAsks, cmdVars
<1>2. CASE FX3Delivers
  BY <1>2 DEF FX3Delivers, cmdVars
<1>3. CASE FX3Fetches
  BY <1>3 DEF FX3Fetches, cmdVars
<1>4. CASE PollStatus \/ SetReset \/ EndReset \/ LedOn \/ ReadWord
  <2>1. UNCHANGED <<boardVars, ops, cpuVars>>
    BY <1>4 DEF PollStatus, SetReset, EndReset, LedOn, ReadWord, GetFifoData, At
  <2>2. pc' \notin {"boot", "serve"} /\ pc \notin {"boot", "serve"}
    BY <1>4 DEF PollStatus, SetReset, EndReset, LedOn, ReadWord, GetFifoData, At
  <2> QED
    BY <2>1, <2>2
<1>5. CASE BootDone \/ Respond
  BY <1>5 DEF BootDone, Respond
<1>6. CASE WriteWord \/ LedOff
  <2>1. UNCHANGED <<boardVars, ops, cpuVars>>
    BY <1>6 DEF WriteWord, LedOff, At
  <2>2. pc' \notin {"boot", "serve"} /\ pc \notin {"boot", "serve"}
    BY <1>6 DEF WriteWord, LedOff, At
  <2> QED
    BY <2>1, <2>2
<1>7. CASE UNCHANGED vars
  BY <1>7 DEF vars, cmdVars
<1> QED
  BY <1>1, <1>2, <1>3, <1>4, <1>5, <1>6, <1>7 DEF Others

\* Every step is of one of these kinds.
LEMMA StepKinds ==
  ASSUME [Next]_vars
  PROVE  Others \/ Decode \/ DeviceStep \/ CpuStep \/ AwaitMcu \/ Mcu
BY DEF Next, Firmware, Others

\* A step of a program is taken.
Takes(op) ==
  /\ pc \in {"boot", "serve"} /\ ops # <<>> /\ op = Head(ops) /\ ops' = Tail(ops)
  /\ UNCHANGED <<pc, asked, tag, packet, led>>

\* A wait goes on.
Waits ==
  /\ pc \in {"boot", "serve"} /\ UNCHANGED <<boardVars, pc, ops, asked, tag, packet, led, reply>>
  /\ UNCHANGED <<cmd_errors, dac_val, last_portion>>
  /\ ops # <<>> /\ Head(ops).dev = "await"
  /\ ~McuStatus(Head(ops).reg)
  /\ MCU_retries' = (MCU_retries + 1) % RetryRange
  /\ ~(MCU_retries' >= Head(ops).val)

\* What a step does, by its kind.
Dev(op) ==
  /\ op.dev \in {"dac", "adf", "lms_reset", "lms", "brd", "i2c"} /\ UNCHANGED cpuVars
  /\ op.dev = "dac" => DacTakes(IF op.act = "on" THEN DacBytes(dac_val) ELSE DacBytesOff)
  /\ op.dev = "adf" => AdfTakes(op)
  /\ op.dev = "lms_reset" => LmsResetTakes(op)
  /\ op.dev = "i2c" /\ op.act = "start" => I2cStartTakes(op)
  /\ op.dev = "i2c" /\ op.act = "write" => I2cWriteTakes(op)
  /\ op.dev = "i2c" /\ op.act = "read" => I2cReadTakes(op)
  /\ op.dev = "i2c" /\ op.act \notin {"start", "write", "read"} => UNCHANGED boardVars
  /\ op.dev \in {"lms", "brd"} /\ op.act = "write" => RegWriteTakes(op)
  /\ op.dev \in {"lms", "brd"} /\ op.act # "write" => UNCHANGED boardVars
  /\ reply' = IF op.dev \in {"lms", "brd"} /\ op.act = "read"
              THEN [reply EXCEPT !.data = Append(@, regs[op.reg])] ELSE reply

Cpu(op) ==
  /\ op.dev = "cpu" /\ UNCHANGED <<boardVars, MCU_retries>>
  /\ dac_val' = CASE op.act = "dac_val" -> op.val
                  [] op.act = "dac_val_eeprom" -> EepromDacVal(bytes[1], bytes[2])
                  [] OTHER -> dac_val
  /\ cmd_errors' = IF op.act = "cmd_errors" THEN cmd_errors + 1 ELSE cmd_errors
  /\ last_portion' = IF op.act = "last_portion" THEN op.val ELSE last_portion
  /\ reply' = IF op.act = "report"
              THEN [reply EXCEPT !.data = Append(@, ReportOf(op.reg))] ELSE reply

WaitEnds(op) ==
  /\ op.dev = "await" /\ UNCHANGED <<boardVars, reply, dac_val, last_portion>>
  /\ MCU_retries' = 0
  /\ LET over == (MCU_retries + 1) % RetryRange >= op.val
     IN  /\ McuStatus(op.reg) \/ over
         /\ cmd_errors' = IF ~McuStatus(op.reg) /\ over /\ op.reg = "PROGRAMMED"
                          THEN cmd_errors + 1 ELSE cmd_errors

\* A step of the firmware within a program goes on waiting, or takes a step of it.
LEMMA ProgramSteps ==
  ASSUME DeviceStep \/ CpuStep \/ AwaitMcu
  PROVE  Waits \/ \E op : Takes(op) /\ (Dev(op) \/ Cpu(op) \/ WaitEnds(op))
<1>1. PICK op : op = Head(ops)
  OBVIOUS
<1>2. CASE DeviceStep
  <2>1. Takes(op)
    BY <1>1, <1>2 DEF DeviceStep, Running, Done, UnchangedLoop, hostVars, Takes
  <2>2. /\ op.dev \in {"dac", "adf", "lms_reset", "lms", "brd", "i2c"} /\ UNCHANGED cpuVars
        /\ reply' = IF op.dev \in {"lms", "brd"} /\ op.act = "read"
                    THEN [reply EXCEPT !.data = Append(@, regs[op.reg])] ELSE reply
    BY <1>1, <1>2 DEF DeviceStep
  <2>3. op.dev = "dac" => DacTakes(IF op.act = "on" THEN DacBytes(dac_val) ELSE DacBytesOff)
    BY <1>1, <1>2 DEF DeviceStep
  <2>4. /\ op.dev = "adf" => AdfTakes(op)
        /\ op.dev = "lms_reset" => LmsResetTakes(op)
    BY <1>1, <1>2 DEF DeviceStep
  <2>7. ASSUME op.dev = "i2c"
        PROVE  /\ op.act = "start" => I2cStartTakes(op)
               /\ op.act = "write" => I2cWriteTakes(op)
               /\ op.act = "read" => I2cReadTakes(op)
    BY <1>1, <1>2, <2>7 DEF DeviceStep
  <2>8. ASSUME op.dev = "i2c", op.act \notin {"start", "write", "read"}
        PROVE  UNCHANGED boardVars
    BY <1>1, <1>2, <2>8 DEF DeviceStep
  <2>6. /\ op.dev \in {"lms", "brd"} /\ op.act = "write" => RegWriteTakes(op)
        /\ op.dev \in {"lms", "brd"} /\ op.act # "write" => UNCHANGED boardVars
    BY <1>1, <1>2 DEF DeviceStep
  <2>5. Dev(op)
    BY <2>2, <2>3, <2>4, <2>6, <2>7, <2>8 DEF Dev
  <2> QED
    BY <2>1, <2>5
<1>3. CASE CpuStep
  <2>1. Takes(op)
    BY <1>1, <1>3 DEF CpuStep, Running, Done, UnchangedLoop, hostVars, Takes
  <2>2. Cpu(op)
    BY <1>1, <1>3 DEF CpuStep, Cpu
  <2> QED
    BY <2>1, <2>2
<1>4. CASE AwaitMcu
  <2> DEFINE over == (MCU_retries + 1) % RetryRange >= op.val
  <2>1. /\ pc \in {"boot", "serve"} /\ ops # <<>> /\ op.dev = "await"
        /\ UNCHANGED <<boardVars, reply, dac_val, last_portion>>
        /\ UNCHANGED <<pc, asked, tag, packet, led>>
    BY <1>1, <1>4 DEF AwaitMcu, PollMcu, Running, UnchangedLoop, hostVars
  <2>2. /\ IF McuStatus(op.reg) \/ over THEN ops' = Tail(ops) /\ MCU_retries' = 0
           ELSE ops' = ops /\ MCU_retries' = (MCU_retries + 1) % RetryRange
        /\ cmd_errors' = IF ~McuStatus(op.reg) /\ over /\ op.reg = "PROGRAMMED"
                         THEN cmd_errors + 1 ELSE cmd_errors
    BY <1>1, <1>4 DEF AwaitMcu, PollMcu
  <2>3. CASE McuStatus(op.reg) \/ over
    <3>1. Takes(op)
      BY <1>1, <2>1, <2>2, <2>3 DEF Takes
    <3>2. WaitEnds(op)
      BY <2>1, <2>2, <2>3 DEF WaitEnds
    <3> QED
      BY <3>1, <3>2
  <2>4. CASE ~(McuStatus(op.reg) \/ over)
    BY <1>1, <2>1, <2>2, <2>4 DEF Waits
  <2> QED
    BY <2>3, <2>4
<1> QED
  BY <1>2, <1>3, <1>4

\* The step that is taken, and the rest of the program.
LEMMA TakesFacts ==
  ASSUME OpsInv, NEW op, Takes(op)
  PROVE  /\ ops \in Seq(OpSet) /\ op \in OpSet /\ op = ops[1] /\ Sane(op)
         /\ ops' \in Seq(OpSet) /\ Len(ops) \in Nat /\ Len(ops) > 0 /\ Len(ops') = Len(ops) - 1
         /\ DOMAIN ops = 1 .. Len(ops) /\ DOMAIN ops' = 1 .. Len(ops) - 1
         /\ \A i \in DOMAIN ops' : ops'[i] = ops[i + 1] /\ i + 1 \in DOMAIN ops
         /\ \A i \in DOMAIN ops : i = 1 \/ (i - 1 \in DOMAIN ops' /\ ops'[i - 1] = ops[i])
<1>1. ops \in Seq(OpSet) /\ ops # <<>> /\ ops' = Tail(ops) /\ op = Head(ops)
  BY DEF OpsInv, Takes
<1>2. /\ ops' \in Seq(OpSet) /\ Len(ops) \in Nat /\ Len(ops) > 0 /\ Len(ops') = Len(ops) - 1
      /\ DOMAIN ops = 1 .. Len(ops) /\ DOMAIN ops' = 1 .. Len(ops) - 1
      /\ op = ops[1] /\ 1 \in DOMAIN ops /\ op \in OpSet
      /\ \A i \in DOMAIN ops' : ops'[i] = ops[i + 1] /\ i + 1 \in DOMAIN ops
  BY <1>1, TailFacts
<1>3. Sane(op)
  BY <1>2 DEF OpsInv
<1>4. ASSUME NEW i \in DOMAIN ops, i # 1 PROVE i - 1 \in DOMAIN ops' /\ ops'[i - 1] = ops[i]
  <2>1. i - 1 \in DOMAIN ops' /\ (i - 1) + 1 = i
    BY <1>2, <1>4
  <2> QED
    BY <1>2, <2>1
<1> QED
  BY <1>1, <1>2, <1>3, <1>4

\* The program that a command begins.
LEMMA DecodeFacts ==
  ASSUME LoopInv, Decode
  PROVE  /\ pc = "decode" /\ pc' = "serve" /\ asked' = asked /\ asked \in session.commands
         /\ packet' = [tag |-> tag, cmd |-> asked.cmd, blocks |-> asked.blocks]
         /\ CommandOK(packet') /\ CommandOK(asked) /\ asked.cmd \in {c.cmd : c \in Commands}
         /\ reply' = [tag |-> tag, cmd |-> asked.cmd, status |-> reply'.status, data |-> <<>>]
         /\ reply'.status = FirstStatus(packet', last_portion)
         /\ IF reply'.status = "BUSY_CMD"
            THEN /\ asked.cmd \in Known /\ ~Check_many_blocks(packet') /\ ~Check_many_blocks(asked)
                 /\ ~WrongOrder(packet', last_portion)
                 /\ ops' = Program(packet') /\ Fit(packet', ops')
            ELSE ops' = <<>>
         /\ cmd_errors' = 0 /\ MCU_retries' = 0
         /\ UNCHANGED <<boardVars, tag, sent, led, dac_val, last_portion>>
<1>1. /\ pc = "decode" /\ pc' = "serve" /\ asked' = asked /\ cmd_errors' = 0 /\ MCU_retries' = 0
      /\ UNCHANGED <<boardVars, tag, sent, led, dac_val, last_portion>>
  BY DEF Decode, hostVars
<1>2. Asking
  BY <1>1, Phases
<1>3. asked # None /\ asked \in session.commands /\ session \in Sessions
  BY <1>2 DEF Asking, LoopInv, LoopBase
<1>4. glEp0Buffer_Rx = PacketOf(tag)
  <2>1. glEp0Buffer_Rx = Run(tag, 0, PacketWords)
    BY <1>1 DEF LoopInv, LoopBase
  <2> QED
    BY <2>1, SessionsOK, RunFacts
<1>5. packet' = [tag |-> tag, cmd |-> asked.cmd, blocks |-> asked.blocks]
  BY <1>3, <1>4 DEF Decode
<1>6. /\ reply' = [tag |-> packet'.tag, cmd |-> packet'.cmd,
                   status |-> FirstStatus(packet', last_portion), data |-> <<>>]
      /\ ops' = IF FirstStatus(packet', last_portion) = "BUSY_CMD" THEN Program(packet') ELSE <<>>
  BY DEF Decode
<1>7. PICK p : p = packet'
  OBVIOUS
<1>8. p.tag = tag /\ p.cmd = asked.cmd /\ p.blocks = asked.blocks
  BY <1>5, <1>7
<1>9. CommandOK(asked)
  BY <1>3, SessionsOK
<1>10. CommandOK(p)
  BY <1>8, <1>9 DEF CommandOK
<1>11. asked \in Commands
  BY <1>3 DEF Commands
<1>12. FirstStatus(p, last_portion) = "BUSY_CMD" =>
         p.cmd \in Known /\ ~Check_many_blocks(p) /\ ~WrongOrder(p, last_portion)
  BY DEF FirstStatus
<1>13. Check_many_blocks(p) = Check_many_blocks(asked)
  BY <1>8 DEF Check_many_blocks
<1>14. FirstStatus(p, last_portion) = "BUSY_CMD" => Fit(p, Program(p))
  BY <1>10, <1>12, ProgramFits
<1>15. reply'.status = FirstStatus(packet', last_portion)
  BY <1>6
<1>16. reply' = [tag |-> tag, cmd |-> asked.cmd, status |-> reply'.status, data |-> <<>>]
  BY <1>6, <1>7, <1>8, <1>15
<1> QED
  BY <1>1, <1>3, <1>5, <1>6, <1>7, <1>8, <1>9, <1>10, <1>11, <1>12, <1>13, <1>14, <1>15, <1>16

-----------------------------------------------------------------------------
(***************************************************************************)
(* The program that is left: OpsInv.                                       *)
(***************************************************************************)
\* The effect of a step of a program.
Effect(op) == Dev(op) \/ Cpu(op) \/ WaitEnds(op)

\* The MCU changes nothing but itself.
LEMMA McuFrame ==
  ASSUME Mcu
  PROVE  /\ UNCHANGED <<dac, adf, lms_reset_n, regs, i2c, bytes, fitted, eeprom, temperature>>
         /\ UNCHANGED <<hostVars, moved, fifoVars, pc, ops, cmdVars, cpuVars>>
BY DEF Mcu, McuTakes, McuProgrammed

\* The kinds of steps that the invariants tell apart.
LEMMA Kinds ==
  ASSUME [Next]_vars
  PROVE  Others \/ Decode \/ Waits \/ Mcu \/ \E op : Takes(op) /\ Effect(op)
BY StepKinds, ProgramSteps DEF Effect

\* OpsInv holds at first.
LEMMA OpsInit == Init => OpsInv
<1> SUFFICES ASSUME Init PROVE OpsInv
  OBVIOUS
<1>1. ops = Boot /\ pc = "boot"
  BY DEF Init
<1>2. Boot \in Seq(BootSteps)
  BY BootProgram
<1>3. Boot \in Seq(OpSet) /\ \A i \in DOMAIN Boot : Boot[i] \in BootSteps
  BY <1>2 DEF BootSteps
<1> QED
  BY <1>1, <1>3 DEF OpsInv, BootSteps

\* And goes on to hold.
LEMMA OpsStep ==
  ASSUME LoopInv, OpsInv, [Next]_vars
  PROVE  OpsInv'
<1>1. CASE Others
  <2>1. ops' = ops /\ (pc' # pc => pc \notin {"boot", "serve"} \/ ops = <<>>)
    BY <1>1, OthersFrame
  <2> QED
    BY <2>1 DEF OpsInv
<1>2. CASE Decode
  <2>1. pc' = "serve" /\ (ops' = <<>> \/ Program1(ops'))
    BY <1>2, DecodeFacts DEF Fit
  <2>2. \A i \in DOMAIN <<>> : Sane(<<>>[i])
    OBVIOUS
  <2>3. <<>> \in Seq(OpSet)
    OBVIOUS
  <2>4. ops' \in Seq(OpSet) /\ \A i \in DOMAIN ops' : Sane(ops'[i])
    BY <2>1, <2>2, <2>3 DEF Program1
  <2> QED
    BY <2>1, <2>4 DEF OpsInv
<1>3. CASE Waits
  BY <1>3 DEF Waits, OpsInv
<1>4. CASE Mcu
  BY <1>4, McuFrame DEF OpsInv
<1>5. ASSUME NEW op, Takes(op) PROVE OpsInv'
  <2>1. pc' \in {"boot", "serve"}
    BY <1>5 DEF Takes
  <2>2. /\ ops' \in Seq(OpSet)
        /\ \A i \in DOMAIN ops' : ops'[i] = ops[i + 1] /\ i + 1 \in DOMAIN ops
    BY <1>5, TakesFacts
  <2>3. \A i \in DOMAIN ops' : Sane(ops'[i])
    BY <2>2 DEF OpsInv
  <2> QED
    BY <2>1, <2>2, <2>3 DEF OpsInv
<1> QED
  BY <1>1, <1>2, <1>3, <1>4, <1>5, Kinds

-----------------------------------------------------------------------------
(***************************************************************************)
(* One driver of the oscillator's pin: OscInv.                             *)
(***************************************************************************)
\* The DAC drives the value whose bytes it gets.
LEMMA DacRoundTrip ==
  ASSUME NEW v \in Byte
  PROVE  LET b == DacBytes(v)
         IN  b[1] \div 64 = 0 /\ (b[1] % 64) * 4 + b[2] \div 64 = v
<1>1. PICK q \in 0 .. 63, r \in 0 .. 3 : v = 4 * q + r
  <2>1. v \in Int /\ 0 <= v /\ v <= 255
    BY DEF Byte
  <2>2. PICK q \in Int, r \in Int : q = v \div 4 /\ r = v % 4
    BY <2>1
  <2>3. r \in 0 .. 3 /\ v = 4 * q + r
    BY <2>1, <2>2
  <2>4. q \in 0 .. 63
    BY <2>1, <2>2, <2>3
  <2> QED
    BY <2>3, <2>4
<1>2. v \div 4 = q
  BY <1>1
<1>3. (v * 64) % 256 = 64 * r
  BY <1>1
<1>4. q \div 64 = 0 /\ q % 64 = q /\ (64 * r) \div 64 = r
  BY <1>1
<1> QED
  BY <1>1, <1>2, <1>3, <1>4 DEF DacBytes

\* What a step of a program does to the pin.
LEMMA PinEffects ==
  ASSUME NEW op \in OpSet, Effect(op), dac_val \in Byte, adf \in BOOLEAN
  PROVE  /\ IsDacOn(op) => dac' = [drives |-> TRUE, val |-> dac_val] /\ adf' = adf
         /\ IsDacOff(op) => dac' \in [drives : {FALSE}, val : Byte] /\ adf' = adf
         /\ IsPumpOn(op) => adf' = TRUE /\ dac' = dac
         /\ IsPumpOff(op) => adf' = FALSE /\ dac' = dac
         /\ ~IsDacOn(op) /\ ~IsDacOff(op) /\ ~IsPumpOn(op) /\ ~IsPumpOff(op)
              => dac' = dac /\ adf' = adf
         /\ ~SetsDacVal(op) => dac_val' = dac_val
<1>1. CASE Dev(op) /\ op.dev = "dac"
  <2>1. dac_val' = dac_val
    BY <1>1 DEF Dev, cpuVars
  <2>2. DacTakes(IF op.act = "on" THEN DacBytes(dac_val) ELSE DacBytesOff)
    BY <1>1 DEF Dev
  <2>3. CASE op.act = "on"
    <3>1. dac' = [drives |-> TRUE, val |-> dac_val] /\ adf' = adf
      BY <2>2, <2>3, DacRoundTrip DEF DacTakes
    <3> QED
      BY <1>1, <2>1, <2>3, <3>1 DEF IsDacOn, IsDacOff, IsPumpOn, IsPumpOff
  <2>4. CASE op.act # "on"
    <3>0. 192 \div 64 = 3 /\ 192 % 64 = 0 /\ 0 \div 64 = 0
      OBVIOUS
    <3>1. DacTakes(<<192, 0>>)
      BY <2>2, <2>4 DEF DacBytesOff
    <3>2. dac' = [drives |-> 192 \div 64 = 0, val |-> (192 % 64) * 4 + 0 \div 64] /\ adf' = adf
      BY <3>1 DEF DacTakes
    <3>3. dac' = [drives |-> FALSE, val |-> 0]
      <4>1. (192 \div 64 = 0) = FALSE /\ (192 % 64) * 4 + 0 \div 64 = 0
        BY <3>0
      <4> QED
        BY <3>2, <4>1
    <3>4. dac' \in [drives : {FALSE}, val : Byte]
      BY <3>3 DEF Byte
    <3> QED
      BY <1>1, <2>1, <2>4, <3>2, <3>4 DEF IsDacOn, IsDacOff, IsPumpOn, IsPumpOff
  <2> QED
    BY <2>3, <2>4
<1>2. CASE Dev(op) /\ op.dev = "adf"
  <2>1. dac_val' = dac_val
    BY <1>2 DEF Dev, cpuVars
  <2>2. AdfTakes(op)
    BY <1>2 DEF Dev
  <2>3. dac' = dac /\ adf' = (IF op.reg = "latch" THEN op.val = 1 ELSE adf)
    BY <2>2 DEF AdfTakes
  <2> QED
    BY <1>2, <2>1, <2>3 DEF IsDacOn, IsDacOff, IsPumpOn, IsPumpOff
<1>3. CASE Dev(op) /\ op.dev \notin {"dac", "adf"}
  <2>1. dac_val' = dac_val
    BY <1>3 DEF Dev, cpuVars
  <2>2. dac' = dac /\ adf' = adf
    BY <1>3 DEF Dev, LmsResetTakes, I2cStartTakes, I2cWriteTakes, I2cReadTakes, RegWriteTakes, boardVars
  <2> QED
    BY <1>3, <2>1, <2>2 DEF IsDacOn, IsDacOff, IsPumpOn, IsPumpOff
<1>4. CASE Cpu(op)
  BY <1>4 DEF Cpu, boardVars, IsDacOn, IsDacOff, IsPumpOn, IsPumpOff, SetsDacVal
<1>5. CASE WaitEnds(op)
  BY <1>5 DEF WaitEnds, boardVars, IsDacOn, IsDacOff, IsPumpOn, IsPumpOff
<1> QED
  BY <1>1, <1>2, <1>3, <1>4, <1>5 DEF Effect

\* OscInv holds at first: the boot turns the ADF4002 off before it turns the DAC on.
LEMMA OscInit == Init => OscInv
<1> SUFFICES ASSUME Init PROVE OscInv
  OBVIOUS
<1>1. ops = Boot /\ pc = "boot" /\ dac.drives = TRUE
  BY DEF Init, InitBoard
<1>2. NoPump(Boot)
  <2>1. Boot \in Seq(BootSteps)
    BY BootProgram
  <2>2. \A i \in DOMAIN Boot : Boot[i] \in BootSteps
    BY <2>1
  <2> QED
    BY <2>2 DEF NoPump, BootSteps
<1>3. /\ \A i \in DOMAIN Boot : ~IsPumpOn(Boot[i])
      /\ \A i \in DOMAIN Boot : IsDacOn(Boot[i]) => \E j \in 1 .. i - 1 : IsPumpOff(Boot[j])
      /\ \E j \in DOMAIN Boot : IsDacOn(Boot[j])
      /\ \E j \in DOMAIN Boot : IsPumpOff(Boot[j])
      /\ DacAfterVal(Boot)
  BY <1>2, BootProgram DEF NoPump, DacAfterPump
<1> QED
  BY <1>1, <1>2, <1>3 DEF OscInv

\* A step of a program keeps it: what the invariant asks for before a step that comes
\* is either still to come, or has just been done.
LEMMA OscTakes ==
  ASSUME OpsInv, TypeInv, OscInv, NEW op, Takes(op), Effect(op)
  PROVE  OscInv'
<1>1. /\ op \in OpSet /\ op = ops[1] /\ Len(ops) \in Nat /\ Len(ops) > 0
      /\ Len(ops') = Len(ops) - 1
      /\ DOMAIN ops = 1 .. Len(ops) /\ DOMAIN ops' = 1 .. Len(ops) - 1
      /\ \A i \in DOMAIN ops' : ops'[i] = ops[i + 1] /\ i + 1 \in DOMAIN ops
      /\ \A i \in DOMAIN ops : i = 1 \/ (i - 1 \in DOMAIN ops' /\ ops'[i - 1] = ops[i])
  BY TakesFacts
<1>2. /\ IsDacOn(op) => dac' = [drives |-> TRUE, val |-> dac_val] /\ adf' = adf
      /\ IsDacOff(op) => dac' \in [drives : {FALSE}, val : Byte] /\ adf' = adf
      /\ IsPumpOn(op) => adf' = TRUE /\ dac' = dac
      /\ IsPumpOff(op) => adf' = FALSE /\ dac' = dac
      /\ ~IsDacOn(op) /\ ~IsDacOff(op) /\ ~IsPumpOn(op) /\ ~IsPumpOff(op)
           => dac' = dac /\ adf' = adf
      /\ ~SetsDacVal(op) => dac_val' = dac_val
  BY <1>1, PinEffects DEF TypeInv
<1>3. 1 \in DOMAIN ops /\ pc' = pc
  BY <1>1 DEF Takes
<1>4. ~ (IsDacOn(op) /\ IsDacOff(op)) /\ ~ (IsPumpOn(op) /\ IsPumpOff(op))
      /\ ~ ((IsDacOn(op) \/ IsDacOff(op)) /\ (IsPumpOn(op) \/ IsPumpOff(op) \/ SetsDacVal(op)))
      /\ ~ ((IsPumpOn(op) \/ IsPumpOff(op)) /\ SetsDacVal(op))
  BY DEF IsDacOn, IsDacOff, IsPumpOn, IsPumpOff, SetsDacVal
\* What comes before a step, or anywhere, and is not the step just taken.
<1>5. ASSUME NEW i \in DOMAIN ops' PROVE i + 1 \in DOMAIN ops /\ i \in Nat /\ ops'[i] = ops[i + 1]
  BY <1>1
<1>6. ASSUME NEW i \in DOMAIN ops', NEW j \in 1 .. (i + 1) - 1, j # 1
      PROVE  j - 1 \in 1 .. i - 1 /\ ops'[j - 1] = ops[j]
  <2>1. j \in DOMAIN ops /\ j - 1 \in 1 .. i - 1
    BY <1>1, <1>6
  <2> QED
    BY <1>1, <1>6, <2>1
<1>7. ASSUME NEW j \in DOMAIN ops, j # 1 PROVE j - 1 \in DOMAIN ops' /\ ops'[j - 1] = ops[j]
  BY <1>1, <1>7
<1>8. NoDac(ops) => NoDac(ops') /\ ~IsDacOn(op)
  BY <1>1, <1>3 DEF NoDac
<1>9. NoPump(ops) => NoPump(ops') /\ ~IsPumpOn(op)
  BY <1>1, <1>3 DEF NoPump
<1>10. IsPumpOn(op) => NoDac(ops) /\ ~dac.drives
  BY <1>1, <1>3 DEF OscInv
<1>11. IsDacOn(op) => NoPump(ops) /\ ~adf
  BY <1>1, <1>3 DEF OscInv
<1>12. ASSUME NEW i \in DOMAIN ops', IsPumpOn(ops'[i])
       PROVE  NoDac(ops') /\ (dac'.drives => \E j \in 1 .. i - 1 : IsDacOff(ops'[j]))
  <2>1. NoDac(ops) /\ (dac.drives => \E j \in 1 .. (i + 1) - 1 : IsDacOff(ops[j]))
    BY <1>5, <1>12 DEF OscInv
  <2>2. dac'.drives => dac.drives /\ ~IsDacOff(op)
    BY <1>2, <1>8, <2>1
  <2>3. ASSUME dac'.drives PROVE \E j \in 1 .. i - 1 : IsDacOff(ops'[j])
    <3>1. PICK j \in 1 .. (i + 1) - 1 : IsDacOff(ops[j])
      BY <2>1, <2>2, <2>3
    <3>2. j # 1
      BY <1>1, <2>2, <2>3, <3>1
    <3> QED
      BY <1>6, <3>1, <3>2
  <2> QED
    BY <1>8, <2>1, <2>3
<1>13. ASSUME NEW i \in DOMAIN ops', IsDacOn(ops'[i])
       PROVE  NoPump(ops') /\ (adf' => \E j \in 1 .. i - 1 : IsPumpOff(ops'[j]))
  <2>1. NoPump(ops) /\ (adf => \E j \in 1 .. (i + 1) - 1 : IsPumpOff(ops[j]))
    BY <1>5, <1>13 DEF OscInv
  <2>2. adf' => adf /\ ~IsPumpOff(op)
    BY <1>2, <1>9, <2>1
  <2>3. ASSUME adf' PROVE \E j \in 1 .. i - 1 : IsPumpOff(ops'[j])
    <3>1. PICK j \in 1 .. (i + 1) - 1 : IsPumpOff(ops[j])
      BY <2>1, <2>2, <2>3
    <3>2. j # 1
      BY <1>1, <2>2, <2>3, <3>1
    <3> QED
      BY <1>6, <3>1, <3>2
  <2> QED
    BY <1>9, <2>1, <2>3
<1>14. DacAfterVal(ops')
  <2> SUFFICES ASSUME NEW i \in DOMAIN ops', SetsDacVal(ops'[i])
               PROVE  \E j \in i + 1 .. Len(ops') : IsDacOn(ops'[j])
    BY DEF DacAfterVal
  <2>1. PICK j \in (i + 1) + 1 .. Len(ops) : IsDacOn(ops[j])
    BY <1>5 DEF OscInv, DacAfterVal
  <2>2. j \in DOMAIN ops /\ j # 1 /\ j - 1 \in i + 1 .. Len(ops')
    BY <1>1, <1>5
  <2> QED
    BY <1>7, <2>1, <2>2
<1>15. dac'.drives => dac'.val = dac_val' \/ \E j \in DOMAIN ops' : IsDacOn(ops'[j])
  <2> SUFFICES ASSUME dac'.drives PROVE dac'.val = dac_val' \/ \E j \in DOMAIN ops' : IsDacOn(ops'[j])
    OBVIOUS
  <2>1. CASE SetsDacVal(op)
    <3>1. PICK j \in 1 + 1 .. Len(ops) : IsDacOn(ops[j])
      BY <1>1, <1>3, <2>1 DEF OscInv, DacAfterVal
    <3>2. j \in DOMAIN ops /\ j # 1
      BY <1>1
    <3> QED
      BY <1>7, <3>1, <3>2
  <2>2. CASE IsDacOn(op)
    BY <1>2, <1>4, <2>2
  <2>3. CASE ~SetsDacVal(op) /\ ~IsDacOn(op)
    <3>1. dac' = dac /\ dac_val' = dac_val
      BY <1>2, <2>3
    <3>2. dac.val = dac_val \/ \E j \in DOMAIN ops : IsDacOn(ops[j])
      BY <3>1 DEF OscInv
    <3>3. ASSUME NEW j \in DOMAIN ops, IsDacOn(ops[j]) PROVE \E k \in DOMAIN ops' : IsDacOn(ops'[k])
      <4>1. j # 1
        BY <1>1, <2>3, <3>3
      <4> QED
        BY <1>7, <3>3, <4>1
    <3> QED
      BY <3>1, <3>2, <3>3
  <2> QED
    BY <2>1, <2>2, <2>3
<1>16. dac'.drives /\ adf' => pc' = "boot" /\ \E j \in DOMAIN ops' : IsPumpOff(ops'[j])
  <2> SUFFICES ASSUME dac'.drives, adf' PROVE pc' = "boot" /\ \E j \in DOMAIN ops' : IsPumpOff(ops'[j])
    OBVIOUS
  <2>1. ~IsDacOn(op) /\ ~IsDacOff(op) /\ ~IsPumpOn(op) /\ ~IsPumpOff(op)
    BY <1>2, <1>10, <1>11
  <2>2. dac.drives /\ adf
    BY <1>2, <2>1
  <2>3. PICK j \in DOMAIN ops : IsPumpOff(ops[j])
    BY <2>2 DEF OscInv
  <2>4. j # 1 /\ pc = "boot"
    BY <1>1, <2>1, <2>2, <2>3 DEF OscInv
  <2> QED
    BY <1>3, <1>7, <2>3, <2>4
<1> QED
  BY <1>12, <1>13, <1>14, <1>15, <1>16 DEF OscInv

\* The program of a command begins where the DAC and the ADF4002 do not both drive.
LEMMA OscStep ==
  ASSUME LoopInv, OpsInv, TypeInv, OscInv, [Next]_vars
  PROVE  OscInv'
<1>1. CASE Others
  <2>1. UNCHANGED <<dac, adf, dac_val, ops>>
    BY <1>1, OthersFrame DEF boardVars, cpuVars
  <2>2. pc = "boot" /\ ops # <<>> => pc' = "boot"
    BY <1>1, OthersFrame
  <2>3. \A j \in DOMAIN ops : ops # <<>>
    OBVIOUS
  <2>4. dac'.drives /\ adf' => pc' = "boot" /\ \E j \in DOMAIN ops' : IsPumpOff(ops'[j])
    BY <2>1, <2>2, <2>3 DEF OscInv
  <2> QED
    BY <2>1, <2>4 DEF OscInv
<1>2. CASE Decode
  <2>1. /\ pc = "decode" /\ UNCHANGED <<dac, adf, dac_val>>
        /\ ops' = <<>> \/ (Program1(ops') /\ OneDriver(ops'))
    BY <1>2, DecodeFacts DEF Fit, boardVars
  <2>2. ops = <<>>
    BY <2>1 DEF OpsInv
  <2>3. ~ (dac.drives /\ adf)
    BY <2>1 DEF OscInv
  <2>4. dac.drives => dac.val = dac_val
    BY <2>2 DEF OscInv
  <2>5. CASE ops' = <<>>
    <3>1. DOMAIN ops' = {} /\ DacAfterVal(ops')
      BY <2>5 DEF DacAfterVal
    <3> QED
      BY <2>1, <2>3, <2>4, <3>1 DEF OscInv
  <2>6. CASE Program1(ops') /\ OneDriver(ops')
    BY <2>1, <2>3, <2>4, <2>6 DEF OscInv, Program1, OneDriver
  <2> QED
    BY <2>1, <2>5, <2>6
<1>3. CASE Waits
  BY <1>3 DEF Waits, OscInv, boardVars
<1>4. CASE Mcu
  BY <1>4, McuFrame DEF OscInv, cpuVars
<1>5. ASSUME NEW op, Takes(op), Effect(op) PROVE OscInv'
  BY <1>5, OscTakes
<1> QED
  BY <1>1, <1>2, <1>3, <1>4, <1>5, Kinds

-----------------------------------------------------------------------------
(***************************************************************************)
(* The bytes that the processor has read from an I2C device: BytesInv.     *)
(***************************************************************************)
\* BytesInv holds when a program begins: the reads come right before the bytes' use.
LEMMA BytesAtStart ==
  ASSUME OpsInv, BytesBefore(ops)
  PROVE  BytesInv
<1> SUFFICES ASSUME NEW i \in DOMAIN ops, UsesBytes(ops[i])
             PROVE  LET dev == DeviceRead(ops[i])
                    IN  i > 3 /\ ops[i - 3] = I2C_start(dev, 1)
                        /\ ops[i - 2] = I2C_read(0) /\ ops[i - 1] = I2C_read(1)
  <2>1. \A i \in DOMAIN ops : i > 3 => i > 2 /\ i > 1 /\ i # 3 /\ i # 2 /\ i # 1
    BY DEF OpsInv
  <2> QED
    BY <2>1 DEF BytesInv
<1> QED
  BY DEF BytesBefore

\* What the bus does with a start and a read.
LEMMA BusEffects ==
  ASSUME NEW op, Effect(op)
  PROVE  /\ \A dev : op = I2C_start(dev, 1) =>
              i2c'.dev = dev /\ i2c'.read = 0 /\ bytes' = <<>> /\ UNCHANGED <<fitted, eeprom>>
         /\ \A last : op = I2C_read(last) =>
              /\ bytes' = Append(bytes, Answered(i2c.dev, i2c.read + 1))
              /\ UNCHANGED <<fitted, eeprom, temperature>>
              /\ i2c' = [i2c EXCEPT !.held = (last = 0), !.read = @ + 1]
<1>1. ASSUME NEW dev, op = I2C_start(dev, 1)
      PROVE  i2c'.dev = dev /\ i2c'.read = 0 /\ bytes' = <<>> /\ UNCHANGED <<fitted, eeprom>>
  <2>1. op.dev = "i2c" /\ op.act = "start" /\ op.reg = dev
    BY <1>1 DEF I2C_start, Op
  <2>2. I2cStartTakes(op)
    BY <2>1 DEF Effect, Dev, Cpu, WaitEnds
  <2> QED
    BY <2>1, <2>2 DEF I2cStartTakes
<1>2. ASSUME NEW last, op = I2C_read(last)
      PROVE  /\ bytes' = Append(bytes, Answered(i2c.dev, i2c.read + 1))
             /\ UNCHANGED <<fitted, eeprom, temperature>>
             /\ i2c' = [i2c EXCEPT !.held = (last = 0), !.read = @ + 1]
  <2>1. op.dev = "i2c" /\ op.act = "read" /\ op.val = last
    BY <1>2 DEF I2C_read, Op
  <2>2. I2cReadTakes(op)
    BY <2>1 DEF Effect, Dev, Cpu, WaitEnds
  <2> QED
    BY <2>1, <2>2 DEF I2cReadTakes, Answered
<1> QED
  BY <1>1, <1>2

\* A step keeps it: the one before the bytes' use are the start and the two reads.
LEMMA BytesTakes ==
  ASSUME OpsInv, TypeInv, BytesInv, NEW op, Takes(op), Effect(op)
  PROVE  BytesInv'
<1>1. /\ op = ops[1] /\ Len(ops) \in Nat /\ DOMAIN ops = 1 .. Len(ops)
      /\ DOMAIN ops' = 1 .. Len(ops) - 1
      /\ \A i \in DOMAIN ops' : ops'[i] = ops[i + 1] /\ i + 1 \in DOMAIN ops
  BY TakesFacts
<1> SUFFICES ASSUME NEW i \in DOMAIN ops', UsesBytes(ops'[i]), NEW dev, dev = DeviceRead(ops'[i])
             PROVE  /\ i > 3 => ops'[i - 3] = I2C_start(dev, 1)
                    /\ i > 2 => ops'[i - 2] = I2C_read(0)
                    /\ i > 1 => ops'[i - 1] = I2C_read(1)
                    /\ i = 3 => i2c'.dev = dev /\ i2c'.read = 0 /\ bytes' = <<>>
                    /\ i = 2 => i2c'.dev = dev /\ i2c'.read = 1 /\ bytes' = <<Answered(dev, 1)'>>
                    /\ i = 1 => bytes' = <<Answered(dev, 1)', Answered(dev, 2)'>>
  BY DEF BytesInv
<1>2. i \in Nat /\ i >= 1 /\ i + 1 \in DOMAIN ops /\ UsesBytes(ops[i + 1]) /\ dev = DeviceRead(ops[i + 1])
  BY <1>1
<1>3. /\ i + 1 > 3 => ops[i + 1 - 3] = I2C_start(dev, 1)
      /\ i + 1 > 2 => ops[i + 1 - 2] = I2C_read(0)
      /\ i + 1 > 1 => ops[i + 1 - 1] = I2C_read(1)
      /\ i + 1 = 3 => i2c.dev = dev /\ i2c.read = 0 /\ bytes = <<>>
      /\ i + 1 = 2 => i2c.dev = dev /\ i2c.read = 1 /\ bytes = <<Answered(dev, 1)>>
  BY <1>2 DEF BytesInv
<1>4. /\ i > 3 => ops'[i - 3] = ops[i + 1 - 3]
      /\ i > 2 => ops'[i - 2] = ops[i + 1 - 2]
      /\ i > 1 => ops'[i - 1] = ops[i + 1 - 1]
  <2>1. i > 3 => i - 3 \in DOMAIN ops' /\ (i - 3) + 1 = i + 1 - 3
    BY <1>1, <1>2
  <2>2. i > 2 => i - 2 \in DOMAIN ops' /\ (i - 2) + 1 = i + 1 - 2
    BY <1>1, <1>2
  <2>3. i > 1 => i - 1 \in DOMAIN ops' /\ (i - 1) + 1 = i + 1 - 1
    BY <1>1, <1>2
  <2> QED
    BY <1>1, <2>1, <2>2, <2>3
<1>5. (i > 3 => i + 1 > 3) /\ (i > 2 => i + 1 > 2) /\ (i > 1 => i + 1 > 1)
  BY <1>2
<1>6. CASE i = 3
  <2>1. op = I2C_start(dev, 1)
    BY <1>1, <1>3, <1>6
  <2>2. i2c'.dev = dev /\ i2c'.read = 0 /\ bytes' = <<>>
    BY <2>1, BusEffects
  <2> QED
    BY <1>3, <1>4, <1>5, <1>6, <2>2
<1>7. CASE i = 2
  <2>1. op = I2C_read(0) /\ i2c.dev = dev /\ i2c.read = 0 /\ bytes = <<>>
    BY <1>1, <1>3, <1>7
  <2>2. /\ bytes' = Append(bytes, Answered(i2c.dev, i2c.read + 1))
        /\ UNCHANGED <<fitted, eeprom, temperature>>
        /\ i2c' = [i2c EXCEPT !.held = (0 = 0), !.read = @ + 1]
    BY <2>1, BusEffects
  <2>3. i2c'.dev = dev /\ i2c'.read = 1
    BY <2>1, <2>2 DEF TypeInv
  <2>4. bytes' = <<Answered(dev, 1)>>
    BY <2>1, <2>2
  <2>5. Answered(dev, 1)' = Answered(dev, 1)
    BY <2>2 DEF Answered, Memory
  <2> QED
    BY <1>3, <1>4, <1>5, <1>7, <2>3, <2>4, <2>5
<1>8. CASE i = 1
  <2>1. op = I2C_read(1) /\ i2c.dev = dev /\ i2c.read = 1 /\ bytes = <<Answered(dev, 1)>>
    BY <1>1, <1>3, <1>8
  <2>2. /\ bytes' = Append(bytes, Answered(i2c.dev, i2c.read + 1))
        /\ UNCHANGED <<fitted, eeprom, temperature>>
    BY <2>1, BusEffects
  <2>3. bytes' = <<Answered(dev, 1), Answered(dev, 2)>>
    <3>1. PICK a, b : a = Answered(dev, 1) /\ b = Answered(dev, 1 + 1)
      OBVIOUS
    <3>2. bytes = <<a>> /\ bytes' = Append(bytes, b)
      BY <2>1, <2>2, <3>1
    <3>3. Append(<<a>>, b) = <<a, b>>
      <4>1. PICK one, two : one = <<a>> /\ two = Append(one, b)
        OBVIOUS
      <4>2. one \in Seq({a, b}) /\ Len(one) = 1 /\ one[1] = a
        BY <4>1
      <4>3. two \in Seq({a, b}) /\ Len(two) = 2 /\ two[1] = a /\ two[2] = b
        BY <4>1, <4>2
      <4>4. PICK both : both = <<a, b>>
        OBVIOUS
      <4>5. both \in Seq({a, b}) /\ Len(both) = 2 /\ both[1] = a /\ both[2] = b
        BY <4>4
      <4>6. two = [k \in 1 .. 2 |-> two[k]] /\ both = [k \in 1 .. 2 |-> both[k]]
        BY <4>3, <4>5
      <4>7. \A k \in 1 .. 2 : two[k] = both[k]
        BY <4>3, <4>5
      <4>8. two = both
        BY <4>6, <4>7
      <4> QED
        BY <4>1, <4>4, <4>8
    <3>4. 1 + 1 = 2
      OBVIOUS
    <3> QED
      BY <3>1, <3>2, <3>3, <3>4
  <2>4. Answered(dev, 1)' = Answered(dev, 1) /\ Answered(dev, 2)' = Answered(dev, 2)
    BY <2>2 DEF Answered, Memory
  <2> QED
    BY <1>8, <2>3, <2>4
<1>9. CASE i > 3
  BY <1>2, <1>3, <1>4, <1>5, <1>9
<1> QED
  BY <1>2, <1>6, <1>7, <1>8, <1>9

\* BytesInv holds at first, and goes on to hold.
LEMMA BytesInit == Init => BytesInv
<1> SUFFICES ASSUME Init PROVE BytesInv
  OBVIOUS
<1>1. ops = Boot /\ OpsInv
  BY OpsInit DEF Init
<1> QED
  BY <1>1, BootProgram, BytesAtStart

\* BytesInv goes on to hold.
LEMMA BytesStep ==
  ASSUME LoopInv, OpsInv, TypeInv, BytesInv, [Next]_vars
  PROVE  BytesInv'
<1>1. CASE Others \/ Waits \/ Mcu
  <2>1. UNCHANGED <<ops, i2c, bytes, fitted, eeprom, temperature>>
    BY <1>1, OthersFrame, McuFrame DEF boardVars, Waits
  <2> QED
    BY <2>1 DEF BytesInv, Answered, Memory
<1>2. CASE Decode
  <2>1. ops' = <<>> \/ BytesBefore(ops')
    BY <1>2, DecodeFacts DEF Fit, Program1
  <2>2. BytesBefore(<<>>)
    BY DEF BytesBefore
  <2>3. OpsInv' /\ BytesBefore(ops')
    BY <1>2, <2>1, <2>2, OpsStep
  <2>4. \A i \in DOMAIN ops' : i > 3 => i > 2 /\ i > 1 /\ i # 3 /\ i # 2 /\ i # 1
    BY <2>3 DEF OpsInv
  <2> QED
    BY <2>3, <2>4 DEF BytesInv, BytesBefore
<1>3. ASSUME NEW op, Takes(op), Effect(op) PROVE BytesInv'
  BY <1>3, BytesTakes
<1> QED
  BY <1>1, <1>2, <1>3, Kinds

-----------------------------------------------------------------------------
(***************************************************************************)
(* The types of what the board and the processor keep: TypeInv.            *)
(***************************************************************************)
\* What the bytes say: a value for the DAC, a temperature.
LEMMA BytesRead ==
  ASSUME OpsInv, TypeInv, BytesInv, ops # <<>>, NEW op, op = Head(ops), UsesBytes(op)
  PROVE  /\ bytes = <<Answered(DeviceRead(op), 1), Answered(DeviceRead(op), 2)>>
         /\ bytes[1] \in Byte /\ bytes[2] \in Byte
<1>1. 1 \in DOMAIN ops /\ op = ops[1]
  BY TailFacts DEF OpsInv
<1>2. PICK dev : dev = DeviceRead(op)
  OBVIOUS
<1>3. bytes = <<Answered(dev, 1), Answered(dev, 2)>>
  BY <1>1, <1>2 DEF BytesInv
<1>4. \A k \in {1, 2} : Answered(dev, k) \in Byte
  <2>1. PICK low \in Byte, high \in Byte : eeprom = <<low, high>>
    BY DEF TypeInv
  <2>2. (temperature \div 2) % 256 \in Byte /\ 128 * (temperature % 2) \in Byte
    <3>1. temperature \in Int /\ temperature % 2 \in 0 .. 1 /\ temperature \div 2 \in Int
      BY DEF TypeInv
    <3>2. PICK h \in Int, l \in 0 .. 1 : h = temperature \div 2 /\ l = temperature % 2
      BY <3>1
    <3>3. h % 256 \in 0 .. 255
      OBVIOUS
    <3>4. 128 * l \in 0 .. 255
      <4>1. l = 0 \/ l = 1
        OBVIOUS
      <4> QED
        BY <4>1
    <3> QED
      BY <3>2, <3>3, <3>4 DEF Byte
  <2>3. PICK a \in Byte, b \in Byte : a = (temperature \div 2) % 256 /\ b = 128 * (temperature % 2)
    BY <2>2
  <2>4. Memory(dev) \in {<<low, high>>, <<a, b>>}
    BY <2>1, <2>3 DEF Memory
  <2>5. 255 \in Byte
    BY DEF Byte
  <2>6. \A k \in {1, 2} : Memory(dev)[k] \in Byte
    BY <2>4
  <2> QED
    BY <2>5, <2>6 DEF Answered
<1> QED
  BY <1>2, <1>3, <1>4

\* The words for the host are integers.
LEMMA ReportIsInt ==
  ASSUME OpsInv, TypeInv, BytesInv, ops # <<>>, NEW op, op = Head(ops),
         op.dev = "cpu", op.act = "report"
  PROVE  ReportOf(op.reg) \in Int
<1>1. CASE op.reg = "temperature"
  <2>1. bytes[1] \in Byte /\ bytes[2] \in Byte
    BY <1>1, BytesRead DEF UsesBytes, IsTemperature
  <2>2. \A x \in Int : Int16(x) \in Int
    BY DEF Int16
  <2>3. PICK x : x = Converted(bytes[1], bytes[2])
    OBVIOUS
  <2>4. x \in Int
    <3>0. bytes[1] \in Int /\ bytes[2] \in Int
      <4>1. Byte \subseteq Int
        BY DEF Byte
      <4> QED
        BY <2>1, <4>1
    <3>1. PICK high \in Int, low \in Int : high = bytes[1] /\ low = bytes[2]
      BY <3>0
    <3>2. PICK w \in Int : w = Int16(high * 256)
      <4>1. high * 256 \in Int
        OBVIOUS
      <4> QED
        BY <2>2, <4>1
    <3>3. 10 * (w \div 256) + (IF low >= 128 THEN 5 ELSE 0) \in Int
      BY <3>1, <3>2
    <3>4. Converted(high, low) \in Int
      BY <2>2, <3>2, <3>3 DEF Converted
    <3> QED
      BY <2>3, <3>1, <3>4
  <2>5. PICK b1 \in Int, b2 \in Int : b1 = (x \div 256) % 256 /\ b2 = x % 256
    BY <2>4
  <2>6. Bytes16(x) = <<b1, b2>>
    BY <2>5 DEF Bytes16
  <2>7. Said16(<<b1, b2>>) \in Int
    BY <2>2, <2>5 DEF Said16
  <2>8. ReportOf("temperature") = Said16(Bytes16(x))
    BY <2>3 DEF ReportOf
  <2> QED
    BY <1>1, <2>6, <2>7, <2>8
<1>2. CASE op.reg # "temperature"
  <2>1. dac_val \in Int /\ 0 \in Int
    BY DEF TypeInv, Byte
  <2> QED
    BY <1>2, <2>1 DEF ReportOf
<1> QED
  BY <1>1, <1>2

\* What a step does to the reply: a value more, or nothing.
LEMMA ReplyEffects ==
  ASSUME OpsInv, TypeInv, BytesInv, NEW op, Takes(op), Effect(op)
  PROVE  /\ reply' \in Replies
         /\ reply'.tag = reply.tag /\ reply'.cmd = reply.cmd /\ reply'.status = reply.status
         /\ reply.data \in Seq(Int)
         /\ Len(reply'.data) = Len(reply.data) + (IF op \in DataOps THEN 1 ELSE 0)
<1>1. op \in OpSet /\ Sane(op) /\ op = Head(ops) /\ ops # <<>>
  BY TakesFacts DEF Takes
<1>2. /\ reply \in Replies /\ reply.data \in Seq(Int)
      /\ reply.tag \in 0 .. 2 /\ reply.cmd \in {c.cmd : c \in Commands} \cup {"none"}
      /\ reply.status \in Statuses
  BY DEF TypeInv, Replies
<1>3. ASSUME NEW x \in Int, NEW r, r = [reply EXCEPT !.data = Append(@, x)]
      PROVE  /\ r \in Replies /\ r.tag = reply.tag /\ r.cmd = reply.cmd /\ r.status = reply.status
             /\ Len(r.data) = Len(reply.data) + 1
  <2>1. PICK d : d = Append(reply.data, x)
    OBVIOUS
  <2>2. d \in Seq(Int) /\ Len(d) = Len(reply.data) + 1
    BY <1>2, <2>1
  <2>3. r = [reply EXCEPT !.data = d]
    BY <1>3, <2>1
  <2>4. r.data = d /\ r.tag = reply.tag /\ r.cmd = reply.cmd /\ r.status = reply.status
    BY <1>2, <2>3 DEF Replies
  <2>5. r \in Replies
    BY <1>2, <2>2, <2>3 DEF Replies
  <2> QED
    BY <2>2, <2>4, <2>5
<1>4. Len(reply.data) \in Nat
  BY <1>2
<1>5. CASE op \in DataOps
  <2>1. \E x \in Int : reply' = [reply EXCEPT !.data = Append(@, x)]
    <3>1. CASE op.dev \in {"lms", "brd"} /\ op.act = "read"
      <4>1. regs[op.reg] \in Int
        BY <1>1, <3>1 DEF Sane, TypeInv
      <4>2. reply' = [reply EXCEPT !.data = Append(@, regs[op.reg])]
        BY <3>1 DEF Effect, Dev, Cpu, WaitEnds
      <4> QED
        BY <4>1, <4>2
    <3>2. CASE op.dev = "cpu" /\ op.act = "report"
      <4>1. ReportOf(op.reg) \in Int
        BY <1>1, <3>2, ReportIsInt
      <4>2. reply' = [reply EXCEPT !.data = Append(@, ReportOf(op.reg))]
        BY <3>2 DEF Effect, Dev, Cpu, WaitEnds
      <4> QED
        BY <4>1, <4>2
    <3> QED
      BY <1>5, <3>1, <3>2 DEF DataOps
  <2>2. PICK x \in Int : reply' = [reply EXCEPT !.data = Append(@, x)]
    BY <2>1
  <2>3. PICK r : r = reply'
    OBVIOUS
  <2>4. r \in Replies /\ r.tag = reply.tag /\ r.cmd = reply.cmd /\ r.status = reply.status
        /\ Len(r.data) = Len(reply.data) + 1
    BY <1>3, <2>2, <2>3
  <2> QED
    BY <1>2, <1>5, <2>3, <2>4
<1>6. CASE op \notin DataOps
  <2>1. ~ (op.dev \in {"lms", "brd"} /\ op.act = "read") /\ ~ (op.dev = "cpu" /\ op.act = "report")
    BY <1>1, <1>6 DEF DataOps
  <2>2. reply' = reply
    BY <2>1 DEF Effect, Dev, Cpu, WaitEnds
  <2> QED
    BY <1>2, <1>4, <1>6, <2>2
<1> QED
  BY <1>2, <1>5, <1>6

\* And to the count of errors.
LEMMA ErrorEffects ==
  ASSUME NEW op \in OpSet, Effect(op)
  PROVE  cmd_errors' = cmd_errors \/ (op \in ErrorOps /\ cmd_errors' = cmd_errors + 1)
<1>1. CASE Dev(op)
  BY <1>1 DEF Dev, cpuVars
<1>2. CASE Cpu(op)
  BY <1>2 DEF Cpu, ErrorOps
<1>3. CASE WaitEnds(op)
  BY <1>3 DEF WaitEnds, ErrorOps
<1> QED
  BY <1>1, <1>2, <1>3 DEF Effect

\* The MCU when it is reset.
LEMMA ResetMcu == McuAtReset \in McuStates
<1>1. <<>> \in Seq(Nat) /\ 0 \in 0 .. 3 /\ 0 \in 0 .. PortionBytes
  BY ScaleOK
<1> QED
  BY <1>1 DEF McuAtReset, McuStates

\* What a step of a program does to the MCU, and to the reset of the chip it is in.
LEMMA McuEffects ==
  ASSUME mcu \in McuStates, NEW op \in OpSet, Sane(op), Effect(op)
  PROVE  /\ mcu' \in McuStates
         /\ op.dev = "lms_reset" => /\ lms_reset_n' = (op.val # 0)
                                    /\ mcu' = IF op.val = 0 THEN McuAtReset ELSE mcu
         /\ op.dev # "lms_reset" => lms_reset_n' = lms_reset_n
         /\ op.dev # "lms_reset" /\ ~IsMcuControl(op) /\ ~IsMcuByte(op) => mcu' = mcu
         /\ IsMcuControl(op) =>
              mcu' = IF ~lms_reset_n THEN mcu
                     ELSE IF op.val = 0 THEN McuAtReset ELSE [mcu EXCEPT !.mode = op.val]
         /\ IsMcuByte(op) => mcu' = IF ~lms_reset_n THEN mcu ELSE McuByte(op.val)
<1>1. op.val \in Nat
  BY DEF OpSet
<1>2. McuByte(op.val) \in McuStates
  <2>1. CASE mcu.mode \notin {1, 2}
    BY <2>1 DEF McuByte
  <2>2. CASE mcu.mode \in {1, 2} /\ mcu.fifo < PortionBytes
    <3>1. mcu.fifo + 1 \in 0 .. PortionBytes
      BY <2>2, ScaleOK DEF McuStates
    <3>2. McuByte(op.val) = [mcu EXCEPT !.fifo = @ + 1, !.portion = op.val]
      BY <2>2 DEF McuByte
    <3> QED
      BY <1>1, <3>1, <3>2 DEF McuStates
  <2>3. CASE mcu.mode \in {1, 2} /\ ~(mcu.fifo < PortionBytes)
    BY <2>3 DEF McuByte, McuStates
  <2> QED
    BY <2>1, <2>2, <2>3
<1>3. CASE op.dev = "lms_reset"
  <2>1. LmsResetTakes(op) /\ ~IsMcuControl(op) /\ ~IsMcuByte(op)
    BY <1>3 DEF Effect, Dev, Cpu, WaitEnds, Sane
  <2> QED
    BY <1>3, <2>1, ResetMcu DEF LmsResetTakes
<1>4. CASE op.dev \in {"lms", "brd"} /\ op.act = "write"
  <2>1. RegWriteTakes(op)
    BY <1>4 DEF Effect, Dev, Cpu, WaitEnds
  <2>2. lms_reset_n' = lms_reset_n
    BY <2>1 DEF RegWriteTakes
  <2>3. ASSUME IsMcuControl(op)
        PROVE  /\ mcu' \in McuStates /\ ~IsMcuByte(op)
               /\ mcu' = IF ~lms_reset_n THEN mcu
                         ELSE IF op.val = 0 THEN McuAtReset ELSE [mcu EXCEPT !.mode = op.val]
    <3>1. op.dev = "lms" /\ op.val \in 0 .. 3 /\ op.reg = "MCU_CONTROL_REG"
      BY <2>3 DEF Sane, IsMcuControl
    <3>2. mcu' = IF ~lms_reset_n THEN mcu
                 ELSE IF op.val = 0 THEN McuAtReset ELSE [mcu EXCEPT !.mode = op.val]
      BY <2>1, <3>1 DEF RegWriteTakes
    <3>3. [mcu EXCEPT !.mode = op.val] \in McuStates
      BY <3>1 DEF McuStates
    <3> QED
      BY <3>1, <3>2, <3>3, ResetMcu DEF IsMcuByte
  <2>4. ASSUME IsMcuByte(op)
        PROVE  /\ mcu' \in McuStates /\ ~IsMcuControl(op)
               /\ mcu' = IF ~lms_reset_n THEN mcu ELSE McuByte(op.val)
    <3>1. op.dev = "lms" /\ op.reg = "MCU_FIFO_WR_REG"
      BY <2>4 DEF Sane, IsMcuByte
    <3>2. mcu' = IF ~lms_reset_n THEN mcu ELSE McuByte(op.val)
      BY <2>1, <3>1 DEF RegWriteTakes
    <3> QED
      BY <1>2, <3>1, <3>2 DEF IsMcuControl
  <2>5. ASSUME ~IsMcuControl(op), ~IsMcuByte(op) PROVE mcu' = mcu
    BY <1>4, <2>1, <2>5 DEF RegWriteTakes, IsMcuControl, IsMcuByte
  <2> QED
    BY <1>4, <2>2, <2>3, <2>4, <2>5
<1>5. CASE op.dev # "lms_reset" /\ ~(op.dev \in {"lms", "brd"} /\ op.act = "write")
  <2>1. UNCHANGED <<mcu, lms_reset_n>>
    BY <1>5 DEF Effect, Dev, Cpu, WaitEnds, DacTakes, AdfTakes, I2cStartTakes, I2cWriteTakes,
         I2cReadTakes, boardVars
  <2>2. ~IsMcuControl(op) /\ ~IsMcuByte(op)
    BY <1>5 DEF Sane, IsMcuControl, IsMcuByte
  <2> QED
    BY <1>5, <2>1, <2>2
<1> QED
  BY <1>3, <1>4, <1>5

\* The MCU taking a portion, or programmed.
LEMMA McuOwnSteps ==
  ASSUME mcu \in McuStates, Mcu
  PROVE  /\ mcu' \in McuStates
         /\ \/ /\ mcu.fifo = PortionBytes
               /\ mcu' = [mcu EXCEPT !.fifo = 0, !.taken = Append(@, mcu.portion)]
            \/ mcu' = [mcu EXCEPT !.programmed = TRUE]
<1>1. CASE McuTakes
  <2>1. mcu' = [mcu EXCEPT !.fifo = 0, !.taken = Append(mcu.taken, mcu.portion)]
        /\ mcu.fifo = PortionBytes
    BY <1>1 DEF McuTakes
  <2>2. Append(mcu.taken, mcu.portion) \in Seq(Nat) /\ 0 \in 0 .. PortionBytes
    BY ScaleOK DEF McuStates
  <2>3. PICK s \in Seq(Nat) : s = Append(mcu.taken, mcu.portion)
    BY <2>2
  <2> QED
    BY <2>1, <2>2, <2>3 DEF McuStates
<1>2. CASE McuProgrammed
  BY <1>2 DEF McuProgrammed, McuStates
<1> QED
  BY <1>1, <1>2 DEF Mcu

\* What a step does to the rest of the board.
LEMMA BoardEffects ==
  ASSUME TypeInv, NEW op \in OpSet, Effect(op)
  PROVE  /\ lms_reset_n' \in BOOLEAN /\ regs' \in [LmsRegs \cup BrdRegs -> Nat]
         /\ eeprom' = eeprom /\ fitted' = fitted /\ temperature' \in -256 .. 255
         /\ i2c' \in [held : BOOLEAN, dev : OpRegs \cup {"none"}, read : Nat]
<1>0. /\ lms_reset_n \in BOOLEAN /\ regs \in [LmsRegs \cup BrdRegs -> Nat]
      /\ temperature \in -256 .. 255 /\ op.val \in Nat
      /\ i2c \in [held : BOOLEAN, dev : OpRegs \cup {"none"}, read : Nat]
  BY DEF TypeInv, OpSet
<1>1. CASE Dev(op) /\ op.dev = "lms_reset"
  <2>1. LmsResetTakes(op)
    BY <1>1 DEF Dev
  <2>2. UNCHANGED <<eeprom, fitted, temperature, i2c>> /\ lms_reset_n' \in BOOLEAN
    BY <2>1 DEF LmsResetTakes
  <2>3. regs' = regs \/ regs' = [r \in DOMAIN regs |-> IF r \in LmsRegs THEN 0 ELSE regs[r]]
    BY <2>1 DEF LmsResetTakes
  <2> QED
    BY <1>0, <2>2, <2>3
<1>2. CASE Dev(op) /\ op.dev = "i2c"
  <2>1. CASE op.act = "start"
    <3>1. I2cStartTakes(op)
      BY <1>2, <2>1 DEF Dev
    <3>2. UNCHANGED <<lms_reset_n, regs, eeprom, fitted>> /\ temperature' \in -256 .. 255
      BY <1>0, <3>1, TemperaturesOK DEF I2cStartTakes
    <3>3. i2c' = [held |-> TRUE, dev |-> op.reg, read |-> 0]
      BY <3>1 DEF I2cStartTakes
    <3>4. op.reg \in OpRegs
      BY DEF OpSet
    <3>5. i2c' \in [held : BOOLEAN, dev : OpRegs \cup {"none"}, read : Nat]
      BY <3>3, <3>4
    <3> QED
      BY <1>0, <3>2, <3>5
  <2>2. CASE op.act = "write"
    <3>1. I2cWriteTakes(op)
      BY <1>2, <2>2 DEF Dev
    <3> QED
      BY <1>0, <3>1 DEF I2cWriteTakes
  <2>3. CASE op.act = "read"
    <3>1. I2cReadTakes(op)
      BY <1>2, <2>3 DEF Dev
    <3>2. UNCHANGED <<lms_reset_n, regs, eeprom, fitted, temperature>>
      BY <3>1 DEF I2cReadTakes
    <3>3. PICK h : h = (op.val = 0) /\ i2c' = [i2c EXCEPT !.held = h, !.read = @ + 1]
      BY <3>1 DEF I2cReadTakes
    <3>4. PICK Regs : Regs = OpRegs \cup {"none"}
      OBVIOUS
    <3>5. i2c \in [held : BOOLEAN, dev : Regs, read : Nat] /\ h \in BOOLEAN
      BY <1>0, <3>3, <3>4
    <3>6. i2c' \in [held : BOOLEAN, dev : Regs, read : Nat]
      <4>1. PICK n \in Nat, d \in Regs : n = i2c.read /\ d = i2c.dev
        BY <3>5
      <4>2. i2c' = [held |-> h, dev |-> d, read |-> n + 1]
        BY <3>3, <3>5, <4>1
      <4> QED
        BY <3>5, <4>1, <4>2
    <3> QED
      BY <1>0, <3>2, <3>4, <3>6
  <2>4. CASE op.act \notin {"start", "write", "read"}
    BY <1>0, <1>2, <2>4 DEF Dev, boardVars
  <2> QED
    BY <2>1, <2>2, <2>3, <2>4
<1>3. CASE Dev(op) /\ op.dev \in {"lms", "brd"}
  <2>1. CASE op.act = "write"
    <3>1. RegWriteTakes(op)
      BY <1>3, <2>1 DEF Dev
    <3>2. UNCHANGED <<lms_reset_n, eeprom, fitted, temperature, i2c>>
      BY <3>1 DEF RegWriteTakes
    <3>3. regs' = regs \/ regs' = [regs EXCEPT ![op.reg] = op.val]
      BY <3>1 DEF RegWriteTakes
    <3> QED
      BY <1>0, <3>2, <3>3
  <2>2. CASE op.act # "write"
    BY <1>0, <1>3, <2>2 DEF Dev, boardVars
  <2> QED
    BY <2>1, <2>2
<1>4. CASE Dev(op) /\ op.dev \in {"dac", "adf"}
  BY <1>0, <1>4 DEF Dev, DacTakes, AdfTakes
<1>5. CASE Cpu(op) \/ WaitEnds(op)
  BY <1>0, <1>5 DEF Cpu, WaitEnds, boardVars
<1> QED
  BY <1>1, <1>2, <1>3, <1>4, <1>5 DEF Effect, Dev

\* TypeInv holds at first.
LEMMA TypeInit == Init => TypeInv
<1> SUFFICES ASSUME Init PROVE TypeInv
  OBVIOUS
<1>1. /\ dac = [drives |-> TRUE, val |-> 0] /\ adf \in BOOLEAN /\ lms_reset_n = TRUE
      /\ regs = [r \in LmsRegs \cup BrdRegs |-> 0] /\ eeprom = session.eeprom
      /\ session \in Sessions /\ temperature = 0 /\ led = FALSE
      /\ i2c = [held |-> FALSE, dev |-> "none", read |-> 0] /\ mcu = McuAtReset
      /\ cmd_errors = 0 /\ dac_val = 125 /\ last_portion = 0 /\ MCU_retries = 0
      /\ reply = NoReply
  BY DEF Init, InitBoard
<1>2. 0 \in Byte /\ 125 \in Byte /\ 0 \in 0 .. LastPortion /\ 0 \in 0 .. RetryRange - 1
      /\ 0 \in -256 .. 255
  BY ScaleOK DEF Byte
<1>3. eeprom \in Byte \X Byte
  BY <1>1, SessionsOK
<1>4. NoReply \in Replies
  <2>1. <<>> \in Seq(Int)
    OBVIOUS
  <2> QED
    BY <2>1 DEF NoReply, Replies, Statuses
<1>5. McuAtReset \in McuStates
  BY ResetMcu
<1> QED
  BY <1>1, <1>2, <1>3, <1>4, <1>5 DEF TypeInv

\* A step of a program keeps it.
LEMMA TypeTakes ==
  ASSUME OpsInv, TypeInv, BytesInv, NEW op, Takes(op), Effect(op)
  PROVE  TypeInv'
<1>1. op \in OpSet /\ Sane(op) /\ op = Head(ops) /\ ops # <<>> /\ led' = led
  BY TakesFacts DEF Takes
<1>2. dac' \in [drives : BOOLEAN, val : Byte] /\ adf' \in BOOLEAN
  <2>1. dac \in [drives : BOOLEAN, val : Byte] /\ adf \in BOOLEAN /\ dac_val \in Byte
    BY DEF TypeInv
  <2>2. [drives |-> TRUE, val |-> dac_val] \in [drives : BOOLEAN, val : Byte]
    BY <2>1
  <2>3. [drives : {FALSE}, val : Byte] \subseteq [drives : BOOLEAN, val : Byte]
    OBVIOUS
  <2> QED
    BY <1>1, <2>1, <2>2, <2>3, PinEffects
<1>3. dac_val' \in Byte
  <2>1. CASE op.dev = "cpu" /\ op.act = "dac_val"
    <3>1. dac_val' = op.val
      BY <2>1 DEF Effect, Dev, Cpu, WaitEnds
    <3> QED
      BY <1>1, <2>1, <3>1 DEF Sane
  <2>2. CASE op.dev = "cpu" /\ op.act = "dac_val_eeprom"
    <3>1. dac_val' = EepromDacVal(bytes[1], bytes[2])
      BY <2>2 DEF Effect, Dev, Cpu, WaitEnds
    <3>2. bytes[1] \in Byte /\ 125 \in Byte
      BY <1>1, <2>2, BytesRead DEF UsesBytes, IsStored, Byte
    <3> QED
      BY <3>1, <3>2 DEF EepromDacVal
  <2>3. CASE ~SetsDacVal(op)
    <3>1. dac_val' = dac_val
      BY <1>1, <2>3, PinEffects DEF TypeInv
    <3> QED
      BY <3>1 DEF TypeInv
  <2> QED
    BY <2>1, <2>2, <2>3 DEF SetsDacVal
<1>4. cmd_errors' \in Nat
  BY <1>1, ErrorEffects DEF TypeInv
<1>5. last_portion' \in 0 .. LastPortion
  <2>1. last_portion' = last_portion \/ (SavesPortion(op) /\ last_portion' = op.val)
    BY DEF Effect, Dev, Cpu, WaitEnds, SavesPortion, cpuVars
  <2> QED
    BY <1>1, <2>1 DEF Sane, TypeInv
<1>6. MCU_retries' \in 0 .. RetryRange - 1
  <2>1. MCU_retries' = MCU_retries \/ MCU_retries' = 0
    BY DEF Effect, Dev, Cpu, WaitEnds, cpuVars
  <2>2. 0 \in 0 .. RetryRange - 1
    BY ScaleOK
  <2> QED
    BY <2>1, <2>2 DEF TypeInv
<1>7. reply' \in Replies
  BY ReplyEffects
<1>8. eeprom' \in Byte \X Byte /\ led' \in BOOLEAN
  BY <1>1, BoardEffects DEF TypeInv
<1>9. mcu' \in McuStates
  BY <1>1, McuEffects DEF TypeInv
<1> QED
  BY <1>1, <1>2, <1>3, <1>4, <1>5, <1>6, <1>7, <1>8, <1>9, BoardEffects DEF TypeInv

\* TypeInv goes on to hold.
LEMMA TypeStep ==
  ASSUME LoopInv, OpsInv, TypeInv, BytesInv, [Next]_vars
  PROVE  TypeInv'
<1>1. CASE Others
  <2>1. UNCHANGED <<boardVars, cpuVars>>
    BY <1>1, OthersFrame
  <2>2. led' \in BOOLEAN
    BY <1>1 DEF Others, HostAsks, FX3Delivers, FX3Fetches, PollStatus, SetReset, EndReset, LedOn,
         ReadWord, GetFifoData, BootDone, Respond, WriteWord, LedOff, cmdVars, vars, TypeInv
  <2>3. reply' \in Replies
    <3>1. CASE Respond
      <4>1. /\ reply \in Replies /\ reply.data \in Seq(Int) /\ reply.tag \in 0 .. 2
            /\ reply.cmd \in {c.cmd : c \in Commands} \cup {"none"}
        BY DEF TypeInv, Replies
      <4>2. PICK s : s = LastStatus(reply.cmd, cmd_errors)
        OBVIOUS
      <4>3. s \in Statuses
        BY <4>2 DEF LastStatus, Statuses
      <4>4. reply' = reply \/ reply' = [reply EXCEPT !.status = s]
        BY <3>1, <4>2 DEF Respond
      <4> QED
        BY <4>1, <4>3, <4>4 DEF Replies
    <3>2. CASE ~Respond
      <4>1. reply' = reply
        BY <1>1, <3>2 DEF Others, HostAsks, FX3Delivers, FX3Fetches, PollStatus, SetReset, EndReset,
             LedOn, ReadWord, GetFifoData, BootDone, WriteWord, LedOff, cmdVars, vars
      <4> QED
        BY <4>1 DEF TypeInv
    <3> QED
      BY <3>1, <3>2
  <2> QED
    BY <2>1, <2>2, <2>3 DEF TypeInv, boardVars, cpuVars
<1>2. CASE Decode
  <2>1. /\ UNCHANGED <<boardVars, led, dac_val, last_portion>> /\ cmd_errors' = 0 /\ MCU_retries' = 0
        /\ reply' = [tag |-> tag, cmd |-> asked.cmd, status |-> reply'.status, data |-> <<>>]
        /\ reply'.status = FirstStatus(packet', last_portion)
        /\ asked.cmd \in {c.cmd : c \in Commands}
    BY <1>2, DecodeFacts
  <2>2. reply'.status \in Statuses
    <3>1. PICK p : p = packet'
      OBVIOUS
    <3>2. FirstStatus(p, last_portion) \in Statuses
      BY DEF FirstStatus, Statuses
    <3> QED
      BY <2>1, <3>1, <3>2
  <2>3. PICK s \in Statuses : reply' = [tag |-> tag, cmd |-> asked.cmd, status |-> s, data |-> <<>>]
    BY <2>1, <2>2
  <2>4. reply' \in Replies
    <3>1. <<>> \in Seq(Int) /\ tag \in 0 .. 2
      BY DEF LoopInv, LoopBase
    <3> QED
      BY <2>1, <2>3, <3>1 DEF Replies
  <2>5. cmd_errors' \in Nat /\ MCU_retries' \in 0 .. RetryRange - 1
    BY <2>1, ScaleOK
  <2> QED
    BY <2>1, <2>4, <2>5 DEF TypeInv, boardVars
<1>3. CASE Waits
  <2>1. UNCHANGED <<boardVars, led, reply, cmd_errors, dac_val, last_portion>>
        /\ MCU_retries' = (MCU_retries + 1) % RetryRange
    BY <1>3 DEF Waits
  <2>2. MCU_retries' \in 0 .. RetryRange - 1
    <3>1. RetryRange \in Nat /\ RetryRange > 0 /\ MCU_retries + 1 \in Int
      BY ScaleOK DEF TypeInv
    <3> QED
      BY <2>1, <3>1
  <2> QED
    BY <2>1, <2>2 DEF TypeInv, boardVars
<1>4. CASE Mcu
  <2>1. mcu' \in McuStates
    BY <1>4, McuOwnSteps DEF TypeInv
  <2> QED
    BY <1>4, <2>1, McuFrame DEF TypeInv, cmdVars, cpuVars
<1>5. ASSUME NEW op, Takes(op), Effect(op) PROVE TypeInv'
  BY <1>5, TypeTakes
<1> QED
  BY <1>1, <1>2, <1>3, <1>4, <1>5, Kinds

-----------------------------------------------------------------------------
(***************************************************************************)
(* Errors and values to come: CountInv.                                    *)
(***************************************************************************)
\* While a command is served and its reply written, the host waits.
LEMMA HostWaits ==
  ASSUME LoopInv, [Next]_vars, pc \in {"serve", "send"}
  PROVE  UNCHANGED <<asked, tag>>
<1>1. Serving
  BY Phases
<1>2. ~HostAsks
  BY <1>1 DEF Serving, HostAsks
<1>3. ~FX3Fetches
  <2>1. got = <<>> /\ EP8F = Run(tag, 0, cnt) /\ cnt \in Nat /\ cnt < PacketWords
    <3>1. cnt \in Nat /\ 0 < PacketWords
      BY Phases DEF LoopInv, LoopBase
    <3> QED
      BY <1>1, <3>1 DEF Serving, LoopInv, LoopBase
  <2>2. Len(EP8F) = cnt
    BY <2>1, RunFacts
  <2>3. ~ (Len(EP8F) >= PacketWords)
    BY <2>1, <2>2, Phases
  <2> QED
    BY <2>1, <2>3 DEF FX3Fetches
<1>4. CASE FX3Delivers \/ Firmware \/ Mcu \/ UNCHANGED vars
  BY <1>4 DEF FX3Delivers, Firmware, PollStatus, SetReset, EndReset, LedOn, ReadWord, GetFifoData,
       Decode, DeviceStep, CpuStep, AwaitMcu, PollMcu, UnchangedLoop, BootDone, Respond, WriteWord,
       LedOff, At, Mcu, hostVars, vars
<1> QED
  BY <1>2, <1>3, <1>4 DEF Next

\* Nothing is left to count of no program.
LEMMA CountEmpty ==
  ASSUME NEW S
  PROVE  Count(<<>>, S) = 0
<1>1. \A i \in DOMAIN <<>> : <<>>[i] \notin S
  OBVIOUS
<1> QED
  BY <1>1, CountNone

\* CountInv holds at first.
LEMMA CountInit == Init => CountInv
<1> SUFFICES ASSUME Init PROVE CountInv
  OBVIOUS
<1>1. ops = Boot /\ pc = "boot" /\ cmd_errors = 0
  BY DEF Init
<1>2. Boot \in Seq(BootSteps)
  BY BootProgram
<1>3. \A i \in DOMAIN Boot : Boot[i] \notin ErrorOps
  <2>1. \A i \in DOMAIN Boot : Boot[i] \in BootSteps
    BY <1>2
  <2> QED
    BY <2>1 DEF BootSteps
<1>4. Count(Boot, ErrorOps) = 0
  BY <1>3, CountNone
<1>5. 0 <= FieldBytes
  BY ScaleOK
<1> QED
  BY <1>1, <1>4, <1>5 DEF CountInv

\* The errors so far are never too many.
LEMMA ErrorsBound ==
  ASSUME OpsInv, TypeInv, CountInv
  PROVE  cmd_errors \in Nat /\ cmd_errors <= FieldBytes /\ FieldBytes \in Nat
<1>1. cmd_errors \in Nat /\ FieldBytes \in Nat /\ Count(ops, ErrorOps) \in Nat
  BY HitsFinite, ScaleOK DEF OpsInv, TypeInv
<1>2. cmd_errors <= FieldBytes \/ cmd_errors + Count(ops, ErrorOps) <= FieldBytes
  BY DEF CountInv
<1> QED
  BY <1>1, <1>2

\* A step of a program keeps CountInv: an error or a value that it adds is one less
\* to come.
LEMMA CountTakes ==
  ASSUME OpsInv, TypeInv, BytesInv, CountInv, NEW op, Takes(op), Effect(op)
  PROVE  CountInv'
<1>1. op \in OpSet /\ op = ops[1] /\ ops \in Seq(OpSet) /\ ops # <<>> /\ ops' = Tail(ops)
  BY TakesFacts DEF Takes
<1>2. pc \in {"boot", "serve"} /\ pc' = pc /\ asked' = asked
  BY DEF Takes
<1>3. \A S : /\ Count(ops, S) = (IF op \in S THEN 1 ELSE 0) + Count(ops', S)
             /\ Count(ops, S) \in Nat /\ Count(ops', S) \in Nat
  BY <1>1, CountTail
<1>4. cmd_errors' = cmd_errors \/ (op \in ErrorOps /\ cmd_errors' = cmd_errors + 1)
  BY <1>1, ErrorEffects
<1>5. /\ reply'.status = reply.status /\ reply.data \in Seq(Int)
      /\ Len(reply'.data) = Len(reply.data) + (IF op \in DataOps THEN 1 ELSE 0)
  BY ReplyEffects
<1>6. cmd_errors \in Nat /\ FieldBytes \in Nat /\ Len(reply.data) \in Nat
  BY <1>5, ScaleOK DEF TypeInv
<1>7. PICK e \in 0 .. 1 : e = IF op \in ErrorOps THEN 1 ELSE 0
  OBVIOUS
<1>8. PICK d \in 0 .. 1 : d = IF op \in DataOps THEN 1 ELSE 0
  OBVIOUS
<1>9. PICK m \in Nat, n \in Nat : m = Count(ops', ErrorOps) /\ n = Count(ops', DataOps)
  BY <1>3
<1>10. Count(ops, ErrorOps) = e + m /\ Count(ops, DataOps) = d + n
  BY <1>3, <1>7, <1>8, <1>9
<1>11. cmd_errors' <= cmd_errors + e /\ (e = 0 => cmd_errors' = cmd_errors) /\ cmd_errors' \in Nat
  BY <1>4, <1>6, <1>7
<1>12. pc' = "boot" => cmd_errors' = 0 /\ Count(ops', ErrorOps) = 0
  <2>1. pc = "boot" => cmd_errors = 0 /\ e + m = 0
    BY <1>10 DEF CountInv
  <2> QED
    BY <1>2, <1>9, <1>11, <2>1
<1>13. pc' = "serve" => cmd_errors' + Count(ops', ErrorOps) <= FieldBytes
  <2>1. pc = "serve" => cmd_errors + (e + m) <= FieldBytes
    BY <1>10 DEF CountInv
  <2> QED
    BY <1>2, <1>6, <1>9, <1>11, <2>1
<1>14. ASSUME pc = "serve", reply.status = "BUSY_CMD"
       PROVE  /\ Len(reply'.data) + Count(ops', DataOps)
                   = IF asked.cmd \in Reads THEN Len(asked.blocks) ELSE 0
              /\ asked.cmd \notin {"LMS_RST", "ANALOG_VAL_RD", "ANALOG_VAL_WR", "LMS_MCU_FW_WR"}
                   => cmd_errors' = 0 /\ Count(ops', ErrorOps) = 0
  <2>1. Len(reply.data) + (d + n) = IF asked.cmd \in Reads THEN Len(asked.blocks) ELSE 0
    BY <1>10, <1>14 DEF CountInv
  <2>2. asked.cmd \notin {"LMS_RST", "ANALOG_VAL_RD", "ANALOG_VAL_WR", "LMS_MCU_FW_WR"}
          => cmd_errors = 0 /\ e + m = 0
    BY <1>10, <1>14 DEF CountInv
  <2>3. Len(reply'.data) + n = Len(reply.data) + (d + n)
    <3>1. PICK a \in Nat : a = Len(reply.data)
      BY <1>6
    <3>4. PICK b : b = Len(reply'.data)
      OBVIOUS
    <3>2. b = a + d
      BY <1>5, <1>8, <3>1, <3>4
    <3>3. b + n = a + (d + n)
      BY <3>2
    <3> QED
      BY <3>1, <3>3, <3>4
  <2>4. e + m = 0 => e = 0 /\ m = 0
    OBVIOUS
  <2> QED
    BY <1>9, <1>11, <2>1, <2>2, <2>3, <2>4
<1>15. pc' = "boot" => cmd_errors' <= FieldBytes
  BY <1>6, <1>12
<1> QED
  BY <1>2, <1>5, <1>12, <1>13, <1>14, <1>15 DEF CountInv

\* CountInv goes on to hold.
LEMMA CountStep ==
  ASSUME LoopInv, OpsInv, TypeInv, BytesInv, CountInv, [Next]_vars
  PROVE  CountInv'
<1>1. CASE Others \/ Waits \/ Mcu
  <2>1. cmd_errors' = cmd_errors /\ ops' = ops /\ (pc' = "boot" => pc = "boot")
        /\ (pc' = "serve" => pc = "serve" /\ reply' = reply)
    BY <1>1, OthersFrame, McuFrame DEF Waits, cpuVars, cmdVars
  <2>2. pc' = "serve" => asked' = asked
    BY <2>1, HostWaits
  <2>3. cmd_errors <= FieldBytes
    BY ErrorsBound
  <2> QED
    BY <2>1, <2>2, <2>3 DEF CountInv
<1>2. CASE Decode
  <2>1. /\ pc' = "serve" /\ asked' = asked /\ cmd_errors' = 0
        /\ packet' = [tag |-> tag, cmd |-> asked.cmd, blocks |-> asked.blocks]
        /\ reply' = [tag |-> tag, cmd |-> asked.cmd, status |-> reply'.status, data |-> <<>>]
        /\ IF reply'.status = "BUSY_CMD" THEN Fit(packet', ops') ELSE ops' = <<>>
    BY <1>2, DecodeFacts
  <2>2. reply'.data = <<>> /\ Len(<<>>) = 0 /\ packet'.cmd = asked.cmd /\ packet'.blocks = asked.blocks
    BY <2>1
  <2>3. FieldBytes \in Nat
    BY ScaleOK
  <2>4. CASE reply'.status = "BUSY_CMD"
    <3>1. Fit(packet', ops')
      BY <2>1, <2>4
    <3>2. /\ Count(ops', DataOps) = IF asked.cmd \in Reads THEN Len(asked.blocks) ELSE 0
          /\ Count(ops', ErrorOps) <= FieldBytes
          /\ asked.cmd \notin MayErr => Count(ops', ErrorOps) = 0
      BY <2>2, <3>1 DEF Fit
    <3>3. Count(ops', DataOps) \in Nat /\ Count(ops', ErrorOps) \in Nat
      BY <3>1, HitsFinite DEF Fit, Program1
    <3>4. 0 + Count(ops', DataOps) = Count(ops', DataOps) /\ 0 + Count(ops', ErrorOps) = Count(ops', ErrorOps)
      BY <3>3
    <3> QED
      BY <2>1, <2>2, <3>2, <3>4 DEF CountInv, MayErr
  <2>5. CASE reply'.status # "BUSY_CMD"
    <3>1. ops' = <<>> /\ Count(ops', ErrorOps) = 0
      BY <2>1, <2>5, CountEmpty
    <3> QED
      BY <2>1, <2>3, <2>5, <3>1 DEF CountInv
  <2> QED
    BY <2>4, <2>5
<1>3. ASSUME NEW op, Takes(op), Effect(op) PROVE CountInv'
  BY <1>3, CountTakes
<1> QED
  BY <1>1, <1>2, <1>3, Kinds

-----------------------------------------------------------------------------
(***************************************************************************)
(* What the reply is made of, and that it fits the command: RespInv.       *)
(***************************************************************************)
\* RespInv holds at first.
LEMMA RespInit == Init => RespInv
<1> SUFFICES ASSUME Init PROVE RespInv
  OBVIOUS
<1>1. pc = "boot"
  BY DEF Init
<1> QED
  BY <1>1 DEF RespInv, Replied, Answering

\* A command that is not run is answered at once.
LEMMA RefusalFits ==
  ASSUME NEW c, CommandOK(c), NEW last, NEW t, NEW r, r \in Replies,
         r = [tag |-> t, cmd |-> c.cmd, status |-> FirstStatus(c, last), data |-> <<>>],
         r.status # "BUSY_CMD"
  PROVE  Fits(c, r) /\ r.status # "COMPLETED_CMD"
<1>1. PICK s : s = FirstStatus(c, last)
  OBVIOUS
<1>2. r.cmd = c.cmd /\ r.status = s /\ r.data = <<>> /\ r # None /\ Len(<<>>) = 0
  BY <1>1, SessionsOK
<1>3. s \in StatusesOf(c) /\ s # "COMPLETED_CMD"
  <2>1. c.cmd \in DOMAIN BlockBytes => c.cmd \in Known /\ c.cmd # "LMS_MCU_FW_WR"
    BY DEF BlockBytes, Known
  <2>2. CASE c.cmd \notin Known
    <3>1. s = "UNKNOWN_CMD"
      BY <1>1, <2>1, <2>2 DEF FirstStatus, Check_many_blocks, WrongOrder, Known
    <3>2. StatusesOf(c) = {"UNKNOWN_CMD"}
      BY <2>2 DEF StatusesOf
    <3> QED
      BY <3>1, <3>2
  <2>3. CASE c.cmd \in Known /\ Check_many_blocks(c)
    <3>1. s = "BLOCKS_ERROR_CMD"
      BY <1>1, <2>1, <2>3 DEF FirstStatus, Check_many_blocks, WrongOrder
    <3>2. StatusesOf(c) = {"BLOCKS_ERROR_CMD"}
      BY <2>3 DEF StatusesOf
    <3> QED
      BY <3>1, <3>2
  <2>4. CASE c.cmd \in Known /\ ~Check_many_blocks(c)
    <3>1. s = "WRONG_ORDER_CMD" /\ WrongOrder(c, last)
      BY <1>1, <1>2, <2>4 DEF FirstStatus
    <3>2. c.cmd = "LMS_MCU_FW_WR"
      BY <3>1 DEF WrongOrder
    <3>3. StatusesOf(c) = {"COMPLETED_CMD", "ERROR_CMD", "WRONG_ORDER_CMD"}
      BY <2>4, <3>2 DEF StatusesOf
    <3> QED
      BY <3>1, <3>3
  <2> QED
    BY <2>2, <2>3, <2>4
<1> QED
  BY <1>2, <1>3 DEF Fits

\* A command that was run has the values it asks for, and an error only if it may.
LEMMA AnswerFits ==
  ASSUME NEW c, c.cmd \in Known, ~Check_many_blocks(c), NEW errors,
         c.cmd \notin MayErr => errors = 0,
         NEW r \in Replies, r.cmd = c.cmd, r.status = LastStatus(c.cmd, errors),
         Len(r.data) = IF c.cmd \in Reads THEN Len(c.blocks) ELSE 0
  PROVE  Fits(c, r)
<1>1. r # None
  BY SessionsOK
<1>2. CASE errors = 0 \/ c.cmd \in {"LMS_RST", "ANALOG_VAL_RD"}
  <2>1. r.status = "COMPLETED_CMD"
    BY <1>2 DEF LastStatus
  <2>2. "COMPLETED_CMD" \in StatusesOf(c)
    BY DEF StatusesOf
  <2> QED
    BY <1>1, <2>1, <2>2 DEF Fits
<1>3. CASE ~ (errors = 0 \/ c.cmd \in {"LMS_RST", "ANALOG_VAL_RD"})
  <2>1. c.cmd \in {"ANALOG_VAL_WR", "LMS_MCU_FW_WR"}
    BY <1>3 DEF MayErr
  <2>2. r.status = "ERROR_CMD"
    BY <1>3, <2>1 DEF LastStatus
  <2>3. "ERROR_CMD" \in StatusesOf(c)
    <3>1. CASE c.cmd = "ANALOG_VAL_WR"
      BY <3>1 DEF StatusesOf
    <3>2. CASE c.cmd = "LMS_MCU_FW_WR"
      BY <3>2 DEF StatusesOf
    <3> QED
      BY <2>1, <3>1, <3>2
  <2>4. Len(r.data) = 0
    BY <2>1 DEF Reads
  <2> QED
    BY <1>1, <2>2, <2>3, <2>4 DEF Fits
<1> QED
  BY <1>2, <1>3

\* The reply that is sent when the program has run.
LEMMA RespondFits ==
  ASSUME LoopInv, OpsInv, TypeInv, TypeInv', RespInv, CountInv, Respond
  PROVE  Fits(asked, reply')
<1>1. pc = "serve" /\ ops = <<>>
  BY DEF Respond
<1>2. CASE reply.status # "BUSY_CMD"
  <2>1. reply' = reply
    BY <1>2 DEF Respond
  <2> QED
    BY <1>1, <1>2, <2>1 DEF RespInv
<1>3. CASE reply.status = "BUSY_CMD"
  <2>1. reply.cmd = asked.cmd /\ asked.cmd \in Known /\ ~Check_many_blocks(asked)
    BY <1>1, <1>3 DEF RespInv
  <2>2. Count(ops, DataOps) = 0
    BY <1>1, CountEmpty
  <2>3. reply \in Replies /\ reply.data \in Seq(Int)
    BY DEF TypeInv, Replies
  <2>4. /\ Len(reply.data) = IF asked.cmd \in Reads THEN Len(asked.blocks) ELSE 0
        /\ asked.cmd \notin MayErr => cmd_errors = 0
    <3>1. PICK n \in Nat : n = Len(reply.data)
      BY <2>3
    <3>2. n + 0 = (IF asked.cmd \in Reads THEN Len(asked.blocks) ELSE 0)
      BY <1>1, <1>3, <2>2, <3>1 DEF CountInv
    <3>3. asked.cmd \notin MayErr => cmd_errors = 0
      BY <1>1, <1>3 DEF CountInv, MayErr
    <3> QED
      BY <3>1, <3>2, <3>3
  <2>5. PICK s : s = LastStatus(asked.cmd, cmd_errors)
    OBVIOUS
  <2>6. PICK r : r = reply'
    OBVIOUS
  <2>7. r = [reply EXCEPT !.status = s]
    BY <1>3, <2>1, <2>5, <2>6 DEF Respond
  <2>8. r.status = s /\ r.cmd = asked.cmd /\ r.data = reply.data /\ r \in Replies
    BY <2>1, <2>3, <2>6, <2>7 DEF Replies, TypeInv
  <2>9. Fits(asked, r)
    BY <2>1, <2>4, <2>5, <2>8, AnswerFits
  <2> QED
    BY <2>6, <2>9
<1> QED
  BY <1>2, <1>3

\* A reply that was ready stays as it is until it is fetched.
LEMMA RepliedBefore ==
  ASSUME LoopInv, Others, Replied', ~Respond
  PROVE  Replied /\ UNCHANGED <<asked, tag, reply>>
<1>0. /\ asked' # None /\ AllSent' /\ pc' \in {"poll", "led_off", "send"}
      /\ pc' = "send" => Serving'
      /\ pc' # "send" => Answering'
  BY DEF Replied, Answering, Serving
<1>1. CASE HostAsks
  <2>1. sent' = 0
    BY <1>1 DEF HostAsks
  <2> QED
    BY <1>0, <2>1, SessionsOK DEF AllSent
<1>2. CASE FX3Delivers
  <2>1. EP0F' = Append(EP0F, <<tag, sent + 1>>) /\ EP0F \in Seq(WordsOf(tag)) /\ sent + 1 \in Nat
    <3>1. Asking /\ sent \in Nat
      BY <1>2, Phases DEF FX3Delivers
    <3>0. Len(glEp0Buffer_Rx) <= sent /\ Len(glEp0Buffer_Rx) \in Nat
      BY <3>1, Phases DEF Asking
    <3>2. PICK a \in Nat, n \in Nat : a = Len(glEp0Buffer_Rx) /\ n = sent - Len(glEp0Buffer_Rx)
      BY <3>0, <3>1
    <3> QED
      BY <1>2, <3>1, <3>2, RunIs DEF FX3Delivers, Asking
  <2>2. EP0F' # <<>>
    <3>1. PICK w : w = <<tag, sent + 1>>
      OBVIOUS
    <3>2. EP0F' = Append(EP0F, w) /\ EP0F \in Seq(WordsOf(tag) \cup {w})
      BY <2>1, <3>1
    <3>3. Len(EP0F') = Len(EP0F) + 1 /\ Len(EP0F) \in Nat
      BY <3>2
    <3> QED
      BY <3>3
  <2> QED
    BY <1>0, <2>2 DEF AllSent
<1>3. CASE FX3Fetches
  <2>1. /\ UNCHANGED <<pc, tag, reply, EP0F, sent>> /\ asked' = asked
        /\ EP8F # <<>> /\ asked # None
    BY <1>0, <1>3 DEF FX3Fetches, cmdVars
  <2>2. Serving \/ Answering
    BY <2>1 DEF LoopInv, Quiet, Asking, NoAnswer
  <2>3. pc \in {"poll", "led_off", "send"}
    BY <1>0, <2>1
  <2>4. Answering \/ (Serving /\ pc = "send")
    BY <2>2, <2>3 DEF Serving
  <2> QED
    BY <2>1, <2>4 DEF Replied
<1>4. CASE PollStatus \/ SetReset \/ EndReset \/ LedOn \/ ReadWord
  BY <1>0, <1>4 DEF PollStatus, SetReset, EndReset, LedOn, ReadWord, GetFifoData, At
<1>5. CASE BootDone
  <2>1. pc = "boot" /\ UNCHANGED <<EP8F, got>> /\ pc' = "poll"
    BY <1>5 DEF BootDone, hostVars, fifoVars
  <2>2. got = <<>> /\ EP8F = <<>>
    BY <2>1 DEF LoopInv, Quiet, Asking, NoAnswer, Serving, Answering
  <2>3. EP8F' = Run(tag', Len(got'), PacketWords - Len(got'))
    BY <1>0, <2>1 DEF Answering
  <2>4. Len(<<>>) = 0 /\ PacketWords - 0 \in Nat /\ PacketWords - 0 > 0
    BY SessionsOK
  <2>5. Run(tag', 0, PacketWords - 0) # <<>>
    BY <2>4, RunFacts
  <2> QED
    BY <2>1, <2>2, <2>3, <2>4, <2>5
<1>6. CASE WriteWord
  <2>1. pc = "send" /\ Serving
    BY <1>6, Phases DEF WriteWord, At
  <2> QED
    BY <1>6, <2>1 DEF Replied, WriteWord, At, hostVars
<1>7. CASE LedOff
  <2>1. /\ UNCHANGED <<session, asked, tag, sent, got, EP0F, EP8F, reply>>
        /\ pc = "led_off" /\ pc' = "poll"
    BY <1>7 DEF LedOff, At, hostVars, fifoVars
  <2>2. Answering
    BY <1>0, <2>1 DEF Answering, AllSent
  <2> QED
    BY <2>1, <2>2 DEF Replied
<1>8. CASE UNCHANGED vars
  BY <1>8 DEF vars, hostVars, fifoVars, cmdVars, Replied, Answering, Serving, AllSent
<1> QED
  BY <1>1, <1>2, <1>3, <1>4, <1>5, <1>6, <1>7, <1>8 DEF Others

\* RespInv goes on to hold.
LEMMA RespStep ==
  ASSUME LoopInv, LoopInv', OpsInv, TypeInv, TypeInv', BytesInv, RespInv, CountInv, [Next]_vars
  PROVE  RespInv'
<1>1. CASE Others
  <2>1. ASSUME pc' \in {"serve", "send"}
        PROVE  /\ packet' = [tag |-> tag', cmd |-> asked'.cmd, blocks |-> asked'.blocks]
               /\ reply'.tag = tag' /\ reply'.cmd = asked'.cmd
    <3>1. pc \in {"serve", "send"} /\ packet' = packet
      <4>1. CASE HostAsks \/ FX3Delivers \/ FX3Fetches \/ UNCHANGED vars
        BY <2>1, <4>1 DEF HostAsks, FX3Delivers, FX3Fetches, cmdVars, vars
      <4>2. CASE PollStatus \/ SetReset \/ EndReset \/ LedOn \/ ReadWord \/ BootDone \/ LedOff
        BY <2>1, <4>2 DEF PollStatus, SetReset, EndReset, LedOn, ReadWord, GetFifoData, BootDone,
             LedOff, At
      <4>3. CASE Respond \/ WriteWord
        BY <2>1, <4>3 DEF Respond, WriteWord, At
      <4> QED
        BY <1>1, <4>1, <4>2, <4>3 DEF Others
    <3>2. UNCHANGED <<asked, tag>>
      BY <3>1, HostWaits
    <3>3. reply'.tag = reply.tag /\ reply'.cmd = reply.cmd
      <4>1. CASE Respond
        <5>1. PICK s : reply' = reply \/ reply' = [reply EXCEPT !.status = s]
          BY <4>1 DEF Respond
        <5> QED
          BY <5>1 DEF TypeInv, Replies
      <4>2. CASE ~Respond
        BY <1>1, <4>2 DEF Others, HostAsks, FX3Delivers, FX3Fetches, PollStatus, SetReset, EndReset,
             LedOn, ReadWord, GetFifoData, BootDone, WriteWord, LedOff, cmdVars, vars
      <4> QED
        BY <4>1, <4>2
    <3> QED
      BY <3>1, <3>2, <3>3 DEF RespInv
  <2>2. ASSUME pc' = "serve"
        PROVE  IF reply'.status = "BUSY_CMD" THEN asked'.cmd \in Known /\ ~Check_many_blocks(asked')
               ELSE ops' = <<>> /\ Fits(asked', reply') /\ reply'.status # "COMPLETED_CMD"
    <3>1. pc = "serve" /\ reply' = reply /\ ops' = ops
      BY <1>1, <2>2, OthersFrame
    <3>2. asked' = asked
      BY <3>1, HostWaits
    <3> QED
      BY <3>1, <3>2 DEF RespInv
  <2>3. ASSUME Replied' PROVE Fits(asked', reply')
    <3>1. CASE Respond
      <4>1. asked' = asked
        BY <3>1 DEF Respond, hostVars
      <4> QED
        BY <3>1, <4>1, RespondFits
    <3>2. CASE ~Respond
      <4>1. Replied /\ UNCHANGED <<asked, reply>>
        BY <1>1, <2>3, <3>2, RepliedBefore
      <4> QED
        BY <4>1 DEF RespInv
    <3> QED
      BY <3>1, <3>2
  <2> QED
    BY <2>1, <2>2, <2>3 DEF RespInv, Check_many_blocks
<1>2. CASE Decode
  <2>1. /\ pc' = "serve" /\ asked' = asked /\ tag' = tag /\ CommandOK(packet')
        /\ packet' = [tag |-> tag, cmd |-> asked.cmd, blocks |-> asked.blocks]
        /\ reply' = [tag |-> tag, cmd |-> asked.cmd, status |-> reply'.status, data |-> <<>>]
        /\ reply'.status = FirstStatus(packet', last_portion)
        /\ IF reply'.status = "BUSY_CMD" THEN asked.cmd \in Known /\ ~Check_many_blocks(asked)
           ELSE ops' = <<>>
    BY <1>2, DecodeFacts
  <2>2. reply'.tag = tag /\ reply'.cmd = asked.cmd
    BY <2>1
  <2>3. ASSUME reply'.status # "BUSY_CMD"
        PROVE  Fits(asked, reply') /\ reply'.status # "COMPLETED_CMD"
    <3>1. PICK p, r : p = packet' /\ r = reply'
      OBVIOUS
    <3>2. p.cmd = asked.cmd /\ p.blocks = asked.blocks /\ CommandOK(p)
      BY <2>1, <3>1
    <3>3. r = [tag |-> tag, cmd |-> p.cmd, status |-> FirstStatus(p, last_portion), data |-> <<>>]
          /\ r.status # "BUSY_CMD" /\ r \in Replies
      BY <2>1, <2>3, <3>1, <3>2 DEF TypeInv
    <3>4. Fits(p, r) /\ r.status # "COMPLETED_CMD"
      BY <3>2, <3>3, RefusalFits
    <3>5. Fits(asked, r)
      BY <3>2, <3>4 DEF Fits, StatusesOf, Check_many_blocks
    <3> QED
      BY <3>1, <3>4, <3>5
  <2>4. ~Replied'
    BY <2>1 DEF Replied, Answering
  <2> QED
    BY <2>1, <2>2, <2>3, <2>4 DEF RespInv, Check_many_blocks
<1>3. CASE Waits
  <2>1. pc \in {"boot", "serve"} /\ UNCHANGED <<pc, ops, asked, tag, packet, reply>>
    BY <1>3 DEF Waits
  <2>2. ~Replied'
    BY <2>1 DEF Replied, Answering
  <2> QED
    BY <2>1, <2>2 DEF RespInv, Check_many_blocks
<1>4. CASE Mcu
  BY <1>4, McuFrame DEF RespInv, Replied, Answering, Serving, AllSent, hostVars, fifoVars, cmdVars,
     Check_many_blocks
<1>5. ASSUME NEW op, Takes(op), Effect(op) PROVE RespInv'
  <2>1. pc \in {"boot", "serve"} /\ UNCHANGED <<pc, asked, tag, packet>> /\ ops # <<>>
    BY <1>5 DEF Takes
  <2>2. reply'.tag = reply.tag /\ reply'.cmd = reply.cmd /\ reply'.status = reply.status
    BY <1>5, ReplyEffects
  <2>3. ~Replied'
    BY <2>1 DEF Replied, Answering
  <2>4. pc = "serve" => reply.status = "BUSY_CMD"
    BY <2>1 DEF RespInv
  <2> QED
    BY <2>1, <2>2, <2>3, <2>4 DEF RespInv, Check_many_blocks
<1> QED
  BY <1>1, <1>2, <1>3, <1>4, <1>5, Kinds

-----------------------------------------------------------------------------
(***************************************************************************)
(* Commands that read: ReadsInv, and the temperature.                      *)
(***************************************************************************)
\* The program of a command that reads has only harmless steps.
LEMMA ReadsInit == Init => ReadsInv
BY DEF Init, ReadsInv

\* ReadsInv goes on to hold.
LEMMA ReadsStep ==
  ASSUME LoopInv, OpsInv, ReadsInv, [Next]_vars
  PROVE  ReadsInv'
<1>1. CASE Others
  <2>1. ops' = ops /\ (pc' = "serve" => pc = "serve" /\ packet' = packet)
    BY <1>1, OthersFrame
  <2> QED
    BY <2>1 DEF ReadsInv
<1>2. CASE Decode
  <2>1. ops' = <<>> \/ Fit(packet', ops')
    BY <1>2, DecodeFacts
  <2>2. \A i \in DOMAIN <<>> : Harmless(<<>>[i])
    OBVIOUS
  <2> QED
    BY <2>1, <2>2 DEF ReadsInv, Fit
<1>3. CASE Waits \/ Mcu
  BY <1>3, McuFrame DEF Waits, ReadsInv, cmdVars
<1>4. ASSUME NEW op, Takes(op) PROVE ReadsInv'
  <2>1. pc' = pc /\ packet' = packet
    BY <1>4 DEF Takes
  <2>2. \A i \in DOMAIN ops' : ops'[i] = ops[i + 1] /\ i + 1 \in DOMAIN ops
    BY <1>4, TakesFacts
  <2> QED
    BY <2>1, <2>2 DEF ReadsInv
<1> QED
  BY <1>1, <1>2, <1>3, <1>4, Kinds

\* A number that fits in 16 bits is what they say.
LEMMA Int16Same ==
  ASSUME NEW x \in Int, 0 <= x + 32768, x + 32768 <= 65535
  PROVE  Int16(x) = x
<1>1. (x + 32768) % 65536 = x + 32768
  OBVIOUS
<1> QED
  BY <1>1 DEF Int16

\* The bytes of a reply say the number that was put in them.
LEMMA BytesSay ==
  ASSUME NEW x \in Int, 0 <= x + 1280, x <= 1275
  PROVE  Said16(Bytes16(x)) = x
<1>1. PICK h \in Int, k \in Int : h = x \div 256 /\ k = x % 256
  OBVIOUS
<1>2. 0 <= k /\ k <= 255 /\ x = 256 * h + k
  BY <1>1
<1>3. 0 <= h + 5 /\ h <= 4
  BY <1>2
<1>4. h % 256 = IF h >= 0 THEN h ELSE h + 256
  BY <1>3
<1>5. Bytes16(x) = <<h % 256, k>>
  BY <1>1 DEF Bytes16
<1>6. Said16(<<h % 256, k>>) = Int16(256 * (h % 256) + k)
  BY DEF Said16
<1>7. CASE h >= 0
  <2>1. 256 * (h % 256) + k = x
    BY <1>2, <1>4, <1>7
  <2>2. Int16(x) = x
    <3>1. 0 <= x + 32768 /\ x + 32768 <= 65535
      OBVIOUS
    <3> QED
      BY <3>1, Int16Same
  <2> QED
    BY <1>5, <1>6, <2>1, <2>2
<1>8. CASE ~ (h >= 0)
  <2>1. 256 * (h % 256) + k = x + 65536 /\ x < 0
    BY <1>2, <1>4, <1>8
  <2>2. (x + 65536 + 32768) % 65536 = x + 32768
    BY <2>1
  <2>3. Int16(x + 65536) = x
    BY <2>2 DEF Int16
  <2> QED
    BY <1>5, <1>6, <2>1, <2>3
<1> QED
  BY <1>7, <1>8

\* What the firmware makes of the two bytes of the LM75: tenths of a degree.
LEMMA SensorBytes ==
  ASSUME NEW q \in Int, 0 <= q + 128, q <= 127, NEW l \in {0, 1}
  PROVE  Converted(q % 256, 128 * l) = 10 * q + 5 * l
<1>1. q % 256 = IF q >= 0 THEN q ELSE q + 256
  OBVIOUS
<1>2. Int16((q % 256) * 256) = q * 256
  <2>1. CASE q >= 0
    <3>1. 0 <= q * 256 + 32768 /\ q * 256 + 32768 <= 65535 /\ q * 256 \in Int
      BY <2>1
    <3>2. (q % 256) * 256 = q * 256
      BY <1>1, <2>1
    <3> QED
      BY <3>1, <3>2, Int16Same
  <2>2. CASE ~ (q >= 0)
    <3>1. (q % 256) * 256 = (q + 256) * 256
      BY <1>1, <2>2
    <3>2. ((q + 256) * 256 + 32768) % 65536 = q * 256 + 32768
      BY <2>2
    <3> QED
      BY <3>1, <3>2 DEF Int16
  <2> QED
    BY <2>1, <2>2
<1>3. (q * 256) \div 256 = q
  OBVIOUS
<1>4. (IF 128 * l >= 128 THEN 5 ELSE 0) = 5 * l
  <2>1. l = 0 \/ l = 1
    OBVIOUS
  <2> QED
    BY <2>1
<1>5. Converted(q % 256, 128 * l) = Int16(10 * q + 5 * l)
  BY <1>2, <1>3, <1>4 DEF Converted
<1>6. PICK x \in Int : x = 10 * q + 5 * l
  OBVIOUS
<1>7. 0 <= x + 32768 /\ x + 32768 <= 65535
  BY <1>6
<1> QED
  BY <1>5, <1>6, <1>7, Int16Same

\* What the host makes of the two bytes of the LM75 is the temperature, in tenths of
\* a degree, also below zero.
LEMMA TemperatureBytes ==
  ASSUME NEW t \in -256 .. 255
  PROVE  Said16(Bytes16(Converted((t \div 2) % 256, 128 * (t % 2)))) = 5 * t
<1>1. t \in Int /\ 0 <= t + 256 /\ t <= 255
  OBVIOUS
<1>2. PICK q \in Int, l \in Int : q = t \div 2 /\ l = t % 2
  BY <1>1
<1>3. l \in {0, 1} /\ t = 2 * q + l
  BY <1>1, <1>2
<1>4. 0 <= q + 128 /\ q <= 127
  BY <1>1, <1>3
<1>5. Converted(q % 256, 128 * l) = 10 * q + 5 * l
  BY <1>3, <1>4, SensorBytes
<1>6. PICK x \in Int : x = 10 * q + 5 * l
  OBVIOUS
<1>7. x = 5 * t /\ 0 <= x + 1280 /\ x <= 1275
  BY <1>1, <1>3, <1>6
<1>8. Said16(Bytes16(x)) = x
  BY <1>7, BytesSay
<1> QED
  BY <1>2, <1>5, <1>6, <1>7, <1>8

\* The value reported is the one measured.
LEMMA TemperatureStep ==
  ASSUME OpsInv, TypeInv, BytesInv, [Next]_vars, ReportsTemperature, reply' # reply
  PROVE  Last(reply'.data) = 5 * temperature
<1>1. PICK op : op = Head(ops)
  OBVIOUS
<1>2. /\ pc = "serve" /\ ops # <<>> /\ op = Report("temperature") /\ "lm75" \in fitted
  BY <1>1 DEF ReportsTemperature
<1>3. op.dev = "cpu" /\ op.act = "report" /\ op.reg = "temperature"
  BY <1>2 DEF Report, Op
<1>4. CpuStep
  <2>1. ~Others
    <3>1. CASE HostAsks \/ FX3Delivers \/ FX3Fetches \/ UNCHANGED vars
      BY <1>2, <3>1 DEF HostAsks, FX3Delivers, FX3Fetches, cmdVars, vars, ReportsTemperature
    <3>2. ~ (PollStatus \/ SetReset \/ EndReset \/ LedOn \/ ReadWord \/ BootDone \/ WriteWord \/ LedOff)
      BY <1>2 DEF PollStatus, SetReset, EndReset, LedOn, ReadWord, GetFifoData, BootDone, WriteWord,
         LedOff, At
    <3>3. ~Respond
      BY <1>2 DEF Respond
    <3> QED
      BY <3>1, <3>2, <3>3 DEF Others
  <2>2. ~Decode
    BY <1>2 DEF Decode
  <2>3. ~DeviceStep
    BY <1>1, <1>3 DEF DeviceStep
  <2>4. ~AwaitMcu
    BY <1>1, <1>3 DEF AwaitMcu, PollMcu
  <2>5. ~Mcu
    BY McuFrame DEF cmdVars
  <2> QED
    BY <2>1, <2>2, <2>3, <2>4, <2>5, StepKinds
<1>5. reply' = [reply EXCEPT !.data = Append(@, ReportOf("temperature"))]
  BY <1>1, <1>3, <1>4 DEF CpuStep
<1>6. PICK x : x = ReportOf("temperature")
  OBVIOUS
<1>7. x \in Int
  BY <1>1, <1>2, <1>3, <1>6, ReportIsInt
<1>8. x = 5 * temperature
  <2>1. bytes = <<Answered("lm75", 1), Answered("lm75", 2)>>
    <3>1. UsesBytes(op) /\ DeviceRead(op) = "lm75"
      BY <1>3 DEF UsesBytes, IsTemperature, DeviceRead, IsStored
    <3> QED
      BY <1>1, <1>2, <3>1, BytesRead
  <2>2. Answered("lm75", 1) = (temperature \div 2) % 256 /\ Answered("lm75", 2) = 128 * (temperature % 2)
    BY <1>2 DEF Answered, Memory
  <2>3. x = Said16(Bytes16(Converted(bytes[1], bytes[2])))
    BY <1>6 DEF ReportOf
  <2>4. temperature \in -256 .. 255
    BY DEF TypeInv
  <2>5. bytes[1] = (temperature \div 2) % 256 /\ bytes[2] = 128 * (temperature % 2)
    BY <2>1, <2>2
  <2> QED
    BY <2>3, <2>4, <2>5, TemperatureBytes
<1>9. reply'.data = Append(reply.data, x) /\ reply.data \in Seq(Int)
  BY <1>5, <1>6 DEF TypeInv, Replies
<1>10. Last(reply'.data) = x
  <2>1. PICK s : s = Append(reply.data, x)
    OBVIOUS
  <2>2. s \in Seq(Int) /\ Len(s) = Len(reply.data) + 1 /\ s[Len(reply.data) + 1] = x
    BY <1>7, <1>9, <2>1
  <2> QED
    BY <1>9, <2>1, <2>2 DEF Last
<1> QED
  BY <1>8, <1>10

\* While a command that reads is served, its program changes no register and no output.
LEMMA ReadsStill ==
  ASSUME OpsInv, ReadsInv, [Next]_vars, pc = "serve", packet.cmd \in Reads
  PROVE  UNCHANGED <<dac, adf, lms_reset_n, regs, dac_val, last_portion>>
<1>1. CASE Others
  BY <1>1, OthersFrame DEF boardVars, cpuVars
<1>2. CASE Decode
  BY <1>2 DEF Decode
<1>3. CASE Waits
  BY <1>3 DEF Waits, boardVars
<1>4. CASE Mcu
  BY <1>4, McuFrame DEF cpuVars
<1>5. ASSUME NEW op, Takes(op), Effect(op)
      PROVE  UNCHANGED <<dac, adf, lms_reset_n, regs, dac_val, last_portion>>
  <2>1. Harmless(op)
    <3>1. op = ops[1] /\ 1 \in DOMAIN ops
      <4>1. op = ops[1] /\ DOMAIN ops = 1 .. Len(ops) /\ Len(ops) > 0 /\ Len(ops) \in Nat
        BY <1>5, TakesFacts
      <4> QED
        BY <4>1
    <3> QED
      BY <3>1 DEF ReadsInv
  <2>2. CASE Dev(op) /\ op.dev \in {"lms", "brd"} /\ op.act = "read"
    BY <2>2 DEF Dev, boardVars, cpuVars
  <2>3. CASE Dev(op) /\ op.dev = "i2c" /\ op.act \in {"start", "write", "read"}
    BY <2>3 DEF Dev, cpuVars, I2cStartTakes, I2cWriteTakes, I2cReadTakes
  <2>4. CASE Cpu(op) /\ op.act \in {"report", "cmd_errors"}
    BY <2>4 DEF Cpu, boardVars
  <2> QED
    BY <1>5, <2>1, <2>2, <2>3, <2>4 DEF Effect, Harmless, Dev, Cpu, WaitEnds
<1> QED
  BY <1>1, <1>2, <1>3, <1>4, <1>5, Kinds

-----------------------------------------------------------------------------
(***************************************************************************)
(* The MCU's program: McuInv.                                              *)
(***************************************************************************)
\* What is left of a program of which k steps have been taken.
LEMMA FromFacts ==
  ASSUME NEW X, NEW p \in Seq(X), NEW k \in 0 .. Len(p)
  PROVE  /\ From(p, k) \in Seq(X) /\ Len(From(p, k)) = Len(p) - k
         /\ From(p, 0) = p
         /\ From(p, k) = <<>> <=> k = Len(p)
         /\ k < Len(p) => Head(From(p, k)) = p[k + 1] /\ Tail(From(p, k)) = From(p, k + 1)
<1>1. PICK n \in Nat : n = Len(p)
  OBVIOUS
<1> DEFINE f == From(p, k)
<1>2. /\ f \in Seq(X) /\ Len(f) = n - k /\ DOMAIN f = 1 .. n - k
      /\ \A i \in 1 .. n - k : f[i] = p[k + i]
  <2>1. n - k \in Nat /\ \A i \in 1 .. n - k : k + i \in 1 .. n
    BY <1>1
  <2>2. \A i \in 1 .. n : p[i] \in X
    BY <1>1
  <2>3. \A i \in 1 .. n - k : p[k + i] \in X
    BY <2>1, <2>2
  <2> QED
    BY <1>1, <2>1, <2>3 DEF From
<1>3. From(p, 0) = p
  <2>1. n - 0 = n /\ \A i \in 1 .. n : 0 + i = i
    BY <1>1
  <2>2. p = [i \in 1 .. n |-> p[i]]
    BY <1>1
  <2> QED
    BY <1>1, <2>1, <2>2 DEF From
<1> HIDE DEF f
<1>4. f = <<>> <=> k = n
  BY <1>1, <1>2
<1>5. ASSUME k < n PROVE Head(f) = p[k + 1] /\ Tail(f) = From(p, k + 1)
  <2>1. f # <<>> /\ 1 \in 1 .. n - k
    BY <1>1, <1>4, <1>5
  <2>2. Head(f) = p[k + 1]
    BY <1>2, <2>1
  <2> DEFINE t == Tail(f)
             u == From(p, k + 1)
  <2>3. /\ t \in Seq(X) /\ Len(t) = (n - k) - 1
        /\ \A i \in 1 .. (n - k) - 1 : t[i] = f[i + 1]
    BY <1>2, <2>1
  <2>4. u = [i \in 1 .. n - (k + 1) |-> p[(k + 1) + i]]
    BY <1>1 DEF From
  <2>5. n - (k + 1) = (n - k) - 1 /\ n - (k + 1) \in Nat
    BY <1>1, <1>5
  <2> HIDE DEF t, u
  <2>6. ASSUME NEW i \in 1 .. n - (k + 1) PROVE t[i] = p[(k + 1) + i]
    <3>1. i + 1 \in 1 .. n - k /\ k + (i + 1) = (k + 1) + i /\ i \in 1 .. (n - k) - 1
      BY <1>1, <1>5
    <3> QED
      BY <1>2, <2>3, <3>1
  <2>7. t = [i \in 1 .. n - (k + 1) |-> t[i]]
    BY <2>3, <2>5
  <2>8. t = u
    BY <2>4, <2>6, <2>7
  <2> QED
    BY <2>2, <2>8 DEF t, u
<1> QED
  BY <1>1, <1>2, <1>3, <1>4, <1>5 DEF f

\* A sequence with one element put before it.
LEMMA ConsFacts ==
  ASSUME NEW X, NEW a \in X, NEW s \in Seq(X)
  PROVE  /\ <<a>> \o s \in Seq(X) /\ <<a>> \o s # <<>>
         /\ Head(<<a>> \o s) = a /\ Tail(<<a>> \o s) = s
OBVIOUS

\* Two elements put before it are put there one by one.
LEMMA TwoBefore ==
  ASSUME NEW X, NEW a \in X, NEW b \in X, NEW s \in Seq(X)
  PROVE  <<a, b>> \o s = <<a>> \o (<<b>> \o s)
<1>1. PICK n \in Nat : n = Len(s)
  OBVIOUS
<1> DEFINE t == <<b>> \o s
           u == <<a>> \o t
           v == <<a, b>> \o s
<1>2. t \in Seq(X) /\ Len(t) = n + 1 /\ t[1] = b /\ \A i \in 1 .. n : t[i + 1] = s[i]
  BY <1>1
<1> HIDE DEF t
<1>3. u \in Seq(X) /\ Len(u) = n + 2 /\ u[1] = a /\ \A i \in 1 .. n + 1 : u[i + 1] = t[i]
  BY <1>1, <1>2
<1>4. v \in Seq(X) /\ Len(v) = n + 2 /\ v[1] = a /\ v[2] = b /\ \A i \in 1 .. n : v[i + 2] = s[i]
  BY <1>1
<1> HIDE DEF u, v
<1>5. ASSUME NEW i \in 1 .. n + 2 PROVE u[i] = v[i]
  <2>1. CASE i <= 2
    <3>1. u[2] = t[1]
      <4>1. 1 \in 1 .. n + 1 /\ 1 + 1 = 2
        BY <1>1
      <4> QED
        BY <1>3, <4>1
    <3> QED
      BY <1>1, <1>2, <1>3, <1>4, <2>1, <3>1
  <2>2. CASE ~(i <= 2)
    <3>1. i - 1 \in 1 .. n + 1 /\ (i - 1) + 1 = i /\ i - 2 \in 1 .. n /\ (i - 2) + 1 = i - 1 /\ (i - 2) + 2 = i
      BY <1>1, <2>2
    <3>2. u[i] = t[i - 1] /\ t[i - 1] = s[i - 2] /\ v[i] = s[i - 2]
      BY <1>2, <1>3, <1>4, <3>1
    <3> QED
      BY <3>2
  <2> QED
    BY <2>1, <2>2
<1>6. u = v
  BY <1>1, <1>3, <1>4, <1>5
<1> QED
  BY <1>6 DEF t, u, v

\* McuInv holds at first.
LEMMA McuInit == Init => McuInv
<1> SUFFICES ASSUME Init PROVE McuInv
  OBVIOUS
<1>1. mcu = McuAtReset /\ lms_reset_n = TRUE /\ ops = Boot /\ pc = "boot"
  BY DEF Init, InitBoard
<1>2. ~Loads /\ McuBase
  <2>1. ~Loads
    BY <1>1 DEF Loads, McuAtReset
  <2>2. mcu.taken = <<>> /\ mcu.fifo = 0 /\ ~mcu.overwritten /\ Len(mcu.taken) = 0
    BY <1>1 DEF McuAtReset
  <2>3. ProgramWholeInMcu
    BY <2>2 DEF ProgramWholeInMcu
  <2> QED
    BY <2>1, <2>2, <2>3 DEF McuBase
<1>3. ~LoadsPortion /\ ProgrammedOrError
  BY <1>1 DEF LoadsPortion, ProgrammedOrError
<1>4. \A i \in DOMAIN ops : ~ForMcu(ops[i])
  BY <1>1, BootProgram DEF BootSteps
<1>5. Taken(last_portion + 1)
  BY <1>2 DEF Taken
<1> QED
  BY <1>2, <1>3, <1>4, <1>5 DEF McuInv, LoadInv

\* While a portion is loaded its number is one a portion may have.
LEMMA PortionNumber ==
  ASSUME LoopInv, RespInv, LoadsPortion
  PROVE  PortionNo \in 0 .. LastPortion
<1>1. packet.cmd = asked.cmd /\ packet.blocks = asked.blocks /\ asked # None
  BY Phases DEF LoadsPortion, RespInv, Serving
<1>2. CommandOK(asked) /\ asked.cmd = "LMS_MCU_FW_WR"
  <2>1. asked \in session.commands /\ session \in Sessions
    BY <1>1 DEF LoopInv, LoopBase
  <2> QED
    BY <1>1, <2>1, SessionsOK DEF LoadsPortion
<1>4. asked.cmd \in {"LMS_RST", "LMS_MCU_FW_WR", "GPIO_DIR_WR", "GPIO_DIR_RD", "GPIO_WR", "GPIO_RD"}
        => Len(asked.blocks) = 1
  BY <1>2 DEF CommandOK
<1>3. Len(asked.blocks) = 1 /\ 1 \in 1 .. Len(asked.blocks)
  BY <1>2, <1>4
<1> QED
  BY <1>1, <1>2, <1>3, BlocksOK DEF PortionNo

\* The program of a portion is longer than the steps that load it.
LEMMA PortionLength ==
  ASSUME NEW n \in 0 .. LastPortion
  PROVE  /\ PortionBytes \in Nat /\ PortionBytes >= 1 /\ LastPortion \in Nat /\ LastPortion >= 1
         /\ PortionSteps(n) \in Nat /\ PortionSteps(n) >= PortionBytes + 3
         /\ n = LastPortion => PortionSteps(n) = PortionBytes + 4
         /\ n # LastPortion => PortionSteps(n) = PortionBytes + 3
         /\ PortionOps(n) \in Seq(OpSet) /\ Len(PortionOps(n)) = PortionSteps(n)
<1>1. PortionOps(n) \in Seq(McuSteps) /\ Len(PortionOps(n)) = PortionSteps(n)
  BY PortionProgram
<1>2. PortionOps(n) \in Seq(OpSet)
  BY <1>1 DEF McuSteps
<1> QED
  BY <1>1, <1>2, ScaleOK DEF PortionSteps

\* It holds on while nothing changes that it is about.
LEMMA McuStill ==
  ASSUME McuBase, LoadInv,
         UNCHANGED <<mcu, lms_reset_n, ops, packet, pc, reply, cmd_errors, last_portion>>
  PROVE  McuBase' /\ LoadInv'
<1>1. McuBase' /\ (Loads' <=> Loads)
  BY DEF McuBase, Loads, ProgramWholeInMcu
<1>2. \A n, k : PortionAt(n, k) => PortionAt(n, k)'
  BY DEF PortionAt, Taken, Loads
<1>3. \A n : PortionInv(n) => PortionInv(n)'
  BY <1>2 DEF PortionInv
<1>4. \A n : ModeInv(n) => ModeInv(n)'
  BY DEF ModeInv, Loads
<1>5. PortionNo' = PortionNo /\ (LoadsPortion' <=> LoadsPortion)
  BY DEF PortionNo, LoadsPortion
<1>6. CASE LoadsPortion
  <2>1. PICK n : n = PortionNo
    OBVIOUS
  <2>2. PortionInv(n)' \/ ModeInv(n)'
    BY <1>3, <1>4, <1>6, <2>1 DEF LoadInv
  <2>3. n = PortionNo'
    BY <1>5, <2>1
  <2> QED
    BY <1>1, <1>5, <1>6, <2>2, <2>3 DEF LoadInv
<1>7. CASE ~LoadsPortion
  <2>1. Taken(last_portion + 1)' /\ \A i \in DOMAIN ops' : ~ForMcu(ops'[i])
    BY <1>7 DEF LoadInv, Taken, Loads
  <2> QED
    BY <1>1, <1>5, <1>7, <2>1 DEF LoadInv
<1> QED
  BY <1>6, <1>7

\* The steps that leave a program alone.
LEMMA McuOthers ==
  ASSUME LoopInv, OpsInv, TypeInv, RespInv, McuInv, Others
  PROVE  McuInv'
<1>1. McuBase /\ LoadInv /\ ProgrammedOrError
  BY DEF McuInv
<1>2. UNCHANGED <<mcu, lms_reset_n, ops, cmd_errors, last_portion>>
  BY OthersFrame DEF boardVars, cpuVars
<1>3. /\ pc' = "serve" => pc = "serve" /\ UNCHANGED <<packet, reply>>
      /\ pc' # pc => pc \notin {"boot", "serve"} \/ ops = <<>>
  BY OthersFrame
<1>4. McuBase'
  BY <1>1, <1>2 DEF McuBase, Loads, ProgramWholeInMcu
\* What is known when the program of a portion is at its end.
<1>5. ASSUME LoadsPortion, ops = <<>>
      PROVE  /\ Taken(last_portion + 1)
             /\ PortionNo = LastPortion => mcu.programmed \/ cmd_errors > 0
  <2>1. PICK n \in 0 .. LastPortion : n = PortionNo
    BY <1>5, PortionNumber
  <2>2. CASE PortionInv(n)
    <3>1. PICK k \in 0 .. PortionSteps(n) : ops = From(PortionOps(n), k) /\ PortionAt(n, k)
      BY <2>2 DEF PortionInv
    <3>2. k = PortionSteps(n)
      <4>1. PortionOps(n) \in Seq(OpSet) /\ Len(PortionOps(n)) = PortionSteps(n)
        BY PortionLength
      <4>2. From(PortionOps(n), k) = <<>>
        BY <1>5, <3>1
      <4> QED
        BY <4>1, <4>2, FromFacts
    <3>3. k >= PortionBytes + 2 /\ (n = LastPortion => k >= PortionBytes + 3)
      BY <3>2, PortionLength
    <3>4. Taken(n + 1) /\ last_portion = n /\ (n = LastPortion => mcu.programmed \/ cmd_errors > 0)
      BY <3>1, <3>2, <3>3 DEF PortionAt
    <3> QED
      BY <2>1, <3>4
  <2>3. CASE ModeInv(n)
    <3>1. n = 0 /\ LastPortion >= 1 /\ LastPortion \in Nat
      BY <2>3, PortionLength DEF ModeInv
    <3>2. PortionOps(0) \in Seq(OpSet)
      BY <3>1, PortionLength
    <3>3. \A m \in 0 .. 3 : McuControl(m) \in OpSet
      BY <3>1, McuStepsOf DEF McuSteps
    <3>4. /\ \A m \in 0 .. 3 : <<McuControl(m)>> \o PortionOps(0) \in Seq(OpSet)
          /\ \A m \in 0 .. 3 : <<McuControl(m)>> \o PortionOps(0) # <<>>
      BY <3>2, <3>3, ConsFacts
    <3>5. 0 \in 0 .. 3 /\ 1 \in 0 .. 3 /\ 2 \in 0 .. 3 /\ 3 \in 0 .. 3
      OBVIOUS
    <3>6. \A m \in {1, 2} : <<McuControl(0)>> \o (<<McuControl(m)>> \o PortionOps(0)) # <<>>
      BY <3>3, <3>4, <3>5, ConsFacts
    <3>7. \A x, y, z : <<x>> # <<>> /\ <<x, y>> # <<>> /\ <<x, y, z>> # <<>>
      OBVIOUS
    <3>8. ~Loads
      BY <1>5, <2>3, <3>4, <3>5, <3>6, <3>7 DEF ModeInv
    <3> QED
      BY <2>1, <3>1, <3>8 DEF Taken
  <2> QED
    BY <1>1, <1>5, <2>1, <2>2, <2>3 DEF LoadInv
<1>6. LoadInv'
  <2>1. CASE pc' = "serve"
    <3>1. UNCHANGED <<packet, pc, reply>>
      BY <1>3, <2>1
    <3> QED
      BY <1>1, <1>2, <3>1, McuStill
  <2>2. CASE pc' # "serve"
    <3>1. ~LoadsPortion'
      BY <2>2 DEF LoadsPortion
    <3>2. CASE LoadsPortion
      <4>1. ops = <<>> /\ ops' = <<>>
        BY <1>2, <1>3, <2>2, <3>2 DEF LoadsPortion
      <4>2. Taken(last_portion + 1)
        BY <1>5, <3>2, <4>1
      <4>3. Taken(last_portion + 1)'
        BY <1>2, <4>2 DEF Taken, Loads
      <4>4. \A i \in DOMAIN <<>> : ~ForMcu(<<>>[i])
        OBVIOUS
      <4>5. \A i \in DOMAIN ops' : ~ForMcu(ops'[i])
        BY <4>1, <4>4
      <4> QED
        BY <3>1, <4>3, <4>5 DEF LoadInv
    <3>3. CASE ~LoadsPortion
      <4>1. Taken(last_portion + 1)' /\ \A i \in DOMAIN ops' : ~ForMcu(ops'[i])
        BY <1>1, <1>2, <3>3 DEF LoadInv, Taken, Loads
      <4> QED
        BY <3>1, <4>1 DEF LoadInv
    <3> QED
      BY <3>2, <3>3
  <2> QED
    BY <2>1, <2>2
<1>7. ProgrammedOrError'
  <2>1. CASE pc' = "send" /\ ~Respond
    <3>1. pc = "send" /\ UNCHANGED <<packet, reply>>
      BY <2>1 DEF Others, HostAsks, FX3Delivers, FX3Fetches, PollStatus, SetReset, EndReset, LedOn,
         ReadWord, GetFifoData, At, BootDone, WriteWord, LedOff, cmdVars, vars
    <3> QED
      BY <1>1, <1>2, <3>1 DEF ProgrammedOrError
  <2>2. CASE Respond
    <3>1. pc = "serve" /\ ops = <<>> /\ packet' = packet
          /\ reply' = IF reply.status = "BUSY_CMD"
                      THEN [reply EXCEPT !.status = LastStatus(reply.cmd, cmd_errors)] ELSE reply
      BY <2>2 DEF Respond
    <3>2. CASE reply.status # "BUSY_CMD"
      <4>1. reply'.status # "COMPLETED_CMD"
        BY <3>1, <3>2 DEF RespInv
      <4> QED
        BY <4>1 DEF ProgrammedOrError
    <3>3. CASE reply.status = "BUSY_CMD"
      <4>1. reply.cmd = asked.cmd /\ packet.cmd = asked.cmd
        BY <3>1 DEF RespInv
      <4>2. reply'.status = LastStatus(reply.cmd, cmd_errors)
        <5>1. reply = [tag |-> reply.tag, cmd |-> reply.cmd, status |-> reply.status, data |-> reply.data]
          BY DEF TypeInv, Replies
        <5>2. PICK r : r = LastStatus(reply.cmd, cmd_errors)
          OBVIOUS
        <5>3. reply' = [reply EXCEPT !.status = r]
          BY <3>1, <3>3, <5>2
        <5> QED
          BY <5>1, <5>2, <5>3
      <4>3. ASSUME packet.cmd = "LMS_MCU_FW_WR", PortionNo = LastPortion, ~mcu.programmed
            PROVE  reply'.status # "COMPLETED_CMD"
        <5>1. cmd_errors > 0 /\ cmd_errors \in Nat
          BY <1>5, <3>1, <3>3, <4>3 DEF LoadsPortion, TypeInv
        <5>2. LastStatus("LMS_MCU_FW_WR", cmd_errors) = "ERROR_CMD"
          BY <5>1 DEF LastStatus
        <5> QED
          BY <4>1, <4>2, <4>3, <5>2
      <4> QED
        BY <1>2, <3>1, <4>3 DEF ProgrammedOrError, PortionNo
    <3> QED
      BY <3>2, <3>3
  <2>3. CASE pc' # "send"
    BY <2>3 DEF ProgrammedOrError
  <2> QED
    BY <2>1, <2>2, <2>3
<1> QED
  BY <1>4, <1>6, <1>7 DEF McuInv

\* A program is begun.
LEMMA McuDecode ==
  ASSUME LoopInv, TypeInv, McuInv, Decode
  PROVE  McuInv'
<1>1. McuBase /\ LoadInv
  BY DEF McuInv
<1>2. /\ pc = "decode" /\ pc' = "serve"
      /\ packet' = [tag |-> tag, cmd |-> asked.cmd, blocks |-> asked.blocks]
      /\ CommandOK(packet') /\ UNCHANGED <<mcu, lms_reset_n, last_portion>>
      /\ IF reply'.status = "BUSY_CMD"
         THEN ops' = Program(packet') /\ Fit(packet', ops') /\ ~WrongOrder(packet', last_portion)
         ELSE ops' = <<>>
  BY DecodeFacts DEF boardVars
<1>3. Taken(last_portion + 1)
  BY <1>1, <1>2 DEF LoadInv, LoadsPortion
<1>4. McuBase'
  BY <1>1, <1>2 DEF McuBase, Loads, ProgramWholeInMcu
<1>5. ProgrammedOrError'
  BY <1>2 DEF ProgrammedOrError
<1>6. PICK p : p = packet'
  OBVIOUS
<1>7. CASE ~LoadsPortion'
  <2>1. Taken(last_portion + 1)'
    BY <1>2, <1>3 DEF Taken, Loads
  <2>2. \A i \in DOMAIN ops' : ~ForMcu(ops'[i])
    <3>1. CASE reply'.status # "BUSY_CMD"
      <4>1. \A i \in DOMAIN <<>> : ~ForMcu(<<>>[i])
        OBVIOUS
      <4> QED
        BY <1>2, <3>1, <4>1
    <3>2. CASE reply'.status = "BUSY_CMD"
      <4>1. p.cmd # "LMS_MCU_FW_WR" /\ Fit(p, ops')
        BY <1>2, <1>6, <1>7, <3>2 DEF LoadsPortion
      <4>2. PICK s : s = ops'
        OBVIOUS
      <4>3. \A i \in DOMAIN s : ~ForMcu(s[i])
        BY <4>1, <4>2 DEF Fit
      <4> QED
        BY <4>2, <4>3
    <3> QED
      BY <3>1, <3>2
  <2>3. LoadInv'
    BY <1>7, <2>1, <2>2 DEF LoadInv
  <2> QED
    BY <1>4, <1>5, <2>3 DEF McuInv
<1>8. CASE LoadsPortion'
  <2>1. p.cmd = "LMS_MCU_FW_WR" /\ CommandOK(p) /\ ops' = Program(p) /\ ~WrongOrder(p, last_portion)
    BY <1>2, <1>6, <1>8 DEF LoadsPortion
  <2>2. PICK b : b = p.blocks[1]
    OBVIOUS
  <2>3. b.val \in 0 .. LastPortion
    <3>1. Len(p.blocks) = 1
      BY <2>1 DEF CommandOK
    <3>2. 1 \in 1 .. Len(p.blocks)
      BY <3>1
    <3> QED
      BY <2>1, <2>2, <3>2, BlocksOK
  <2>4. PICK n \in 0 .. LastPortion : n = b.val
    BY <2>3
  <2>5. PortionNo' = n
    BY <1>6, <2>2, <2>4 DEF PortionNo
  <2>6. ops' = IF n = 0 THEN FirstPortionOps(b.reg) ELSE PortionOps(n)
    BY <2>1, <2>2, <2>4 DEF Program, McuOps
  <2>7. CASE n # 0
    <3>1. last_portion = n - 1
      BY <2>1, <2>2, <2>4, <2>7 DEF WrongOrder
    <3>2. Taken(n)'
      <4>1. (n - 1) + 1 = n
        OBVIOUS
      <4> QED
        BY <1>2, <1>3, <3>1, <4>1 DEF Taken, Loads
    <3>3. 0 \in 0 .. PortionSteps(n) /\ 0 < PortionBytes + 1 /\ 0 # PortionSteps(n)
          /\ ~(0 >= PortionBytes + 2) /\ ~(0 >= PortionBytes + 3)
          /\ 0 # PortionBytes + 1 /\ 0 \notin 2 .. PortionBytes
      BY PortionLength
    <3>4. PortionAt(n, 0)'
      BY <3>2, <3>3 DEF PortionAt
    <3>5. ops' = From(PortionOps(n), 0)
      <4>1. PortionOps(n) \in Seq(OpSet) /\ 0 \in 0 .. Len(PortionOps(n))
        BY <3>3, PortionLength
      <4> QED
        BY <2>6, <2>7, <4>1, FromFacts
    <3>6. PortionInv(n)'
      BY <3>3, <3>4, <3>5 DEF PortionInv
    <3>7. LoadInv'
      BY <1>8, <2>5, <3>6 DEF LoadInv
    <3> QED
      BY <1>4, <1>5, <3>7 DEF McuInv
  <2>8. CASE n = 0
    <3>1. PICK c0, c1, c2, c3, r, s :
            /\ c0 = McuControl(0) /\ c1 = McuControl(1) /\ c2 = McuControl(2)
            /\ c3 = McuControl(3) /\ r = ReadMcuStatus /\ s = PortionOps(0)
      OBVIOUS
    <3>2. s \in Seq(OpSet) /\ c0 \in OpSet /\ c1 \in OpSet /\ c2 \in OpSet
      <4>1. /\ \A m \in 0 .. 3 : McuControl(m) \in McuSteps
            /\ 0 \in 0 .. 3 /\ 1 \in 0 .. 3 /\ 2 \in 0 .. 3
        <5>1. 0 \in Nat /\ 0 \in 0 .. LastPortion
          BY ScaleOK
        <5> QED
          BY <5>1, McuStepsOf
      <4>2. \A w \in McuSteps : w \in OpSet
        BY DEF McuSteps
      <4> QED
        BY <2>8, <3>1, <4>1, <4>2, PortionLength
    <3>3. FirstPortionOps(b.reg) \in {<<c0, c1>> \o s, <<c0, c2>> \o s, <<c0, c3, r>>, <<c0>> \o s}
      BY <3>1 DEF FirstPortionOps
    <3>4. <<c0, c1>> \o s = <<c0>> \o (<<c1>> \o s) /\ <<c0, c2>> \o s = <<c0>> \o (<<c2>> \o s)
      <4>1. \A c \in OpSet : <<c0, c>> \o s = <<c0>> \o (<<c>> \o s)
        BY <3>2, TwoBefore
      <4> QED
        BY <3>2, <4>1
    <3>5. \/ ops' = <<c0>> \o (<<c1>> \o s) \/ ops' = <<c0>> \o (<<c2>> \o s)
          \/ ops' = <<c0, c3, r>> \/ ops' = <<c0>> \o s
      BY <2>6, <2>8, <3>3, <3>4
    <3>6. mcu'.fifo = 0
      BY <1>1, <1>2, <1>3 DEF McuBase, Taken
    <3>7. ModeInv(0)'
      BY <3>1, <3>5, <3>6 DEF ModeInv
    <3>8. LoadInv'
      BY <1>8, <2>5, <2>8, <3>7 DEF LoadInv
    <3> QED
      BY <1>4, <1>5, <3>8 DEF McuInv
  <2> QED
    BY <2>7, <2>8
<1> QED
  BY <1>7, <1>8

\* The MCU taking a portion, or programmed.
LEMMA McuAlone ==
  ASSUME LoopInv, TypeInv, RespInv, McuInv, Mcu
  PROVE  McuInv'
<1>1. McuBase /\ LoadInv /\ ProgrammedOrError /\ mcu \in McuStates
  BY DEF McuInv, TypeInv
<1>2. UNCHANGED <<lms_reset_n, ops, packet, pc, reply, cmd_errors, last_portion>>
  BY McuFrame DEF cmdVars, cpuVars
<1>3. PortionBytes \in Nat /\ PortionBytes >= 1 /\ LastPortion \in Nat /\ 0 \in 0 .. LastPortion
  BY ScaleOK
<1>4. CASE mcu' = [mcu EXCEPT !.programmed = TRUE]
  <2>1. /\ mcu'.fifo = mcu.fifo /\ mcu'.taken = mcu.taken /\ mcu'.mode = mcu.mode
        /\ mcu'.overwritten = mcu.overwritten /\ mcu'.portion = mcu.portion /\ mcu'.programmed = TRUE
    BY <1>1, <1>4 DEF McuStates
  <2>2. McuBase' /\ (Loads' <=> Loads)
    BY <1>1, <1>2, <2>1 DEF McuBase, Loads, ProgramWholeInMcu
  <2>3. \A n, k : PortionAt(n, k) => PortionAt(n, k)'
    BY <1>2, <2>1 DEF PortionAt, Taken, Loads
  <2>4. \A n : PortionInv(n) => PortionInv(n)'
    BY <1>2, <2>3 DEF PortionInv
  <2>5. \A n : ModeInv(n) => ModeInv(n)'
    BY <1>2, <2>1 DEF ModeInv, Loads
  <2>6. PortionNo' = PortionNo /\ (LoadsPortion' <=> LoadsPortion)
    BY <1>2 DEF PortionNo, LoadsPortion
  <2>7. LoadInv'
    <3>1. CASE LoadsPortion
      <4>1. PICK n : n = PortionNo
        OBVIOUS
      <4>2. PortionInv(n)' \/ ModeInv(n)'
        BY <1>1, <2>4, <2>5, <3>1, <4>1 DEF LoadInv
      <4>3. n = PortionNo'
        BY <2>6, <4>1
      <4> QED
        BY <2>6, <3>1, <4>2, <4>3 DEF LoadInv
    <3>2. CASE ~LoadsPortion
      <4>1. Taken(last_portion + 1)' /\ \A i \in DOMAIN ops' : ~ForMcu(ops'[i])
        BY <1>1, <1>2, <2>1, <3>2 DEF LoadInv, Taken, Loads
      <4> QED
        BY <2>6, <3>2, <4>1 DEF LoadInv
    <3> QED
      BY <3>1, <3>2
  <2>8. ProgrammedOrError'
    BY <1>1, <1>2, <2>1 DEF ProgrammedOrError
  <2> QED
    BY <2>2, <2>7, <2>8 DEF McuInv
<1>5. CASE mcu.fifo = PortionBytes /\ mcu' = [mcu EXCEPT !.fifo = 0, !.taken = Append(@, mcu.portion)]
  <2>1. Loads /\ LoadsPortion
    BY <1>1, <1>3, <1>5 DEF McuBase, LoadInv, Taken
  <2>2. PICK n \in 0 .. LastPortion : n = PortionNo
    BY <2>1, PortionNumber
  <2>3. ~ModeInv(n)
    BY <1>3, <1>5 DEF ModeInv
  <2>4. PICK k \in 0 .. PortionSteps(n) : ops = From(PortionOps(n), k) /\ PortionAt(n, k)
    BY <1>1, <2>1, <2>2, <2>3 DEF LoadInv, PortionInv
  <2>5. PortionSteps(n) \in Nat /\ PortionSteps(n) >= PortionBytes + 3
    BY PortionLength
  <2>6. k = PortionBytes + 1 /\ Len(mcu.taken) = n /\ mcu.portion = n
    <3>1. ~(k <= 1)
      BY <1>3, <1>5, <2>1, <2>4 DEF PortionAt, Taken
    <3>2. k \notin 2 .. PortionBytes
      BY <1>3, <1>5, <2>1, <2>4 DEF PortionAt
    <3>3. ~(k >= PortionBytes + 2)
      BY <1>3, <1>5, <2>1, <2>4 DEF PortionAt, Taken
    <3>4. k = PortionBytes + 1
      BY <1>3, <2>5, <3>1, <3>2, <3>3
    <3>5. \/ Len(mcu.taken) = n /\ mcu.portion = n
          \/ mcu.fifo = 0
      BY <2>1, <2>4, <3>4 DEF PortionAt
    <3> QED
      BY <1>3, <1>5, <3>4, <3>5
  <2>7. PICK s \in Seq(Nat) : s = Append(mcu.taken, mcu.portion)
    <3>1. mcu.taken \in Seq(Nat) /\ mcu.portion \in Nat
      BY <1>1 DEF McuStates
    <3>2. Append(mcu.taken, mcu.portion) \in Seq(Nat)
      BY <3>1
    <3> QED
      BY <3>2
  <2>8. /\ mcu'.fifo = 0 /\ mcu'.taken = s /\ mcu'.mode = mcu.mode
        /\ mcu'.overwritten = mcu.overwritten /\ mcu'.programmed = mcu.programmed
    BY <1>1, <1>5, <2>7 DEF McuStates
  <2>9. Len(s) = n + 1 /\ s = [i \in 1 .. Len(s) |-> i - 1]
    <3>1. PICK t \in Seq(Nat) : t = mcu.taken /\ Len(t) = n
      BY <1>1, <2>6 DEF McuStates
    <3>2. \A i \in 1 .. n : t[i] = i - 1
      <4>1. t = [i \in 1 .. Len(t) |-> i - 1]
        BY <1>1, <3>1 DEF McuBase, ProgramWholeInMcu
      <4> QED
        BY <3>1, <4>1
    <3>3. s = Append(t, n) /\ n \in Nat
      BY <2>6, <2>7, <3>1
    <3>4. Len(s) = n + 1 /\ s[n + 1] = n /\ \A i \in 1 .. n : s[i] = t[i]
      BY <3>1, <3>3
    <3>5. ASSUME NEW i \in 1 .. n + 1 PROVE s[i] = i - 1
      BY <3>2, <3>3, <3>4, <3>5
    <3>6. s = [i \in 1 .. Len(s) |-> s[i]]
      BY <2>7
    <3>7. [i \in 1 .. Len(s) |-> s[i]] = [i \in 1 .. Len(s) |-> i - 1]
      BY <3>4, <3>5
    <3> QED
      BY <3>4, <3>6, <3>7
  <2>10. McuBase'
    <3>1. ProgramWholeInMcu'
      BY <1>1, <2>8, <2>9 DEF McuBase, ProgramWholeInMcu
    <3>2. Loads' /\ lms_reset_n'
      BY <1>1, <1>2, <2>1, <2>8 DEF McuBase, Loads
    <3> QED
      BY <3>1, <3>2 DEF McuBase
  <2>11. PortionAt(n, k)'
    <3>1. /\ ~(k <= 1) /\ k \notin 2 .. PortionBytes /\ ~(k >= PortionBytes + 2)
          /\ ~(k >= PortionBytes + 3) /\ k # PortionSteps(n)
      BY <1>3, <2>5, <2>6
    <3>2. mcu'.fifo = 0 /\ Len(mcu'.taken) = n + 1
      BY <2>8, <2>9
    <3> QED
      BY <3>1, <3>2 DEF PortionAt
  <2>12. PortionInv(n)'
    BY <1>2, <2>4, <2>11 DEF PortionInv
  <2>13. n = PortionNo' /\ LoadsPortion'
    BY <1>2, <2>1, <2>2 DEF PortionNo, LoadsPortion
  <2>14. LoadInv'
    BY <2>12, <2>13 DEF LoadInv
  <2>15. ProgrammedOrError'
    BY <1>1, <1>2, <2>8 DEF ProgrammedOrError
  <2> QED
    BY <2>10, <2>14, <2>15 DEF McuInv
<1> QED
  BY <1>1, <1>4, <1>5, McuOwnSteps

\* The MCU in reset, and a step that resets it.
LEMMA McuInReset ==
  ASSUME mcu' = McuAtReset
  PROVE  McuBase' /\ ~Loads' /\ mcu'.fifo = 0
<1>1. /\ mcu'.mode = 0 /\ mcu'.fifo = 0 /\ mcu'.taken = <<>> /\ ~mcu'.overwritten
      /\ Len(mcu'.taken) = 0
  BY DEF McuAtReset
<1>2. mcu'.taken = [k \in 1 .. Len(mcu'.taken) |-> k - 1]
  BY <1>1
<1> QED
  BY <1>1, <1>2 DEF McuBase, Loads, ProgramWholeInMcu

\* A step of a program leaves the command and the status of its reply.
LEMMA TakesLoads ==
  ASSUME OpsInv, TypeInv, BytesInv, NEW op, Takes(op), Effect(op)
  PROVE  /\ LoadsPortion' <=> LoadsPortion
         /\ PortionNo' = PortionNo /\ ProgrammedOrError'
<1>1. UNCHANGED <<pc, packet>> /\ pc \in {"boot", "serve"}
  BY DEF Takes
<1>2. reply'.status = reply.status
  BY ReplyEffects
<1> QED
  BY <1>1, <1>2 DEF LoadsPortion, PortionNo, ProgrammedOrError

\* A step of a program that loads no portion.
LEMMA McuPlain ==
  ASSUME OpsInv, TypeInv, BytesInv, McuInv, ~LoadsPortion, NEW op, Takes(op), Effect(op)
  PROVE  McuInv'
<1>1. op \in OpSet /\ Sane(op) /\ op = ops[1] /\ 1 \in DOMAIN ops /\ mcu \in McuStates
  BY TakesFacts DEF TypeInv
<1>2. McuBase /\ Taken(last_portion + 1) /\ \A i \in DOMAIN ops : ~ForMcu(ops[i])
  BY DEF McuInv, LoadInv
<1>3. ~ForMcu(op)
  BY <1>1, <1>2
<1>4. \A i \in DOMAIN ops' : ~ForMcu(ops'[i])
  BY <1>2, TakesFacts
<1>5. last_portion' = last_portion
  BY <1>3 DEF ForMcu, SavesPortion, Effect, Dev, Cpu, WaitEnds, cpuVars
<1>6. McuBase' /\ Taken(last_portion + 1)'
  <2>1. CASE mcu' = McuAtReset
    BY <2>1, McuInReset DEF Taken
  <2>2. CASE mcu' = mcu /\ (lms_reset_n => lms_reset_n')
    BY <1>2, <1>5, <2>2 DEF McuBase, Loads, ProgramWholeInMcu, Taken
  <2> QED
    BY <1>1, <1>3, <2>1, <2>2, McuEffects DEF ForMcu
<1>7. LoadInv'
  BY <1>4, <1>6, TakesLoads DEF LoadInv
<1> QED
  BY <1>6, <1>7, TakesLoads DEF McuInv

\* A wait for the MCU, and the step that saves a portion's number.
LEMMA WaitEffects ==
  ASSUME NEW op \in OpSet, Effect(op), op.dev \in {"await", "cpu"}
  PROVE  /\ mcu' = mcu /\ lms_reset_n' = lms_reset_n
         /\ op.dev = "await" => last_portion' = last_portion
         /\ op.dev = "cpu" /\ op.act = "last_portion" =>
              last_portion' = op.val /\ cmd_errors' = cmd_errors
<1>1. CASE Cpu(op)
  BY <1>1 DEF Cpu, boardVars
<1>2. CASE WaitEnds(op)
  BY <1>2 DEF WaitEnds, boardVars
<1> QED
  BY <1>1, <1>2 DEF Effect, Dev

\* A byte of a portion, when there is room for it.
LEMMA ByteTaken ==
  ASSUME mcu \in McuStates, NEW n \in Nat, Loads, mcu.fifo < PortionBytes, mcu' = McuByte(n)
  PROVE  /\ mcu'.fifo = mcu.fifo + 1 /\ mcu'.portion = n /\ mcu'.mode = mcu.mode
         /\ mcu'.taken = mcu.taken /\ mcu'.overwritten = mcu.overwritten
         /\ mcu'.programmed = mcu.programmed
<1>1. McuByte(n) = [mcu EXCEPT !.fifo = @ + 1, !.portion = n]
  BY DEF McuByte, Loads
<1>2. mcu' = [mode |-> mcu.mode, fifo |-> mcu.fifo + 1, portion |-> n, taken |-> mcu.taken,
              programmed |-> mcu.programmed, overwritten |-> mcu.overwritten]
  BY <1>1 DEF McuStates
<1> QED
  BY <1>2

\* A step of the program of a portion.
LEMMA McuPortion ==
  ASSUME OpsInv, TypeInv, BytesInv, McuBase, LoadsPortion, NEW n \in 0 .. LastPortion,
         n = PortionNo, PortionInv(n), NEW op, Takes(op), Effect(op)
  PROVE  McuInv'
<1> DEFINE P == PortionBytes
           s == PortionOps(n)
<1>0. /\ P \in Nat /\ P >= 1 /\ PortionSteps(n) \in Nat /\ PortionSteps(n) >= P + 3 /\ n \in Nat
      /\ n = LastPortion => PortionSteps(n) = P + 4
      /\ n # LastPortion => PortionSteps(n) = P + 3
      /\ s \in Seq(OpSet) /\ Len(s) = PortionSteps(n)
  BY PortionLength
<1>1. PICK k \in 0 .. PortionSteps(n) : ops = From(s, k) /\ PortionAt(n, k)
  BY DEF PortionInv
<1>2. ops # <<>> /\ op = Head(ops) /\ ops' = Tail(ops) /\ op \in OpSet /\ Sane(op) /\ mcu \in McuStates
  BY TakesFacts DEF Takes, TypeInv
<1>3. k < PortionSteps(n) /\ op = s[k + 1] /\ ops' = From(s, k + 1)
  <2> HIDE DEF s
  <2>1. k \in 0 .. Len(s) /\ From(s, k) # <<>>
    BY <1>0, <1>1, <1>2
  <2>2. k < Len(s)
    BY <1>0, <2>1, FromFacts
  <2>3. Head(From(s, k)) = s[k + 1] /\ Tail(From(s, k)) = From(s, k + 1)
    BY <1>0, <2>1, <2>2, FromFacts
  <2> QED
    BY <1>0, <1>1, <1>2, <2>2, <2>3
<1>4. k + 1 \in 0 .. PortionSteps(n) /\ k \in Nat
  BY <1>0, <1>3
<1>5. SUFFICES McuBase' /\ PortionAt(n, k + 1)'
  <2>1. PortionNo' = n /\ LoadsPortion' /\ ProgrammedOrError'
    BY TakesLoads
  <2>2. ASSUME PortionAt(n, k + 1)' PROVE PortionInv(n)'
    BY <1>3, <1>4, <2>2 DEF PortionInv
  <2> QED
    BY <2>1, <2>2 DEF McuInv, LoadInv
<1>6. /\ s[1] = EmptyAwait(MAX_MCU_RETRIES)
      /\ \A i \in 2 .. P + 1 : s[i] = PortionByte(n)
      /\ s[P + 2] = EmptyAwait(WriteRetries)
      /\ n = LastPortion => s[P + 3] = ProgrammedAwait
      /\ s[PortionSteps(n)] = SavePortion(n)
  BY PortionProgram
<1> HIDE DEF s
<1>7. CASE k = 0
  <2>1. op = EmptyAwait(MAX_MCU_RETRIES) /\ op.dev = "await"
    BY <1>3, <1>6, <1>7 DEF EmptyAwait, Await, Op
  <2>2. mcu' = mcu /\ lms_reset_n' = lms_reset_n
    BY <1>2, <2>1, WaitEffects
  <2>3. McuBase'
    BY <2>2 DEF McuBase, Loads, ProgramWholeInMcu
  <2>4. Taken(n)'
    BY <1>1, <1>7, <2>2 DEF PortionAt, Taken, Loads
  <2>5. /\ 1 \notin 2 .. P /\ 1 # P + 1 /\ ~(1 >= P + 2) /\ ~(1 >= P + 3) /\ 1 # PortionSteps(n)
        /\ k + 1 = 1
    BY <1>0, <1>7
  <2>6. PortionAt(n, 1)'
    BY <2>4, <2>5 DEF PortionAt
  <2> QED
    BY <2>3, <2>5, <2>6
<1>8. CASE k \in 1 .. P
  <2>1. op = PortionByte(n) /\ op.val = n /\ IsMcuByte(op)
    <3>1. k + 1 \in 2 .. P + 1
      BY <1>0, <1>8
    <3> QED
      BY <1>3, <1>6, <3>1 DEF PortionByte, RegWrite, Op, IsMcuByte
  <2>2. /\ op.dev # "lms_reset" /\ lms_reset_n' = lms_reset_n
        /\ mcu' = IF ~lms_reset_n THEN mcu ELSE McuByte(n)
    <3>1. op.dev = "lms"
      BY <2>1 DEF PortionByte, RegWrite, Op
    <3> QED
      BY <1>2, <2>1, <3>1, McuEffects
  <2>3. /\ ~(k + 1 <= 1) /\ ~(k + 1 >= P + 2) /\ ~(k + 1 >= P + 3) /\ k + 1 # PortionSteps(n)
    BY <1>0, <1>8
  <2>4. CASE ~Loads
    <3>1. mcu' = mcu
      BY <2>2, <2>4 DEF McuByte, Loads
    <3>2. McuBase' /\ ~Loads'
      BY <2>2, <2>4, <3>1 DEF McuBase, Loads, ProgramWholeInMcu
    <3> QED
      BY <2>3, <3>2 DEF PortionAt
  <2>5. CASE Loads
    <3>1. mcu.fifo = k - 1 /\ Len(mcu.taken) = n
      <4>1. CASE k = 1
        <5>1. mcu.fifo = 0 /\ Len(mcu.taken) = n
          BY <1>1, <2>5, <4>1 DEF PortionAt, Taken
        <5> QED
          BY <4>1, <5>1
      <4>2. CASE k # 1
        <5>1. k \in 2 .. P
          BY <1>0, <1>8, <4>2
        <5> QED
          BY <1>1, <2>5, <5>1 DEF PortionAt
      <4> QED
        BY <4>1, <4>2
    <3>2. mcu' = McuByte(n) /\ mcu.fifo < P
      BY <1>0, <1>8, <2>2, <2>5, <3>1 DEF McuBase
    <3>3. /\ mcu'.fifo = mcu.fifo + 1 /\ mcu'.portion = n /\ mcu'.mode = mcu.mode
          /\ mcu'.taken = mcu.taken /\ mcu'.overwritten = mcu.overwritten
      BY <1>0, <1>2, <2>5, <3>2, ByteTaken
    <3>4. McuBase' /\ Loads'
      BY <2>2, <2>5, <3>3 DEF McuBase, Loads, ProgramWholeInMcu
    <3>5. mcu'.fifo = (k + 1) - 1 /\ Len(mcu'.taken) = n /\ (k + 1 = P + 1 => mcu'.fifo = P)
      BY <1>0, <1>4, <3>1, <3>3
    <3>6. PortionAt(n, k + 1)'
      BY <2>3, <3>3, <3>5 DEF PortionAt
    <3> QED
      BY <3>4, <3>6
  <2> QED
    BY <2>4, <2>5
<1>9. CASE k = P + 1
  <2>1. op = EmptyAwait(WriteRetries)
    <3>1. k + 1 = P + 2
      BY <1>0, <1>9
    <3> QED
      BY <1>3, <1>6, <3>1
  <2>2. op.dev = "await" /\ op.reg = "EMPTY_WRITE_BUFF" /\ op.val = WriteRetries
    BY <2>1 DEF EmptyAwait, Await, Op
  <2>3. mcu' = mcu /\ lms_reset_n' = lms_reset_n
    BY <1>2, <2>2, WaitEffects
  <2>4. mcu.fifo = 0
    <3>1. ~((MCU_retries + 1) % RetryRange >= op.val)
      <4>1. /\ RetryRange \in Nat /\ RetryRange > 0 /\ WriteRetries \in Nat
            /\ WriteRetries >= RetryRange /\ MCU_retries + 1 \in Int
        BY ScaleOK DEF TypeInv
      <4> QED
        BY <2>2, <4>1
    <3>2. McuStatus(op.reg)
      BY <2>2, <3>1 DEF Effect, Dev, Cpu, WaitEnds
    <3> QED
      BY <2>2, <3>2 DEF McuStatus
  <2>5. McuBase'
    BY <2>3 DEF McuBase, Loads, ProgramWholeInMcu
  <2>6. Taken(n + 1)'
    <3>1. Loads => \/ mcu.fifo = P
                   \/ mcu.fifo = 0 /\ Len(mcu.taken) = n + 1
      BY <1>1, <1>9 DEF PortionAt
    <3>2. P # 0
      BY <1>0
    <3> QED
      BY <2>3, <2>4, <3>1, <3>2 DEF Taken, Loads
  <2>7. /\ ~(k + 1 <= 1) /\ k + 1 \notin 2 .. P /\ k + 1 # P + 1 /\ ~(k + 1 >= P + 3)
        /\ k + 1 # PortionSteps(n)
    BY <1>0, <1>9
  <2>8. PortionAt(n, k + 1)'
    BY <2>6, <2>7 DEF PortionAt
  <2> QED
    BY <2>5, <2>8
<1>10. CASE k = P + 2 /\ n = LastPortion
  <2>1. op = ProgrammedAwait
    <3>1. k + 1 = P + 3
      BY <1>0, <1>10
    <3> QED
      BY <1>3, <1>6, <1>10, <3>1
  <2>2. op.dev = "await" /\ op.reg = "PROGRAMMED"
    BY <2>1 DEF ProgrammedAwait, Await, Op
  <2>3. mcu' = mcu /\ lms_reset_n' = lms_reset_n
    BY <1>2, <2>2, WaitEffects
  <2>4. mcu'.programmed \/ cmd_errors' > 0
    <3>1. \/ McuStatus(op.reg)
          \/ cmd_errors' = cmd_errors + 1
      BY <2>2 DEF Effect, Dev, Cpu, WaitEnds
    <3>2. McuStatus(op.reg) = mcu.programmed
      BY <2>2 DEF McuStatus
    <3>3. cmd_errors \in Nat
      BY DEF TypeInv
    <3> QED
      BY <2>3, <3>1, <3>2, <3>3
  <2>5. McuBase'
    BY <2>3 DEF McuBase, Loads, ProgramWholeInMcu
  <2>6. Taken(n + 1)'
    <3>1. Taken(n + 1)
      <4>1. k >= P + 2
        BY <1>0, <1>10
      <4> QED
        BY <1>1, <4>1 DEF PortionAt
    <3> QED
      BY <2>3, <3>1 DEF Taken, Loads
  <2>7. ~(k + 1 <= 1) /\ k + 1 \notin 2 .. P /\ k + 1 # P + 1 /\ k + 1 # PortionSteps(n)
    BY <1>0, <1>10
  <2>8. PortionAt(n, k + 1)'
    BY <2>4, <2>6, <2>7 DEF PortionAt
  <2> QED
    BY <2>5, <2>8
<1>11. CASE k >= P + 2 /\ k + 1 = PortionSteps(n)
  <2>1. op = SavePortion(n)
    BY <1>3, <1>6, <1>11
  <2>2. op.dev = "cpu" /\ op.act = "last_portion" /\ op.val = n
    BY <2>1 DEF SavePortion, Op
  <2>3. /\ mcu' = mcu /\ lms_reset_n' = lms_reset_n
        /\ last_portion' = n /\ cmd_errors' = cmd_errors
    BY <1>2, <2>2, WaitEffects
  <2>4. McuBase'
    BY <2>3 DEF McuBase, Loads, ProgramWholeInMcu
  <2>5. Taken(n + 1)'
    <3>1. Taken(n + 1)
      BY <1>1, <1>11 DEF PortionAt
    <3> QED
      BY <2>3, <3>1 DEF Taken, Loads
  <2>6. n = LastPortion => mcu'.programmed \/ cmd_errors' > 0
    <3>1. n = LastPortion => k >= P + 3
      BY <1>0, <1>4, <1>11
    <3> QED
      BY <1>1, <2>3, <3>1 DEF PortionAt
  <2>7. ~(k + 1 <= 1) /\ k + 1 \notin 2 .. P /\ k + 1 # P + 1
    BY <1>0, <1>4, <1>11
  <2>8. PortionAt(n, k + 1)'
    BY <2>3, <2>5, <2>6, <2>7 DEF PortionAt
  <2> QED
    BY <2>4, <2>8
<1>12. \/ k = 0 \/ k \in 1 .. P \/ k = P + 1 \/ (k = P + 2 /\ n = LastPortion)
       \/ (k >= P + 2 /\ k + 1 = PortionSteps(n))
  BY <1>0, <1>3, <1>4
<1> QED
  BY <1>7, <1>8, <1>9, <1>10, <1>11, <1>12

\* The mode of an MCU with nothing in it.
LEMMA ModeSet ==
  ASSUME mcu \in McuStates, McuBase, ~Loads, NEW m \in 0 .. 3,
         mcu' = IF ~lms_reset_n THEN mcu ELSE [mcu EXCEPT !.mode = m],
         lms_reset_n' = lms_reset_n
  PROVE  /\ McuBase' /\ mcu'.fifo = 0 /\ Len(mcu'.taken) = 0
         /\ m \notin {1, 2} => ~Loads'
<1>1. /\ mcu'.fifo = mcu.fifo /\ mcu'.taken = mcu.taken /\ mcu'.overwritten = mcu.overwritten
      /\ mcu'.mode = IF ~lms_reset_n THEN mcu.mode ELSE m
  BY DEF McuStates
<1>2. mcu.fifo = 0 /\ mcu.taken = <<>> /\ Len(<<>>) = 0 /\ ProgramWholeInMcu
  BY DEF McuBase
<1>3. ProgramWholeInMcu'
  BY <1>1, <1>2 DEF ProgramWholeInMcu
<1>4. Loads' => lms_reset_n'
  BY <1>1 DEF Loads
<1> QED
  BY <1>1, <1>2, <1>3, <1>4 DEF McuBase, Loads

\* A step before the program of the first portion.
LEMMA McuMode ==
  ASSUME OpsInv, TypeInv, BytesInv, McuBase, LoadsPortion, PortionNo = 0, ModeInv(0),
         NEW op, Takes(op), Effect(op)
  PROVE  McuInv'
<1>1. /\ ops # <<>> /\ op = Head(ops) /\ ops' = Tail(ops) /\ op \in OpSet /\ Sane(op)
      /\ mcu \in McuStates
  BY TakesFacts DEF Takes, TypeInv
<1>2. SUFFICES McuBase' /\ (ModeInv(0)' \/ PortionInv(0)')
  <2>1. PortionNo' = 0 /\ LoadsPortion' /\ ProgrammedOrError'
    BY TakesLoads
  <2> QED
    BY <2>1 DEF McuInv, LoadInv
<1>3. PICK c0, c1, c2, c3, r, s :
        /\ c0 = McuControl(0) /\ c1 = McuControl(1) /\ c2 = McuControl(2)
        /\ c3 = McuControl(3) /\ r = ReadMcuStatus /\ s = PortionOps(0)
  OBVIOUS
<1>4. 0 \in 0 .. LastPortion /\ s \in Seq(OpSet) /\ Len(s) = PortionSteps(0)
  <2>1. 0 \in 0 .. LastPortion
    BY ScaleOK
  <2> QED
    BY <1>3, <2>1, PortionLength
<1>5. c0 \in OpSet /\ c1 \in OpSet /\ c2 \in OpSet
  <2>1. \A m \in 0 .. 3 : McuControl(m) \in McuSteps
    <3>1. 0 \in Nat
      OBVIOUS
    <3> QED
      BY <1>4, <3>1, McuStepsOf
  <2>2. \A w \in McuSteps : w \in OpSet
    BY DEF McuSteps
  <2>3. 0 \in 0 .. 3 /\ 1 \in 0 .. 3 /\ 2 \in 0 .. 3
    OBVIOUS
  <2> QED
    BY <1>3, <2>1, <2>2, <2>3
<1>6. \A c \in OpSet : /\ <<c>> \o s \in Seq(OpSet) /\ Head(<<c>> \o s) = c /\ Tail(<<c>> \o s) = s
  BY <1>4, ConsFacts
<1>7. mcu.fifo = 0
  BY DEF ModeInv
\* A step that resets the MCU.
<1>8. ASSUME op = c0 PROVE McuBase' /\ ~Loads' /\ mcu'.fifo = 0
  <2>1. IsMcuControl(op) /\ op.val = 0
    BY <1>3, <1>8 DEF McuControl, RegWrite, Op, IsMcuControl
  <2>2. mcu' = IF ~lms_reset_n THEN mcu ELSE McuAtReset
    BY <1>1, <2>1, McuEffects
  <2>3. lms_reset_n' = lms_reset_n
    BY <1>1, <1>3, <1>8, McuEffects DEF McuControl, RegWrite, Op
  <2>4. CASE ~lms_reset_n
    BY <1>7, <2>2, <2>3, <2>4 DEF McuBase, Loads, ProgramWholeInMcu
  <2>5. CASE lms_reset_n
    BY <2>2, <2>5, McuInReset
  <2> QED
    BY <2>4, <2>5
\* A step that sets its mode.
<1>9. ASSUME NEW m \in 1 .. 3, op = McuControl(m), ~Loads
      PROVE  /\ McuBase' /\ mcu'.fifo = 0 /\ Len(mcu'.taken) = 0
             /\ m \notin {1, 2} => ~Loads'
  <2>1. IsMcuControl(op) /\ op.val = m /\ op.dev # "lms_reset" /\ m # 0 /\ m \in 0 .. 3
    BY <1>9 DEF McuControl, RegWrite, Op, IsMcuControl
  <2>2. mcu' = IF ~lms_reset_n THEN mcu ELSE [mcu EXCEPT !.mode = m]
    BY <1>1, <2>1, McuEffects
  <2>3. lms_reset_n' = lms_reset_n
    BY <1>1, <2>1, McuEffects
  <2> QED
    BY <1>1, <1>9, <2>1, <2>2, <2>3, ModeSet
\* The program of the portion begins.
<1>10. ASSUME ops' = s, Taken(0)' PROVE PortionInv(0)'
  <2>1. 0 \in 0 .. PortionSteps(0) /\ 0 # PortionSteps(0) /\ ~(0 >= PortionBytes + 2)
        /\ ~(0 >= PortionBytes + 3) /\ 0 # PortionBytes + 1 /\ 0 \notin 2 .. PortionBytes
    BY <1>4, PortionLength
  <2>2. PortionAt(0, 0)'
    BY <1>10, <2>1 DEF PortionAt
  <2>3. 0 \in 0 .. Len(s)
    BY <1>4, <2>1
  <2>4. ops' = From(PortionOps(0), 0)
    BY <1>3, <1>4, <1>10, <2>3, FromFacts
  <2> QED
    BY <2>1, <2>2, <2>4 DEF PortionInv
<1>11. CASE ops = <<c0>> \o (<<c1>> \o s) \/ ops = <<c0>> \o (<<c2>> \o s)
  <2>1. op = c0 /\ (ops' = <<c1>> \o s \/ ops' = <<c2>> \o s)
    <3>1. \A t \in Seq(OpSet) : Head(<<c0>> \o t) = c0 /\ Tail(<<c0>> \o t) = t
      BY <1>5, ConsFacts
    <3> QED
      BY <1>1, <1>5, <1>6, <1>11, <3>1
  <2>2. McuBase' /\ ~Loads' /\ mcu'.fifo = 0
    BY <1>8, <2>1
  <2> QED
    BY <1>3, <2>1, <2>2 DEF ModeInv
<1>12. CASE (ops = <<c1>> \o s \/ ops = <<c2>> \o s) /\ ~Loads
  <2>1. PICK m \in {1, 2} : op = McuControl(m)
    BY <1>1, <1>3, <1>5, <1>6, <1>12
  <2>2. ops' = s
    BY <1>1, <1>5, <1>6, <1>12
  <2>3. McuBase' /\ mcu'.fifo = 0 /\ Len(mcu'.taken) = 0
    <3>1. m \in 1 .. 3
      OBVIOUS
    <3> QED
      BY <1>9, <1>12, <2>1, <3>1
  <2> QED
    BY <1>10, <2>2, <2>3 DEF Taken
<1>13. CASE ops = <<c0>> \o s
  <2>1. op = c0 /\ ops' = s
    BY <1>1, <1>5, <1>6, <1>13
  <2> QED
    BY <1>8, <1>10, <2>1 DEF Taken
<1>14. CASE ops = <<c0, c3, r>>
  <2>1. op = c0 /\ ops' = <<c3, r>>
    BY <1>1, <1>14
  <2>2. McuBase' /\ ~Loads' /\ mcu'.fifo = 0
    BY <1>8, <2>1
  <2> QED
    BY <1>3, <2>1, <2>2 DEF ModeInv
<1>15. CASE ops = <<c3, r>> /\ ~Loads
  <2>1. op = McuControl(3) /\ ops' = <<r>>
    BY <1>1, <1>3, <1>15
  <2>2. 3 \in 1 .. 3 /\ 3 \notin {1, 2}
    OBVIOUS
  <2>3. McuBase' /\ ~Loads' /\ mcu'.fifo = 0
    BY <1>9, <1>15, <2>1, <2>2
  <2> QED
    BY <1>3, <2>1, <2>3 DEF ModeInv
<1>16. CASE ops = <<r>> /\ ~Loads
  <2>1. op = r /\ ops' = <<>>
    BY <1>1, <1>16
  <2>2. op.dev # "lms_reset" /\ ~IsMcuControl(op) /\ ~IsMcuByte(op)
    BY <1>3, <2>1 DEF ReadMcuStatus, Op, IsMcuControl, IsMcuByte
  <2>3. mcu' = mcu /\ lms_reset_n' = lms_reset_n
    BY <1>1, <2>2, McuEffects
  <2>4. McuBase' /\ ~Loads' /\ mcu'.fifo = 0
    BY <1>7, <1>16, <2>3 DEF McuBase, Loads, ProgramWholeInMcu
  <2> QED
    BY <2>1, <2>4 DEF ModeInv
<1>17. \/ ops = <<c0>> \o (<<c1>> \o s) \/ ops = <<c0>> \o (<<c2>> \o s)
       \/ (ops = <<c1>> \o s \/ ops = <<c2>> \o s) /\ ~Loads
       \/ ops = <<c0>> \o s \/ ops = <<c0, c3, r>>
       \/ (ops = <<c3, r>> /\ ~Loads) \/ (ops = <<r>> /\ ~Loads)
  BY <1>1, <1>3 DEF ModeInv
<1> QED
  BY <1>11, <1>12, <1>13, <1>14, <1>15, <1>16, <1>17

\* McuInv goes on to hold.
LEMMA McuStep ==
  ASSUME LoopInv, OpsInv, TypeInv, BytesInv, RespInv, McuInv, [Next]_vars
  PROVE  McuInv'
<1>1. CASE Others
  BY <1>1, McuOthers
<1>2. CASE Decode
  BY <1>2, McuDecode
<1>3. CASE Waits
  <2>1. UNCHANGED <<mcu, lms_reset_n, ops, packet, pc, reply, cmd_errors, last_portion>>
        /\ pc \in {"boot", "serve"}
    BY <1>3 DEF Waits, boardVars
  <2>2. McuBase' /\ LoadInv'
    BY <2>1, McuStill DEF McuInv
  <2>3. ProgrammedOrError'
    BY <2>1 DEF ProgrammedOrError
  <2> QED
    BY <2>2, <2>3 DEF McuInv
<1>4. CASE Mcu
  BY <1>4, McuAlone
<1>5. ASSUME NEW op, Takes(op), Effect(op) PROVE McuInv'
  <2>1. CASE ~LoadsPortion
    BY <1>5, <2>1, McuPlain
  <2>2. CASE LoadsPortion
    <3>1. PICK n \in 0 .. LastPortion : n = PortionNo
      BY <2>2, PortionNumber
    <3>2. McuBase /\ (PortionInv(n) \/ ModeInv(n))
      BY <2>2, <3>1 DEF McuInv, LoadInv
    <3>3. CASE PortionInv(n)
      BY <1>5, <2>2, <3>1, <3>2, <3>3, McuPortion
    <3>4. CASE ModeInv(n)
      <4>1. n = 0 /\ ModeInv(0) /\ PortionNo = 0
        BY <3>1, <3>4 DEF ModeInv
      <4> QED
        BY <1>5, <2>2, <3>2, <4>1, McuMode
    <3> QED
      BY <3>2, <3>3, <3>4
  <2> QED
    BY <2>1, <2>2
<1> QED
  BY <1>1, <1>2, <1>3, <1>4, <1>5, Kinds

-----------------------------------------------------------------------------
(***************************************************************************)
(* The theorems.                                                           *)
(***************************************************************************)
IInv ==
  /\ LoopInv /\ TypeInv /\ OpsInv /\ OscInv /\ BytesInv /\ RespInv /\ CountInv /\ ReadsInv
  /\ McuInv

\* The invariant holds at first.
LEMMA IInvInit == Init => IInv
BY LoopInit, TypeInit, OpsInit, OscInit, BytesInit, RespInit, CountInit, ReadsInit, McuInit DEF IInv

\* And every step keeps it.
LEMMA IInvStep ==
  ASSUME IInv, [Next]_vars
  PROVE  IInv'
<1>1. LoopInv /\ TypeInv /\ OpsInv /\ OscInv /\ BytesInv /\ RespInv /\ CountInv /\ ReadsInv /\ McuInv
  BY DEF IInv
<1>2. pc = "send" => reply.tag = tag
  BY <1>1 DEF RespInv
<1>3. LoopInv'
  BY <1>1, <1>2, LoopStep
<1>4. TypeInv' /\ OpsInv' /\ BytesInv'
  BY <1>1, TypeStep, OpsStep, BytesStep
<1>5. OscInv' /\ CountInv' /\ ReadsInv'
  BY <1>1, OscStep, CountStep, ReadsStep
<1>6. RespInv'
  BY <1>1, <1>3, <1>4, RespStep
<1>7. McuInv'
  BY <1>1, McuStep
<1> QED
  BY <1>3, <1>4, <1>5, <1>6, <1>7 DEF IInv

\* IInv always holds: the programs that are run, their words in the FIFOs, the reply
\* and what the MCU has taken are at each step as the next step wants them.
THEOREM Invariant == Spec => []IInv
BY IInvInit, IInvStep, PTL DEF Spec

\* Words of a run are words of packets.
LEMMA RunWords ==
  ASSUME NEW t \in {0, 1}, NEW a \in Nat, NEW n \in Nat, a + n <= PacketWords
  PROVE  Run(t, a, n) \in Seq(Words) /\ Len(Run(t, a, n)) = n
<1>1. ASSUME NEW k \in 1 .. n PROVE <<t, a + k>> \in Words
  <2>1. t \in 0 .. 2 /\ a + k \in 0 .. PacketWords
    BY <1>1, SessionsOK
  <2> QED
    BY <2>1 DEF Words
<1> QED
  BY <1>1 DEF Run

\* The FIFOs hold one packet at most, and every variable has its type.
LEMMA TypesOf == IInv => TypeOK
<1> SUFFICES ASSUME IInv PROVE TypeOK
  OBVIOUS
<1>1. LoopInv /\ LoopBase /\ TypeInv /\ OpsInv /\ CountInv
  BY DEF IInv, LoopInv
<1>2. /\ PacketWords \in Nat \ {0} /\ tag \in {0, 1} /\ sent \in 0 .. PacketWords
      /\ cnt \in 0 .. PacketWords
  BY <1>1, SessionsOK DEF LoopBase
<1>3. <<>> \in Seq(Words) /\ Len(<<>>) = 0
  OBVIOUS
<1>4. EP0F \in Seq(Words) /\ Len(EP0F) <= PacketWords
  <2>1. CASE AllSent
    BY <1>2, <1>3, <2>1 DEF AllSent
  <2>2. CASE Asking
    <3>1. Len(glEp0Buffer_Rx) \in Nat /\ Len(glEp0Buffer_Rx) <= sent
      <4>1. glEp0Buffer_Rx = Run(tag, 0, Len(glEp0Buffer_Rx))
        BY <1>1 DEF LoopBase
      <4> QED
        BY <2>2, <4>1 DEF Asking
    <3>2. PICK n \in Nat : n = Len(glEp0Buffer_Rx)
      BY <3>1
    <3>3. sent - n \in Nat /\ n + (sent - n) <= PacketWords /\ sent - n <= PacketWords
      BY <1>2, <3>1, <3>2
    <3>4. EP0F = Run(tag, n, sent - n)
      BY <2>2, <3>2 DEF Asking
    <3> QED
      BY <1>2, <3>3, <3>4, RunWords
  <2> QED
    BY <1>1, <2>1, <2>2 DEF LoopInv, Quiet, Serving, Answering
<1>5. EP8F \in Seq(Words) /\ got \in Seq(Words) /\ Len(EP8F) + Len(got) <= PacketWords
  <2>1. CASE NoAnswer
    BY <1>2, <1>3, <2>1 DEF NoAnswer
  <2>2. CASE Serving
    <3>1. got = <<>> /\ EP8F = Run(tag, 0, cnt)
      BY <2>2 DEF Serving
    <3>2. EP8F \in Seq(Words) /\ Len(EP8F) = cnt
      BY <1>2, <3>1, RunWords
    <3> QED
      BY <1>2, <1>3, <3>1, <3>2
  <2>3. CASE Answering
    <3>1. PICK n \in 0 .. PacketWords - 1 :
            n = Len(got) /\ got = Run(tag, 0, n) /\ EP8F = Run(tag, n, PacketWords - n)
      BY <2>3 DEF Answering
    <3>2. n \in Nat /\ PacketWords - n \in Nat /\ 0 + n <= PacketWords
          /\ n + (PacketWords - n) <= PacketWords /\ (PacketWords - n) + n <= PacketWords
      BY <1>2, <3>1
    <3>3. got \in Seq(Words) /\ Len(got) = n
      <4>1. n \in Nat /\ 0 \in Nat /\ 0 + n <= PacketWords /\ got = Run(tag, 0, n)
        BY <3>1, <3>2
      <4> QED
        BY <1>2, <4>1, RunWords
    <3>4. EP8F \in Seq(Words) /\ Len(EP8F) = PacketWords - n
      <4>1. PICK m \in Nat : m = PacketWords - n
        BY <3>2
      <4>2. n \in Nat /\ EP8F = Run(tag, n, m) /\ n + m <= PacketWords
        BY <3>1, <3>2, <4>1
      <4>3. EP8F \in Seq(Words) /\ Len(EP8F) = m
        BY <1>2, <4>2, RunWords
      <4> QED
        BY <4>1, <4>3
    <3> QED
      BY <3>2, <3>3, <3>4
  <2> QED
    BY <1>1, <2>1, <2>2, <2>3 DEF LoopInv, Quiet, Asking
<1>6. cmd_errors \in 0 .. FieldBytes
  BY <1>1, ErrorsBound
<1>7. /\ dac \in [drives : BOOLEAN, val : 0 .. 255] /\ dac_val \in 0 .. 255
      /\ mcu.mode \in 0 .. 3 /\ mcu.fifo \in 0 .. PortionBytes
      /\ {adf, lms_reset_n, led} \subseteq BOOLEAN
      /\ reply.status \in Statuses /\ last_portion \in 0 .. LastPortion
      /\ MCU_retries \in 0 .. RetryRange - 1
  BY <1>1 DEF TypeInv, Byte, McuStates, Replies
<1>8. {moved, EP8F_aclrn} \subseteq BOOLEAN
  BY <1>1 DEF LoopBase
<1>9. /\ asked \in session.commands \cup {None}
      /\ pc \in {"boot", "poll", "set_reset", "end_reset", "led_on", "read", "decode",
                  "serve", "send", "led_off"}
  BY <1>1 DEF LoopBase, Getting
<1> QED
  BY <1>2, <1>4, <1>5, <1>6, <1>7, <1>8, <1>9 DEF TypeOK

\* TypeOK always holds: the FIFOs of the control endpoints never hold more than one
\* packet, and cmd_errors never more than the bytes of a packet's field.
THEOREM TypesHold == Spec => []TypeOK
BY Invariant, TypesOf, PTL

\* OscillatorDriven always holds: after the boot the DAC and the charge pump never
\* both drive the oscillator's pin, and the DAC drives the value that is reported.
THEOREM OscillatorSafe == Spec => []OscillatorDriven
<1>1. ASSUME IInv PROVE OscillatorDriven
  <2>1. OscInv /\ OpsInv
    BY <1>1 DEF IInv
  <2>2. OneTcxoDriver
    BY <2>1 DEF OscInv, OneTcxoDriver
  <2>3. DacFollowsDacVal
    <3>1. ASSUME pc = "poll", dac.drives PROVE dac.val = dac_val
      <4>1. ops = <<>>
        BY <2>1, <3>1 DEF OpsInv
      <4>2. DOMAIN ops = {}
        BY <4>1
      <4> QED
        BY <2>1, <3>1, <4>2 DEF OscInv
    <3> QED
      BY <3>1 DEF DacFollowsDacVal
  <2> QED
    BY <2>2, <2>3 DEF OscillatorDriven
<1> QED
  BY <1>1, Invariant, PTL

\* ReadsAreTrue holds: a temperature in a reply is the one the sensor measured for it,
\* and a command that reads leaves registers, outputs and the firmware's values alone.
THEOREM ReadsTrue == Spec => ReadsAreTrue
<1>1. ASSUME IInv, [Next]_vars
      PROVE  [ReportsTemperature /\ reply' # reply => Last(reply'.data) = 5 * temperature]_vars
  BY <1>1, TemperatureStep DEF IInv
<1>2. ASSUME IInv, [Next]_vars
      PROVE  [pc = "serve" /\ packet.cmd \in Reads
                => UNCHANGED <<dac, adf, lms_reset_n, regs, dac_val, last_portion>>]_vars
  BY <1>2, ReadsStill DEF IInv
<1>3. Spec => TemperatureTrue
  BY <1>1, Invariant, PTL DEF Spec, TemperatureTrue
<1>4. Spec => ReadsChangeNothing
  BY <1>2, Invariant, PTL DEF Spec, ReadsChangeNothing
<1> QED
  BY <1>3, <1>4 DEF ReadsAreTrue

\* The loop, its FIFOs and the FX3 implement the control channel: one whole reply,
\* made for it, for each command before the next is asked.
THEOREM Refines == Spec => Channel!Safety
<1>1. Init => Channel!Init
  BY DEF Init, Channel!Init
<1>2. ASSUME IInv, [Next]_vars PROVE [Channel!Next]_<<asked, answer>>
  <2>0. LoopInv /\ RespInv
    BY <1>2 DEF IInv
  <2>1. CASE HostAsks
    <3>1. asked = None /\ asked' \in session.commands /\ answer' = None /\ session \in Sessions
      BY <2>0, <2>1 DEF HostAsks, LoopInv, LoopBase
    <3>2. asked' \in Commands
      BY <3>1 DEF Commands
    <3> QED
      BY <3>1, <3>2 DEF Channel!Next, Channel!Ask
  <2>2. CASE FX3Fetches
    <3> DEFINE words == Append(got, Head(EP8F))
    <3>1. /\ Answering /\ Len(got) \in Nat /\ Len(got) < PacketWords
          /\ words = Run(tag, 0, Len(got) + 1) /\ Len(words) = Len(got) + 1
      BY <2>0, <2>2, FetchFacts
    <3>2. /\ asked # None
          /\ IF Len(words) < PacketWords THEN UNCHANGED <<asked, answer>>
             ELSE asked' = None /\ answer' = IF words = PacketOf(tag) THEN reply ELSE NoReply
      BY <2>2 DEF FX3Fetches
    <3> HIDE DEF words
    <3>3. CASE Len(words) < PacketWords
      BY <3>2, <3>3
    <3>4. CASE ~(Len(words) < PacketWords)
      <4>1. Len(got) + 1 = PacketWords
        BY <3>1, <3>4, SessionsOK
      <4>2. words = PacketOf(tag)
        BY <3>1, <4>1, SessionsOK, RunFacts
      <4>3. asked # None /\ asked' = None /\ answer' = reply
        BY <3>2, <3>4, <4>2
      <4>4. Fits(asked, reply)
        BY <2>0, <3>1 DEF RespInv, Replied
      <4> QED
        BY <4>3, <4>4 DEF Channel!Next, Channel!Answer
    <3> QED
      BY <3>3, <3>4
  <2>3. CASE ~HostAsks /\ ~FX3Fetches
    <3>1. UNCHANGED <<asked, answer>>
      BY <1>2, <2>3 DEF Next, FX3Delivers, Firmware, PollStatus, SetReset, EndReset, LedOn,
         ReadWord, GetFifoData, At, Decode, DeviceStep, CpuStep, AwaitMcu, PollMcu, UnchangedLoop,
         BootDone, Respond, WriteWord, LedOff, Mcu, hostVars, vars
    <3> QED
      BY <3>1
  <2> QED
    BY <2>1, <2>2, <2>3
<1> QED
  BY <1>1, <1>2, Invariant, PTL DEF Spec, Channel!Safety

\* ProgramWholeInMcu always holds: what the MCU has taken is a beginning of its
\* program, in order, and no byte was written over one that it had not taken.
THEOREM ProgramWhole == Spec => []ProgramWholeInMcu
<1>1. IInv => ProgramWholeInMcu
  BY DEF IInv, McuInv, McuBase
<1> QED
  BY <1>1, Invariant, PTL

\* ProgrammedOrError always holds: the last portion is answered with "completed" only
\* if the MCU has said that it is programmed.
THEOREM ProgrammedOrErr == Spec => []ProgrammedOrError
<1>1. IInv => ProgrammedOrError
  BY DEF IInv, McuInv
<1> QED
  BY <1>1, Invariant, PTL
=============================================================================
