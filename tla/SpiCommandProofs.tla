--------------------------- MODULE SpiCommandProofs ---------------------------
(***************************************************************************)
(* Proofs about SpiCommand, for any set of calls: no byte is ever lost in  *)
(* the master, and the polled routine implements SpiTransfer.              *)
(*                                                                         *)
(* Both rest on IInv: at most one byte is under way, it is the one that    *)
(* was written last, and where it is decides what the registers hold.      *)
(***************************************************************************)
EXTENDS SpiCommand, SequenceTheorems, TLAPS

\* Bytes come back, counted by what was dropped and what was kept.
Received == call.write - read_ignore + Len(read_data)
All == call.write + call.read

Sent(c, m) == [k \in 1 .. m |-> ByteOf(c, k)]
Got(c, m) == [j \in 1 .. m |-> c.write + j]

Opening == {"slave_sel", "sso", "discard"}
Loop == {"poll", "write", "read"}
Closing == {"drain", "release"}

\* Types of what the other parts do not determine.
BoolInv ==
  /\ status \in [trdy : BOOLEAN, rrdy : BOOLEAN]
  /\ SSO_reg \in BOOLEAN /\ RRDY \in BOOLEAN

BaseInv ==
  /\ outcome \in [slave : Nat, sent : Seq(Nat), got : Seq(Nat)]
  /\ pc \in PCs
  /\ credits \in Int /\ credits >= -1024
  /\ written \in Nat /\ read_ignore \in Nat /\ read_data \in Seq(Nat)
  /\ select_holding \in Nat /\ select_reg \in Nat
  /\ rx_holding \in Register
  /\ pc = "idle" => call = NoCall
  /\ pc # "idle" => call \in Calls

\* The routine's counts: what was written is what came back, or one byte more.
CountInv ==
  pc # "idle" =>
    /\ read_ignore <= call.write
    /\ Len(read_data) <= call.read
    /\ read_ignore > 0 => Len(read_data) = 0
    /\ read_data = Got(call, Len(read_data))
    /\ written <= All
    /\ written = Received \/ written = Received + 1
    /\ credits = 1 - (written - Received)
    /\ pc \in Opening => written = 0 /\ Received = 0
    /\ pc \in Loop => Received < All
    /\ pc \in Closing => Received = All

\* The byte under way: waiting, being exchanged, or exchanged and not yet taken.
Nowhere == tx_holding = <<>> /\ shift = <<>> /\ (pc \in Loop \cup Closing => ~RRDY)
InHolding == tx_holding = <<ByteOf(call, written)>> /\ shift = <<>> /\ ~RRDY
InShift == tx_holding = <<>> /\ shift = <<ByteOf(call, written)>> /\ ~RRDY
Returned == tx_holding = <<>> /\ shift = <<>> /\ RRDY /\ rx_holding = <<written>>

FlightInv ==
  IF pc \in Loop \cup Closing /\ written # Received
  THEN InHolding \/ InShift \/ Returned
  ELSE Nowhere

FrameInv ==
  frame = IF pc = "idle" THEN <<>>
          ELSE Sent(call, IF TMT THEN written ELSE written - 1)

SelectInv ==
  /\ pc \in {"idle", "slave_sel", "sso"} => ~SSO_reg
  /\ pc \notin {"idle", "slave_sel"} => select_holding = call.slave
  /\ pc \in {"discard"} \cup Loop \cup Closing => select_reg = call.slave

\* A byte seen ready at the poll is ready until it is taken.
StatusInv == pc \in {"write", "read"} /\ status.rrdy => RRDY

IInv ==
  /\ BoolInv /\ BaseInv /\ CountInv /\ FlightInv /\ FrameInv /\ SelectInv /\ StatusInv
  /\ ROE = FALSE /\ TOE = FALSE

-----------------------------------------------------------------------------
(***************************************************************************)
(* Facts about the sequences.                                              *)
(***************************************************************************)
LEMMA CallTypes ==
  ASSUME NEW c \in Calls
  PROVE  c.slave \in Nat /\ c.write \in Nat /\ c.write > 0 /\ c.read \in Nat
BY CallsOK

\* The bytes a slave is sent, one by one.
LEMMA SentFacts ==
  ASSUME NEW c, c.write \in Nat, NEW m \in Nat
  PROVE  /\ Sent(c, m) \in Seq(Nat) /\ Len(Sent(c, m)) = m
         /\ Sent(c, m) \o <<ByteOf(c, m + 1)>> = Sent(c, m + 1)
<1>1. Sent(c, m) \in Seq(Nat) /\ Len(Sent(c, m)) = m
  BY DEF Sent, ByteOf
<1>2. Sent(c, m + 1) \in Seq(Nat) /\ Len(Sent(c, m + 1)) = m + 1
  BY DEF Sent, ByteOf
<1>3. ByteOf(c, m + 1) \in Nat
  BY DEF ByteOf
<1>4. ASSUME NEW k \in 1 .. m + 1
      PROVE  (Sent(c, m) \o <<ByteOf(c, m + 1)>>)[k] = Sent(c, m + 1)[k]
  BY <1>1, <1>3 DEF Sent
<1>5. /\ Sent(c, m) \o <<ByteOf(c, m + 1)>> \in Seq(Nat)
      /\ Len(Sent(c, m) \o <<ByteOf(c, m + 1)>>) = m + 1
  BY <1>1, <1>3
<1>6. Sent(c, m) \o <<ByteOf(c, m + 1)>> = Sent(c, m + 1)
  BY <1>2, <1>4, <1>5, SeqEqual
<1>. QED
  BY <1>1, <1>6

\* The bytes a caller gets, one by one.
LEMMA GotFacts ==
  ASSUME NEW c, c.write \in Nat, NEW m \in Nat
  PROVE  /\ Got(c, m) \in Seq(Nat) /\ Len(Got(c, m)) = m
         /\ Got(c, m) \o <<c.write + m + 1>> = Got(c, m + 1)
<1>1. Got(c, m) \in Seq(Nat) /\ Len(Got(c, m)) = m
  BY DEF Got
<1>2. Got(c, m + 1) \in Seq(Nat) /\ Len(Got(c, m + 1)) = m + 1
  BY DEF Got
<1>3. ASSUME NEW k \in 1 .. m + 1
      PROVE  (Got(c, m) \o <<c.write + m + 1>>)[k] = Got(c, m + 1)[k]
  BY <1>1 DEF Got
<1>4. /\ Got(c, m) \o <<c.write + m + 1>> \in Seq(Nat)
      /\ Len(Got(c, m) \o <<c.write + m + 1>>) = m + 1
  BY <1>1
<1>5. Got(c, m) \o <<c.write + m + 1>> = Got(c, m + 1)
  BY <1>2, <1>3, <1>4, SeqEqual
<1>. QED
  BY <1>1, <1>5

\* Before the first byte there is none.
LEMMA NothingSent ==
  ASSUME NEW c, c.write \in Nat
  PROVE  Sent(c, 0) = <<>> /\ Got(c, 0) = <<>>
<1>1. Sent(c, 0) \in Seq(Nat) /\ Len(Sent(c, 0)) = 0
  BY SentFacts
<1>2. Got(c, 0) \in Seq(Nat) /\ Len(Got(c, 0)) = 0
  BY GotFacts
<1>. QED
  BY <1>1, <1>2, EmptySeq

-----------------------------------------------------------------------------
(***************************************************************************)
(* The invariant holds at the start, and no step ends it.                  *)
(***************************************************************************)
LEMMA Start == InitCommand => IInv
<1>. SUFFICES ASSUME InitCommand PROVE IInv
  OBVIOUS
<1>1. <<0>> \in Seq(Nat) /\ Len(<<0>>) = 1 /\ <<>> \in Seq(Nat)
  OBVIOUS
<1>2. <<0>> \in Register
  BY <1>1 DEF Register
<1>3. outcome \in [slave : Nat, sent : Seq(Nat), got : Seq(Nat)]
  BY <1>1 DEF InitCommand, Init
<1>4. BaseInv
  BY <1>1, <1>2, <1>3 DEF InitCommand, Init, BaseInv, PCs
<1>5. BoolInv
  BY DEF InitCommand, BoolInv
<1>. QED
  BY <1>4, <1>5 DEF InitCommand, Init, IInv, CountInv, FlightInv, Nowhere, FrameInv,
              SelectInv, StatusInv, Loop, Closing

\* A call begins when all is quiet.
LEMMA OnEnter == IInv /\ Enter => IInv'
<1>. SUFFICES ASSUME IInv, Enter PROVE IInv'
  OBVIOUS
<1>. USE DEF IInv, Enter, EnterWith, Call
<1>1. call' \in Calls /\ call'.write \in Nat /\ call'.read \in Nat /\ call'.write > 0
  BY CallTypes
<1>2. BaseInv' /\ BoolInv'
  BY <1>1 DEF BaseInv, BoolInv, PCs, selectVars, dataVars
<1>3. CountInv'
  BY <1>1, NothingSent DEF CountInv, Received, All, Opening, Loop, Closing
<1>4. FlightInv' /\ StatusInv'
  BY DEF FlightInv, StatusInv, Nowhere, Loop, Closing, dataVars
<1>5. FrameInv'
  BY <1>1, NothingSent DEF FrameInv, FlightInv, TMT, Nowhere, Loop, Closing, dataVars
<1>6. SelectInv'
  BY DEF SelectInv, Loop, Closing, selectVars
<1>. QED
  BY <1>2, <1>3, <1>4, <1>5, <1>6 DEF dataVars

\* The steps that move nothing: the counts, the byte under way and the frame stay.
Still ==
  /\ UNCHANGED <<call, outcome, credits, written, read_ignore, read_data,
                 tx_holding, shift, rx_holding, ROE, TOE, frame>>
  /\ RRDY' = IF pc = "discard" THEN FALSE ELSE RRDY
  /\ status' \in [trdy : BOOLEAN, rrdy : BOOLEAN]
  /\ (pc' \in {"write", "read"} /\ status'.rrdy => RRDY')
  /\ \/ pc \in Opening /\ pc' \in Opening
     \/ pc = "discard" /\ pc' = "poll"
     \/ pc \in Loop /\ pc' \in Loop
     \/ pc \in Closing /\ pc' \in Closing

\* A step of the routine that moves no byte.
LEMMA OnStill ==
  ASSUME IInv, Still, SSO_reg' \in BOOLEAN, select_holding' \in Nat,
         select_reg' \in Nat, SelectInv'
  PROVE  IInv'
<1>. USE DEF IInv, Still
<1>1. pc # "idle" /\ pc' # "idle" /\ call \in Calls
  BY DEF Opening, Loop, Closing, BaseInv
<1>2. call.write \in Nat /\ call.read \in Nat /\ call.write > 0
  BY <1>1, CallTypes
<1>3. BaseInv' /\ BoolInv'
  <2>1. BaseInv'
    BY <1>1 DEF BaseInv, PCs, Opening, Loop, Closing
  <2>2. BoolInv'
    BY DEF BoolInv
  <2>. QED
    BY <2>1, <2>2
<1>4. /\ Received' = Received /\ All' = All
      /\ Got(call, Len(read_data))' = Got(call, Len(read_data))
      /\ UNCHANGED <<call, written, frame, TMT>>
  BY DEF Received, All, Got, TMT
<1>5. CountInv'
  <2>1. written = 0 /\ Received = 0 => Received < All
    BY <1>2 DEF All
  <2>. QED
    BY <1>1, <1>4, <2>1 DEF CountInv, Opening, Loop, Closing
<1>6. FlightInv'
  <2>1. CASE pc \in Opening
    <3>1. written = Received /\ Nowhere
      BY <2>1, <1>1 DEF FlightInv, CountInv, Opening, Loop, Closing
    <3>. QED
      BY <2>1, <3>1, <1>4 DEF FlightInv, Nowhere, Opening, Loop, Closing
  <2>2. CASE pc \in Loop \cup Closing
    BY <2>2, <1>4 DEF FlightInv, Nowhere, InHolding, InShift, Returned, ByteOf,
                      Opening, Loop, Closing
  <2>. QED
    BY <2>1, <2>2, <1>1 DEF BaseInv, PCs, Opening, Loop, Closing
<1>7. FrameInv' /\ StatusInv'
  BY <1>1, <1>4 DEF FrameInv, StatusInv, Sent, ByteOf
<1>. QED
  BY <1>3, <1>5, <1>6, <1>7

\* Selecting, polling, and the polls after which nothing is moved.
LEMMA OnQuietSteps ==
  ASSUME IInv,
         \/ SelectSlave \/ ForceSelect \/ DiscardStale \/ PollStatus
         \/ SkipWrite \/ SkipRead \/ AwaitSent
  PROVE  IInv'
<1>. USE DEF IInv, selectVars, dataVars
<1>. select_holding \in Nat /\ select_reg \in Nat
  BY DEF BaseInv
<1>. SSO_reg \in BOOLEAN /\ status \in [trdy : BOOLEAN, rrdy : BOOLEAN]
  BY DEF BoolInv
<1>1. CASE SelectSlave
  <2>1. call.slave \in Nat
    BY <1>1, CallTypes DEF SelectSlave, BaseInv
  <2>2. Still
    BY <1>1 DEF SelectSlave, Still, Opening
  <2>3. SelectInv' /\ select_holding' \in Nat /\ UNCHANGED <<SSO_reg, select_reg>>
    BY <1>1, <2>1 DEF SelectSlave, SelectInv, Loop, Closing
  <2>. QED
    BY <2>2, <2>3, OnStill
<1>2. CASE ForceSelect
  <2>1. Still
    BY <1>2 DEF ForceSelect, Still, Opening
  <2>2. SelectInv' /\ SSO_reg' /\ select_reg' \in Nat /\ UNCHANGED select_holding
    BY <1>2 DEF ForceSelect, SelectInv, Loop, Closing
  <2>3. SSO_reg' \in BOOLEAN
    BY <1>2 DEF ForceSelect
  <2>. QED
    BY <2>1, <2>2, <2>3, OnStill
<1>3. ASSUME Still, UNCHANGED selectVars, pc' \in Loop \cup Closing,
             pc \in {"discard"} \cup Loop \cup Closing
      PROVE  IInv'
  <2>1. /\ pc' \notin {"idle", "slave_sel", "sso"}
        /\ UNCHANGED <<call, SSO_reg, select_holding, select_reg>>
    BY <1>3 DEF Still, Loop, Closing
  <2>2. select_holding = call.slave /\ select_reg = call.slave
    BY <1>3 DEF SelectInv, Loop, Closing
  <2>3. SelectInv'
    BY <2>1, <2>2 DEF SelectInv
  <2>. QED
    BY <1>3, <2>1, <2>3, OnStill
<1>4. CASE DiscardStale
  <2>1. Still
    BY <1>4 DEF DiscardStale, Discard, Still
  <2>. QED
    BY <1>3, <1>4, <2>1 DEF DiscardStale, Discard, Loop
<1>5. CASE PollStatus
  <2>1. status' \in [trdy : BOOLEAN, rrdy : BOOLEAN] /\ (status'.rrdy => RRDY')
    BY <1>5 DEF PollStatus, TRDY, BoolInv
  <2>2. Still
    BY <1>5, <2>1 DEF PollStatus, Still, Loop
  <2>. QED
    BY <1>3, <1>5, <2>2 DEF PollStatus, Loop
<1>6. CASE SkipWrite \/ SkipRead
  <2>1. Still
    BY <1>6 DEF SkipWrite, SkipRead, Still, Loop, StatusInv
  <2>. QED
    BY <1>3, <1>6, <2>1 DEF SkipWrite, SkipRead, Loop
<1>7. CASE AwaitSent
  <2>1. Still
    BY <1>7 DEF AwaitSent, Still, Closing
  <2>. QED
    BY <1>3, <1>7, <2>1 DEF AwaitSent, Closing
<1>. QED
  BY <1>1, <1>2, <1>4, <1>5, <1>6, <1>7

\* A byte is written only when none is under way.
LEMMA OnWriteByte == IInv /\ WriteByte => IInv'
<1>. SUFFICES ASSUME IInv, WriteByte PROVE IInv'
  OBVIOUS
<1>. USE DEF IInv
<1>1. /\ pc \in Loop /\ pc' \in Loop /\ call \in Calls /\ call' = call
      /\ call.write \in Nat /\ call.read \in Nat
  BY CallTypes DEF WriteByte, BaseInv, Loop
<1>2. written = Received /\ written < All
  <2>1. /\ written \in Nat /\ credits > 0 /\ Received < All
        /\ written = Received \/ written = Received + 1
        /\ credits = 1 - (written - Received)
    BY <1>1 DEF WriteByte, CountInv, BaseInv, Loop
  <2>2. Received \in Int
    BY <1>1 DEF Received, BaseInv
  <2>. QED
    BY <2>1, <2>2
<1>3. tx_holding = <<>> /\ shift = <<>> /\ ~RRDY
  BY <1>1, <1>2 DEF FlightInv, Nowhere
<1>4. /\ credits' = credits - 1 /\ written' = written + 1
      /\ tx_holding' = <<ByteOf(call, written')>> /\ TOE' = FALSE /\ ROE' = FALSE
      /\ UNCHANGED <<call, outcome, status, read_ignore, read_data, selectVars, shift,
                     rx_holding, RRDY, ROE, frame>>
  BY <1>2, <1>3 DEF WriteByte, TRDY, All
<1>5. Received' = Received /\ All' = All
  BY <1>4 DEF Received, All
<1>6. BaseInv' /\ BoolInv'
  <2>1. BaseInv'
    <3>1. /\ credits \in Int /\ credits > 0 /\ written \in Nat /\ pc' = "read" /\ call' = call
          /\ UNCHANGED <<outcome, read_ignore, read_data, select_holding, select_reg, rx_holding>>
      BY <1>1, <1>4 DEF WriteByte, BaseInv, selectVars
    <3>2. credits' \in Int /\ credits' >= -1024 /\ written' \in Nat
      BY <3>1, <1>4
    <3>. QED
      BY <1>1, <3>1, <3>2 DEF BaseInv, PCs, Loop
  <2>2. BoolInv'
    BY <1>4 DEF BoolInv, selectVars
  <2>. QED
    BY <2>1, <2>2
<1>7. CountInv'
  <2>1. Received \in Int /\ All \in Int
    BY <1>1 DEF Received, All, BaseInv
  <2>. QED
    BY <1>1, <1>2, <1>4, <1>5, <2>1 DEF CountInv, Got, Loop, Opening, Closing, WriteByte
<1>8. FlightInv'
  BY <1>1, <1>2, <1>3, <1>4, <1>5 DEF FlightInv, InHolding, ByteOf, BaseInv
<1>9. FrameInv'
  BY <1>1, <1>3, <1>4 DEF FrameInv, TMT, Sent, ByteOf, Loop, WriteByte, BaseInv
<1>10. SelectInv' /\ StatusInv'
  BY <1>3, <1>4 DEF SelectInv, StatusInv, Loop, Closing, WriteByte, selectVars
<1>. QED
  BY <1>4, <1>6, <1>7, <1>8, <1>9, <1>10

\* A byte is taken only if it is the one under way.
LEMMA OnTakeByte == IInv /\ TakeByte => IInv'
<1>. SUFFICES ASSUME IInv, TakeByte PROVE IInv'
  OBVIOUS
<1>. USE DEF IInv
<1>1. /\ pc = "read" /\ status.rrdy /\ ~RRDY' /\ credits' = credits + 1
      /\ read_ignore' = IF read_ignore > 0 THEN read_ignore - 1 ELSE 0
      /\ read_data' = IF read_ignore > 0 THEN read_data ELSE read_data \o rx_holding
      /\ pc' = IF read_ignore' = 0 /\ Len(read_data') = call.read THEN "drain" ELSE "poll"
      /\ UNCHANGED <<call, outcome, status, written, selectVars, tx_holding, shift,
                     rx_holding, ROE, TOE, frame>>
  BY DEF TakeByte, TakeLeaving
<1>2. /\ RRDY /\ call \in Calls
      /\ call.write \in Nat /\ call.read \in Nat
  BY <1>1, CallTypes DEF BaseInv, StatusInv
<1>3. /\ read_ignore \in Nat /\ read_data \in Seq(Nat) /\ Len(read_data) \in Nat
      /\ written \in Nat /\ credits \in Int
  BY DEF BaseInv
<1>4. /\ read_ignore <= call.write /\ Len(read_data) <= call.read
      /\ read_ignore > 0 => Len(read_data) = 0
      /\ read_data = Got(call, Len(read_data))
      /\ written <= All /\ Received < All
      /\ written = Received \/ written = Received + 1
      /\ credits = 1 - (written - Received)
  BY <1>1 DEF CountInv, Loop
<1>5. written = Received + 1 /\ Returned
  BY <1>1, <1>2, <1>4 DEF FlightInv, Nowhere, InHolding, InShift, Loop
<1>6. rx_holding = <<written>> /\ tx_holding = <<>> /\ shift = <<>>
  BY <1>5 DEF Returned
<1>7. /\ Received = call.write - read_ignore + Len(read_data)
      /\ Received' = call.write - read_ignore' + Len(read_data')
      /\ All = call.write + call.read /\ All' = All
      /\ Received \in Int /\ All \in Int /\ credits' = 1
  <2>1. /\ Received = call.write - read_ignore + Len(read_data)
        /\ Received' = call.write - read_ignore' + Len(read_data')
        /\ All = call.write + call.read /\ All' = All
    BY <1>1 DEF Received, All
  <2>2. Received \in Int /\ All \in Int
    BY <2>1, <1>2, <1>3
  <2>. QED
    BY <2>1, <2>2, <1>1, <1>4, <1>5
<1>8. /\ Received' = Received + 1 /\ read_data' = Got(call, Len(read_data'))
      /\ read_data' \in Seq(Nat) /\ read_ignore' \in Nat /\ read_ignore' <= call.write
      /\ Len(read_data') <= call.read /\ (read_ignore' > 0 => Len(read_data') = 0)
  <2>1. CASE read_ignore > 0
    <3>1. read_ignore' = read_ignore - 1 /\ read_data' = read_data
      BY <1>1, <2>1
    <3>2. Len(read_data) = 0
      BY <1>4, <2>1
    <3>3. Received' = Received + 1
      BY <1>2, <1>3, <1>7, <3>1
    <3>4. read_ignore' <= call.write
      BY <1>2, <1>3, <1>4, <2>1, <3>1
    <3>5. /\ Len(read_data') = Len(read_data) /\ read_data' \in Seq(Nat)
          /\ read_data' = Got(call, Len(read_data'))
      BY <1>3, <1>4, <3>1
    <3>6. read_ignore' \in Nat
      BY <1>3, <2>1, <3>1
    <3>. QED
      BY <1>3, <1>4, <3>2, <3>3, <3>4, <3>5, <3>6
  <2>2. CASE read_ignore = 0
    <3>. PICK kept \in Nat : kept = Len(read_data)
      BY <1>3
    <3>1. read_ignore' = 0 /\ read_data' = read_data \o <<written>>
      BY <1>1, <1>6, <2>2
    <3>2. written = call.write + kept + 1 /\ kept < call.read
      <4>1. call.write \in Nat /\ call.read \in Nat
        BY <1>2
      <4>2. written = Received + 1 /\ Received < All
        BY <1>4, <1>5
      <4>3. Received = call.write + kept /\ All = call.write + call.read
        BY <1>7, <2>2, <4>1
      <4>. QED
        BY <4>1, <4>2, <4>3
    <3>3. Got(call, kept) \o <<call.write + kept + 1>> = Got(call, kept + 1)
      BY <1>2, GotFacts
    <3>4. Got(call, kept + 1) \in Seq(Nat) /\ Len(Got(call, kept + 1)) = kept + 1
      <4>1. kept + 1 \in Nat
        OBVIOUS
      <4>. QED
        BY <1>2, <4>1, GotFacts
    <3>5. read_data' = Got(call, kept + 1)
      BY <1>4, <3>1, <3>2, <3>3
    <3>6. Len(read_data') = kept + 1
      BY <3>4, <3>5
    <3>7. Received' = Received + 1
      <4>1. Received' = call.write + (kept + 1) /\ Received = call.write + kept
        BY <1>2, <1>7, <2>2, <3>1, <3>6
      <4>. QED
        BY <1>2, <4>1
    <3>8. kept + 1 <= call.read
      BY <1>2, <3>2
    <3>9. read_data' = Got(call, Len(read_data')) /\ read_data' \in Seq(Nat)
      BY <3>4, <3>5, <3>6
    <3>. QED
      BY <1>2, <3>1, <3>6, <3>7, <3>8, <3>9
  <2>. QED
    BY <2>1, <2>2, <1>3
<1>9. \/ pc' = "drain" /\ Received' = All
      \/ pc' = "poll" /\ Received' < All
  <2>1. Len(read_data') \in Nat
    BY <1>8
  <2>2. CASE read_ignore' = 0 /\ Len(read_data') = call.read
    BY <2>2, <1>1, <1>2, <1>7
  <2>3. CASE read_ignore' # 0
    <3>1. call.write \in Nat /\ call.read \in Nat
      BY <1>2
    <3>2. read_ignore' \in Nat /\ read_ignore' > 0 /\ Len(read_data') = 0
      BY <1>8, <2>3
    <3>3. pc' = "poll"
      BY <1>1, <2>3
    <3>4. Received' = call.write - read_ignore' /\ All = call.write + call.read
      BY <1>7, <3>1, <3>2
    <3>5. Received' < All
      BY <3>1, <3>2, <3>4
    <3>. QED
      BY <1>7, <3>3, <3>5
  <2>4. CASE read_ignore' = 0 /\ Len(read_data') # call.read
    BY <2>1, <2>4, <1>1, <1>2, <1>7, <1>8
  <2>. QED
    BY <2>2, <2>3, <2>4
<1>10. BaseInv'
  BY <1>1, <1>2, <1>7, <1>8, <1>9 DEF BaseInv, PCs, selectVars
<1>11. BoolInv'
  <2>1. RRDY' = FALSE /\ status' = status /\ SSO_reg' = SSO_reg
    BY DEF TakeByte, TakeLeaving, selectVars
  <2>. QED
    BY <2>1 DEF BoolInv
<1>12. CountInv'
  <2>1. written' = Received' /\ written' <= All' /\ call' = call
    BY <1>1, <1>4, <1>5, <1>7, <1>8
  <2>2. credits' = 1 - (written' - Received')
    <3>1. Received' \in Int
      BY <1>7, <1>8
    <3>. QED
      BY <2>1, <3>1, <1>7
  <2>3. Got(call, Len(read_data))' = Got(call, Len(read_data'))
    BY <2>1 DEF Got
  <2>. QED
    BY <2>1, <2>2, <2>3, <1>7, <1>8, <1>9 DEF CountInv, Opening, Loop, Closing
<1>13. FlightInv' /\ StatusInv'
  <2>1. written' = Received'
    BY <1>1, <1>5, <1>8
  <2>2. RRDY' = FALSE /\ tx_holding' = <<>> /\ shift' = <<>>
    BY <1>6 DEF TakeByte, TakeLeaving
  <2>3. FlightInv'
    BY <2>1, <2>2 DEF FlightInv, Nowhere
  <2>. QED
    BY <2>3, <1>9 DEF StatusInv
<1>14. FrameInv'
  BY <1>1, <1>9 DEF FrameInv, TMT, Sent, ByteOf
<1>15. SelectInv'
  BY <1>1, <1>9 DEF SelectInv, selectVars, Loop, Closing
<1>. QED
  BY <1>1, <1>10, <1>11, <1>12, <1>13, <1>14, <1>15

\* When everything is back, the slave has been sent the whole of the call.
LEMMA AtRelease ==
  ASSUME IInv, pc = "release"
  PROVE  /\ call \in Calls /\ Nowhere
         /\ frame = Sent(call, All) /\ read_data = Got(call, call.read)
         /\ select_reg = call.slave
<1>. USE DEF IInv
<1>1. /\ call \in Calls /\ call.write \in Nat /\ call.read \in Nat
      /\ read_ignore \in Nat /\ Len(read_data) \in Nat /\ written \in Nat
  BY CallTypes DEF BaseInv
<1>2. /\ Received = All /\ written <= All
      /\ (written = Received \/ written = Received + 1)
      /\ read_ignore <= call.write /\ Len(read_data) <= call.read
      /\ read_data = Got(call, Len(read_data))
  BY DEF CountInv, Closing
<1>3. /\ Received = call.write - read_ignore + Len(read_data)
      /\ All = call.write + call.read
  BY DEF Received, All
<1>4. written = Received /\ Len(read_data) = call.read
  <2>. HIDE DEF IInv
  <2>1. Received \in Int /\ All \in Int
    BY <1>1, <1>3
  <2>2. written = Received
    BY <1>1, <1>2, <2>1
  <2>3. call.write - read_ignore + Len(read_data) = call.write + call.read
    BY <1>2, <1>3
  <2>4. Len(read_data) <= call.read
    BY <1>2
  <2>5. Len(read_data) = call.read
    BY <1>1, <2>3, <2>4
  <2>. QED
    BY <2>2, <2>5
<1>5. Nowhere
  BY <1>4 DEF FlightInv
<1>6. frame = Sent(call, All)
  BY <1>2, <1>4, <1>5 DEF FrameInv, TMT, Nowhere
<1>7. read_data = Got(call, call.read)
  <2>. HIDE DEF IInv
  <2>. QED
    BY <1>2, <1>4
<1>. QED
  BY <1>1, <1>5, <1>6, <1>7 DEF SelectInv, Closing

\* The slave is released after the last byte.
LEMMA OnRelease == IInv /\ Release => IInv'
<1>. SUFFICES ASSUME IInv, Release PROVE IInv'
  OBVIOUS
<1>. USE DEF IInv, Release
<1>1. /\ call \in Calls /\ Nowhere /\ read_data \in Seq(Nat) /\ select_reg \in Nat
      /\ call.write \in Nat /\ call.read \in Nat /\ frame = Sent(call, All)
  BY AtRelease, CallTypes DEF BaseInv
<1>2. frame \in Seq(Nat)
  <2>1. call.write + call.read \in Nat
    BY <1>1
  <2>. QED
    BY <1>1, <2>1, SentFacts DEF All
<1>3. BaseInv'
  BY <1>1, <1>2 DEF BaseInv, PCs
<1>4. BoolInv'
  BY DEF BoolInv
<1>5. CountInv' /\ SelectInv' /\ StatusInv' /\ FrameInv'
  BY DEF CountInv, SelectInv, StatusInv, FrameInv, Loop, Closing
<1>6. FlightInv'
  BY <1>1 DEF FlightInv, Nowhere, Loop, Closing
<1>. QED
  BY <1>3, <1>4, <1>5, <1>6

\* A byte in the holding register is the one under way.
LEMMA OnLoad == IInv /\ Load => IInv'
<1>. SUFFICES ASSUME IInv, Load PROVE IInv'
  OBVIOUS
<1>. USE DEF IInv
<1>1. /\ tx_holding # <<>> /\ shift = <<>> /\ shift' = tx_holding /\ tx_holding' = <<>>
      /\ select_reg' = select_holding
      /\ UNCHANGED <<call, outcome, pc, status, credits, written, read_ignore, read_data,
                     SSO_reg, select_holding, rx_holding, RRDY, ROE, TOE, frame>>
  BY DEF Load, cpuVars
<1>2. pc \in Loop \cup Closing /\ written # Received /\ InHolding
  BY <1>1 DEF FlightInv, Nowhere, InShift, Returned
<1>3. InShift'
  BY <1>1, <1>2 DEF InHolding, InShift, ByteOf
<1>4. Received' = Received /\ All' = All
  BY <1>1 DEF Received, All
<1>5. FlightInv'
  BY <1>1, <1>2, <1>3, <1>4 DEF FlightInv
<1>6. BaseInv' /\ BoolInv'
  <2>1. BaseInv'
    BY <1>1 DEF BaseInv
  <2>2. BoolInv'
    BY <1>1 DEF BoolInv
  <2>. QED
    BY <2>1, <2>2
<1>7. CountInv'
  BY <1>1, <1>4 DEF CountInv, Got
<1>8. FrameInv'
  <2>1. ~TMT /\ ~TMT'
    BY <1>1 DEF TMT
  <2>. QED
    BY <1>1, <2>1 DEF FrameInv, Sent, ByteOf
<1>9. SelectInv'
  BY <1>1, <1>2 DEF SelectInv, Loop, Closing
<1>10. StatusInv'
  BY <1>1 DEF StatusInv
<1>. QED
  BY <1>1, <1>5, <1>6, <1>7, <1>8, <1>9, <1>10

\* A byte comes back only when the last one has been taken.
LEMMA OnExchange == IInv /\ Exchange => IInv'
<1>. SUFFICES ASSUME IInv, Exchange PROVE IInv'
  OBVIOUS
<1>. USE DEF IInv
<1>1. /\ shift # <<>> /\ shift' = <<>> /\ frame' = frame \o shift
      /\ rx_holding' = <<Len(frame) + 1>> /\ RRDY' = TRUE
      /\ UNCHANGED <<call, outcome, pc, status, credits, written, read_ignore, read_data,
                     SSO_reg, select_holding, select_reg, tx_holding, TOE>>
  BY DEF Exchange, cpuVars, selectVars
<1>2. pc \in Loop \cup Closing /\ written # Received /\ InShift
  BY <1>1 DEF FlightInv, Nowhere, InHolding, Returned
<1>3. ROE' = FALSE
  BY <1>2 DEF Exchange, InShift
<1>4. /\ pc # "idle" /\ call \in Calls /\ call.write \in Nat
      /\ read_ignore \in Nat /\ Len(read_data) \in Nat /\ written \in Nat
  BY <1>2, CallTypes DEF BaseInv, Loop, Closing
<1>5. written = Received + 1 /\ read_ignore <= call.write
  BY <1>2, <1>4 DEF CountInv
<1>6. PICK sent \in Nat : written = sent + 1
  <2>1. Received = call.write - read_ignore + Len(read_data)
    BY DEF Received
  <2>2. Received \in Nat
    BY <2>1, <1>4, <1>5
  <2>. QED
    BY <2>2, <1>5
<1>7. frame = Sent(call, sent) /\ shift = <<ByteOf(call, sent + 1)>>
  <2>1. ~TMT
    BY <1>1 DEF TMT
  <2>2. written - 1 = sent
    BY <1>6
  <2>3. frame = Sent(call, written - 1)
    BY <1>4, <2>1 DEF FrameInv
  <2>4. shift = <<ByteOf(call, written)>>
    BY <1>2 DEF InShift
  <2>. QED
    BY <1>6, <2>2, <2>3, <2>4
<1>8. frame' = Sent(call, written) /\ rx_holding' = <<written>>
  BY <1>1, <1>4, <1>6, <1>7, SentFacts
<1>9. Received' = Received /\ All' = All
  BY <1>1 DEF Received, All
<1>10. Returned'
  BY <1>1, <1>2, <1>8 DEF InShift, Returned
<1>11. FlightInv'
  BY <1>1, <1>2, <1>9, <1>10 DEF FlightInv
<1>12. BaseInv' /\ BoolInv'
  <2>1. rx_holding' \in Register
    BY <1>4, <1>8 DEF Register
  <2>2. BaseInv'
    BY <1>1, <2>1 DEF BaseInv
  <2>3. BoolInv'
    BY <1>1 DEF BoolInv
  <2>. QED
    BY <2>2, <2>3
<1>13. CountInv'
  BY <1>1, <1>9 DEF CountInv, Got
<1>14. FrameInv'
  <2>1. TMT'
    BY <1>1, <1>2 DEF TMT, InShift
  <2>. QED
    BY <1>1, <1>4, <1>8, <2>1 DEF FrameInv, Sent, ByteOf
<1>15. SelectInv'
  BY <1>1 DEF SelectInv
<1>16. StatusInv'
  BY <1>1 DEF StatusInv
<1>. QED
  BY <1>1, <1>3, <1>11, <1>12, <1>13, <1>14, <1>15, <1>16

\* Nothing changes.
LEMMA OnStutter == IInv /\ UNCHANGED vars => IInv'
<1>. SUFFICES ASSUME IInv, UNCHANGED vars PROVE IInv'
  OBVIOUS
<1>. USE DEF vars, cpuVars, selectVars, dataVars
<1>1. BoolInv'
  BY DEF IInv, BoolInv
<1>2. BaseInv' /\ CountInv'
  BY DEF IInv, BaseInv, CountInv, Received, All, Got
<1>3. FlightInv'
  BY DEF IInv, FlightInv, Nowhere, InHolding, InShift, Returned, Received, ByteOf
<1>4. FrameInv' /\ SelectInv' /\ StatusInv'
  BY DEF IInv, FrameInv, SelectInv, StatusInv, TMT, Sent, ByteOf
<1>. QED
  BY <1>1, <1>2, <1>3, <1>4 DEF IInv

\* Every step keeps the invariant.
LEMMA Inductive == IInv /\ [NextCommand]_vars => IInv'
<1>1. IInv /\ Routine => IInv'
  BY OnQuietSteps, OnWriteByte, OnTakeByte, OnRelease DEF Routine
<1>. QED
  BY <1>1, OnEnter, OnLoad, OnExchange, OnStutter DEF NextCommand

\* The types are a part of it.
LEMMA Typed == IInv => TypeOK
<1>. SUFFICES ASSUME IInv PROVE TypeOK
  OBVIOUS
<1>. USE DEF IInv
<1>1. /\ call \in Calls \cup {NoCall} /\ pc \in PCs
      /\ outcome \in [slave : Nat, sent : Seq(Nat), got : Seq(Nat)]
      /\ credits \in Int /\ credits >= -1024
      /\ written \in Nat /\ read_ignore \in Nat /\ read_data \in Seq(Nat)
      /\ select_holding \in Nat /\ select_reg \in Nat /\ rx_holding \in Register
  BY DEF BaseInv
<1>2. status \in [trdy : BOOLEAN, rrdy : BOOLEAN] /\ SSO_reg \in BOOLEAN /\ RRDY \in BOOLEAN
  BY DEF BoolInv
<1>3. tx_holding \in Register /\ shift \in Register
  <2>1. ByteOf(call, written) \in Nat
    BY <1>1 DEF ByteOf
  <2>2. <<>> \in Register /\ <<ByteOf(call, written)>> \in Register
    BY <2>1 DEF Register
  <2>. QED
    BY <2>2 DEF FlightInv, Nowhere, InHolding, InShift, Returned
<1>4. frame \in Seq(Nat)
  <2>1. CASE pc = "idle"
    BY <2>1 DEF FrameInv
  <2>2. CASE pc # "idle"
    <3>1. call \in Calls /\ call.write \in Nat
      BY <2>2, CallTypes DEF BaseInv
    <3>2. TMT \/ written - 1 \in Nat
      <4>1. CASE Nowhere
        BY <4>1 DEF Nowhere, TMT
      <4>2. CASE ~Nowhere
        <5>1. written # Received
          BY <4>2 DEF FlightInv
        <5>2. written = Received + 1 /\ read_ignore <= call.write
          BY <2>2, <5>1 DEF CountInv
        <5>3. Received = call.write - read_ignore + Len(read_data)
          BY DEF Received
        <5>. QED
          BY <1>1, <3>1, <5>2, <5>3
      <4>. QED
        BY <4>1, <4>2
    <3>3. CASE TMT
      BY <2>2, <3>1, <3>3, <1>1, SentFacts DEF FrameInv
    <3>4. CASE ~TMT
      BY <2>2, <3>1, <3>2, <3>4, SentFacts DEF FrameInv
    <3>. QED
      BY <3>3, <3>4
  <2>. QED
    BY <2>1, <2>2
<1>5. ROE \in BOOLEAN /\ TOE \in BOOLEAN
  OBVIOUS
<1>. QED
  BY <1>1, <1>2, <1>3, <1>4, <1>5 DEF TypeOK

-----------------------------------------------------------------------------
(***************************************************************************)
(* The theorems.                                                           *)
(***************************************************************************)
\* IInv holds in every reachable state, for any set of calls.
THEOREM Invariant == SpecCommand => []IInv
<1>. QED
  BY Start, Inductive, PTL DEF SpecCommand

\* Every variable of the routine and the master has its type.
THEOREM TypesHold == SpecCommand => []TypeOK
<1>. QED
  BY Invariant, Typed, PTL

\* However the routine's polls and the master's steps interleave, no byte is
\* written over and none comes back before the last one was taken.
THEOREM NothingIsLost == SpecCommand => []NothingLost
<1>1. IInv => NothingLost
  BY DEF IInv, NothingLost
<1>. QED
  BY <1>1, Invariant, PTL

\* alt_avalon_spi_command implements the transfer its callers rely on: the
\* routine's end is the transfer, its start the call, and every other step a
\* stutter.
THEOREM Refines == SpecCommand => TransfersAreWhole
<1>1. InitCommand => Init
  BY DEF InitCommand
<1>2. IInv /\ [NextCommand]_vars => [Next]_<<call, outcome>>
  <2>. SUFFICES ASSUME IInv, [NextCommand]_vars
                PROVE  [Next]_<<call, outcome>>
    OBVIOUS
  <2>1. CASE Enter
    BY <2>1 DEF Enter, EnterWith, Next
  <2>2. CASE Release
    <3>1. /\ call \in Calls /\ frame = Sent(call, All)
          /\ read_data = Got(call, call.read) /\ select_reg = call.slave
      BY <2>2, AtRelease DEF Release
    <3>2. call # NoCall
      BY <3>1, CallTypes DEF NoCall
    <3>3. frame = SentIn(call) /\ read_data = GotIn(call)
      BY <3>1 DEF Sent, SentIn, Got, GotIn, All
    <3>. QED
      BY <2>2, <3>1, <3>2, <3>3 DEF Release, Next, Transfer
  <2>3. CASE Routine /\ ~Release
    BY <2>3 DEF Routine, SelectSlave, ForceSelect, DiscardStale, Discard, PollStatus,
                WriteByte, SkipWrite, TakeByte, TakeLeaving, SkipRead, AwaitSent
  <2>4. CASE Load \/ Exchange
    BY <2>4 DEF Load, Exchange, cpuVars
  <2>5. CASE UNCHANGED vars
    BY <2>5 DEF vars, cpuVars
  <2>. QED
    BY <2>1, <2>2, <2>3, <2>4, <2>5 DEF NextCommand
<1>. QED
  BY <1>1, <1>2, Invariant, PTL DEF SpecCommand, TransfersAreWhole, Safety
=============================================================================
