---------------------------- MODULE LossFlagProofs ----------------------------
(***************************************************************************)
(* Proofs about LossFlag for every ratio of the two clocks.                *)
(*                                                                         *)
(* That the flag is not taken down too early (ReportedBeforeCleared) needs *)
(* nothing of the packets.  That a loss is told once (OneReportPerLoss)    *)
(* needs the headers far enough apart, by what the two synchronisers take. *)
(* SpacedOut says how far; TLC violates the property for Ratio = 2 with    *)
(* one receive clock less in any of its three parts.                       *)
(***************************************************************************)
EXTENDS LossFlag, TLAPS

\* The transmit clock sees the header flag high in each packet and low between
\* two of them, and the flag has fallen before the next header.
SpacedOut ==
  /\ PctClocks >= Ratio - 1
  /\ GapClocks >= Ratio - 1
  /\ PctClocks + GapClocks >= 3 * Ratio + 1

-----------------------------------------------------------------------------
(***************************************************************************)
(* The inductive invariants.                                               *)
(***************************************************************************)

\* Receive ticks that may come before the next transmit tick, transmit ticks
\* since the last receive tick, receive ticks before the next header.
RxLeft == IF ticks < 0 THEN Ratio + ticks ELSE Ratio
TxTicks == IF ticks > 0 THEN ticks ELSE 0
ToHeader == IF in_pct THEN dwell + 1 + GapClocks ELSE dwell

\* How old a header is at most, by how far its clear has come.
HeaderAgeInv ==
  /\ in_pct /\ ~pct_hdr_captured => hdr_age <= TxTicks
  /\ pct_hdr_captured /\ ~clr_sync[1] => hdr_age <= Ratio
  /\ clr_sync[1] /\ ~clr_sync[2] => hdr_age <= Ratio + 1
  /\ clr_sync[2] /\ ~clr_sync_reg => hdr_age <= Ratio + 2

\* How long the flag is up at most, by how far the news has come: to the receive
\* clock's synchroniser, or past a header that did not tell.
LossAgeInv ==
  pct_loss_flg =>
    /\ ~loss_sync[1] => loss_age < TxTicks
    /\ ~loss_sync[2] => loss_age <= Ratio - 1 + TxTicks
    /\ ~told /\ hdr_age <= HdrWindow => loss_age <= 2 * Ratio - 1 + hdr_age

\* pct_hdr_captured follows in_pct by a clock; a value of it that the transmit
\* clock has not sampled is no older than the receive ticks since its last tick.
DwellInv == dwell <= (IF in_pct THEN PctClocks ELSE GapClocks)

SampledInv ==
  /\ in_pct /\ ~pct_hdr_captured => dwell = PctClocks
  /\ ~in_pct /\ pct_hdr_captured => dwell = GapClocks
  /\ pct_hdr_captured /\ ~clr_sync[1] =>
       -ticks >= IF in_pct THEN PctClocks - dwell ELSE PctClocks + 1
  /\ ~pct_hdr_captured /\ clr_sync[1] =>
       -ticks >= IF in_pct THEN GapClocks + 1 ELSE GapClocks - dwell

\* A flag that is up although the loss was told is about to be cleared, in time
\* for its fall to be seen before the next header.
ClearComing ==
  \/ in_pct /\ ~pct_hdr_captured
  \/ pct_hdr_captured /\ ~clr_sync[1] /\ ToHeader >= RxLeft + 2 * Ratio + 2
  \/ clr_sync[1] /\ ~clr_sync[2] /\ ToHeader >= RxLeft + Ratio + 2
  \/ clr_sync[2] /\ ~clr_sync_reg /\ ToHeader >= RxLeft + 2

ToldInv ==
  ~fresh =>
    /\ pct_loss_flg => ClearComing
    /\ ~pct_loss_flg => /\ loss_sync[1] => ToHeader >= 2
                        /\ loss_sync[2] => ToHeader >= 1

WindowInv == TypeOK /\ HeaderAgeInv /\ LossAgeInv
ReportInv == TypeOK /\ DwellInv /\ SampledInv /\ ToldInv

-----------------------------------------------------------------------------
(***************************************************************************)
(* Types.                                                                  *)
(***************************************************************************)

\* TypeOK, a variable at a time.
TypesOf ==
  /\ in_pct_clr_flag \in BOOLEAN /\ in_pct_clr_flag_reg \in BOOLEAN
  /\ pct_loss_flg \in BOOLEAN /\ clr_sync_reg \in BOOLEAN
  /\ in_pct \in BOOLEAN /\ pct_hdr_captured \in BOOLEAN
  /\ txpct_loss_clr \in BOOLEAN /\ fresh \in BOOLEAN /\ told \in BOOLEAN
  /\ clr_sync \in BOOLEAN \X BOOLEAN /\ loss_sync \in BOOLEAN \X BOOLEAN
  /\ dwell \in (0 .. PctClocks) \cup (0 .. GapClocks) /\ ticks \in -Ratio .. Ratio
  /\ hdr_age \in 0 .. HdrWindow + 1 /\ loss_age \in 0 .. LossWindow + 1
  /\ cmd_age \in 0 .. Settle + 1

\* TypesOf is TypeOK.
LEMMA TypesUnfold == TypeOK <=> TypesOf
BY DEF TypeOK, TypesOf

\* An age saturates one above its limit, and grows by one until then.
LEMMA OlderAge ==
  ASSUME NEW limit \in Nat, NEW age \in 0 .. limit + 1
  PROVE  /\ Older(age, limit) \in 0 .. limit + 1
         /\ age <= limit => Older(age, limit) = age + 1
         /\ Older(age, limit) <= limit => age <= limit
         /\ Older(age, limit) <= age + 1
BY DEF Older

\* The windows are natural numbers.
LEMMA WindowsAreNat ==
  /\ HdrWindow \in Nat /\ LossWindow \in Nat /\ Settle \in Nat
  /\ LossWindow = HdrWindow + 2 * Ratio - 1
BY ConstantsOK DEF ConstantsOK, HdrWindow, LossWindow

\* A transmit clock keeps the types.
LEMMA TxClockTypes ==
  ASSUME TypesOf, TxClock
  PROVE  TypesOf'
<1>1. /\ hdr_age' \in 0 .. HdrWindow + 1
      /\ loss_age' \in 0 .. LossWindow + 1
      /\ cmd_age' \in 0 .. Settle + 1
  <2>1. /\ Older(hdr_age, HdrWindow) \in 0 .. HdrWindow + 1
        /\ Older(loss_age, LossWindow) \in 0 .. LossWindow + 1
        /\ Older(cmd_age, Settle) \in 0 .. Settle + 1
    BY WindowsAreNat, OlderAge DEF TypesOf
  <2> QED  BY <2>1, WindowsAreNat DEF TxClock
<1>2. ticks' \in -Ratio .. Ratio
  BY ConstantsOK DEF ConstantsOK, TypesOf, TxClock
<1>3. clr_sync' \in BOOLEAN \X BOOLEAN /\ pct_loss_flg' \in BOOLEAN
  BY DEF TypesOf, TxClock
<1> QED  BY <1>1, <1>2, <1>3 DEF TypesOf, TxClock, rxVars

\* So do a receive clock,
LEMMA RxClockTypes ==
  ASSUME TypesOf, RxClock
  PROVE  TypesOf'
<1>1. ticks' \in -Ratio .. Ratio
  BY ConstantsOK DEF ConstantsOK, TypesOf, RxClock
<1>2. loss_sync' \in BOOLEAN \X BOOLEAN
  BY DEF TypesOf, RxClock
<1>3. /\ in_pct' \in BOOLEAN /\ told' \in BOOLEAN /\ fresh' \in BOOLEAN
      /\ dwell' \in (0 .. PctClocks) \cup (0 .. GapClocks)
      /\ hdr_age' \in 0 .. HdrWindow + 1
  <2>1. loss_sync[2] \in BOOLEAN /\ PctClocks \in Nat /\ GapClocks \in Nat
    BY ConstantsOK DEF ConstantsOK, TypesOf
  <2>2. CASE Capture
    <3>1. in_pct' \in BOOLEAN /\ fresh' \in BOOLEAN /\ told' \in BOOLEAN
      BY <2>1, <2>2 DEF Capture
    <3>2. dwell' \in 0 .. PctClocks /\ hdr_age' \in 0 .. HdrWindow + 1
      BY <2>1, <2>2, WindowsAreNat DEF Capture
    <3> QED  BY <3>1, <3>2
  <2>3. CASE PacketEnds
    <3>1. in_pct' \in BOOLEAN /\ fresh' = fresh /\ told' = told /\ hdr_age' = hdr_age
      BY <2>3 DEF PacketEnds
    <3>2. dwell' \in 0 .. GapClocks
      BY <2>1, <2>3 DEF PacketEnds
    <3> QED  BY <3>1, <3>2 DEF TypesOf
  <2>4. CASE Dwell
    <3>1. in_pct' = in_pct /\ fresh' = fresh /\ told' = told /\ hdr_age' = hdr_age
      BY <2>4 DEF Dwell
    <3>2. dwell' \in (0 .. PctClocks) \cup (0 .. GapClocks)
      BY <2>1, <2>4 DEF Dwell, TypesOf
    <3> QED  BY <3>1, <3>2 DEF TypesOf
  <2> QED  BY <2>2, <2>3, <2>4 DEF RxClock
<1> QED  BY <1>1, <1>2, <1>3 DEF TypesOf, RxClock, txVars

\* and the host's write.
LEMMA WriteClrTypes ==
  ASSUME TypesOf, WriteClr
  PROVE  TypesOf'
BY WindowsAreNat DEF TypesOf, WriteClr, txVars, rxVars

\* A step leaves the types as they are.
LEMMA StepKeepsTypes ==
  ASSUME TypeOK, [Next]_vars
  PROVE  TypeOK'
<1> USE TypesUnfold
<1>1. CASE TxClock  BY <1>1, TxClockTypes DEF TypeOK, TypesOf
<1>2. CASE RxClock  BY <1>2, RxClockTypes DEF TypeOK, TypesOf
<1>3. CASE WriteClr  BY <1>3, WriteClrTypes DEF TypeOK, TypesOf
<1>4. CASE UNCHANGED vars
  BY <1>4 DEF TypeOK, vars, txVars, rxVars, history
<1> QED  BY <1>1, <1>2, <1>3, <1>4 DEF Next

\* The numbers the other lemmas reckon with.
LEMMA NumbersOf ==
  ASSUME TypeOK
  PROVE  /\ Ratio \in Nat /\ Ratio >= 1 /\ PctClocks \in Nat /\ GapClocks \in Nat
         /\ ticks \in Int /\ -Ratio <= ticks /\ ticks <= Ratio
         /\ dwell \in Nat /\ hdr_age \in Nat /\ loss_age \in Nat
BY ConstantsOK, WindowsAreNat, TypesUnfold DEF ConstantsOK, TypesOf

\* What a transmit clock does to the ages, the ticks and the synchroniser.
LEMMA TxClockNumbers ==
  ASSUME TypeOK, TxClock
  PROVE  /\ ticks < Ratio /\ ticks' = IF ticks > 0 THEN ticks + 1 ELSE 1
         /\ hdr_age' \in Nat /\ hdr_age' <= hdr_age + 1
         /\ hdr_age' <= HdrWindow => hdr_age' = hdr_age + 1
         /\ loss_age' \in Nat /\ loss_age' <= loss_age + 1
         /\ ~pct_loss_flg => loss_age' = 0
         /\ clr_sync'[1] <=> pct_hdr_captured
         /\ clr_sync'[2] <=> clr_sync[1]
         /\ clr_sync_reg' <=> clr_sync[2]
<1>1. hdr_age \in 0 .. HdrWindow + 1 /\ loss_age \in 0 .. LossWindow + 1
  BY TypesUnfold DEF TypesOf
<1>2. /\ hdr_age' = Older(hdr_age, HdrWindow)
      /\ loss_age' = IF pct_loss_flg THEN Older(loss_age, LossWindow) ELSE 0
  BY DEF TxClock
<1>3. /\ hdr_age' \in Nat /\ hdr_age' <= hdr_age + 1
      /\ hdr_age' <= HdrWindow => hdr_age' = hdr_age + 1
  BY <1>1, <1>2, WindowsAreNat, OlderAge
<1>4. Older(loss_age, LossWindow) \in Nat /\ Older(loss_age, LossWindow) <= loss_age + 1
  BY <1>1, WindowsAreNat, OlderAge
<1>5. /\ loss_age' \in Nat /\ loss_age' <= loss_age + 1
      /\ ~pct_loss_flg => loss_age' = 0
  BY <1>1, <1>2, <1>4
<1> QED  BY <1>3, <1>5 DEF TxClock

\* What a receive clock does to them.
LEMMA RxClockNumbers ==
  ASSUME TypeOK, RxClock
  PROVE  /\ ticks > -Ratio /\ ticks' = IF ticks < 0 THEN ticks - 1 ELSE -1
         /\ loss_sync'[1] <=> pct_loss_flg
         /\ loss_sync'[2] <=> loss_sync[1]
         /\ pct_hdr_captured' <=> in_pct
         /\ UNCHANGED <<txVars, loss_age>>
         /\ \/ Capture /\ hdr_age' = 0
            \/ PacketEnds /\ UNCHANGED <<hdr_age, told, fresh>>
            \/ Dwell /\ UNCHANGED <<hdr_age, told, fresh>> /\ (in_pct' <=> in_pct)
BY DEF RxClock, Capture, PacketEnds, Dwell

-----------------------------------------------------------------------------
(***************************************************************************)
(* How old a header and a loss are when the flag falls.                    *)
(***************************************************************************)

\* A transmit clock moves the header's news on by a register, and ages it.
LEMMA TxClockKeepsHeaderAge ==
  ASSUME TypeOK, HeaderAgeInv, TxClock
  PROVE  HeaderAgeInv'
<1>1. UNCHANGED <<in_pct, pct_hdr_captured>>  BY DEF TxClock, rxVars
<1>2. in_pct /\ ~pct_hdr_captured => hdr_age' <= TxTicks'
  BY NumbersOf, TxClockNumbers DEF HeaderAgeInv, TxTicks
<1>3. clr_sync'[1] /\ ~clr_sync'[2] => hdr_age' <= Ratio + 1
  BY NumbersOf, TxClockNumbers DEF HeaderAgeInv
<1>4. clr_sync'[2] /\ ~clr_sync_reg' => hdr_age' <= Ratio + 2
  BY NumbersOf, TxClockNumbers DEF HeaderAgeInv
<1>5. ~(pct_hdr_captured /\ ~clr_sync'[1])
  BY TxClockNumbers
<1> QED  BY <1>1, <1>2, <1>3, <1>4, <1>5 DEF HeaderAgeInv

\* A receive clock captures a header, or hands the news of one to clr_sync.
LEMMA RxClockKeepsHeaderAge ==
  ASSUME TypeOK, HeaderAgeInv, RxClock
  PROVE  HeaderAgeInv'
<1>1. clr_sync' = clr_sync /\ clr_sync_reg' = clr_sync_reg
  BY RxClockNumbers DEF txVars
<1>2. hdr_age' = 0 \/ hdr_age' = hdr_age
  BY RxClockNumbers
<1>3. in_pct' /\ ~pct_hdr_captured' => hdr_age' = 0
  BY RxClockNumbers DEF PacketEnds
<1>4. pct_hdr_captured' /\ ~clr_sync[1] => hdr_age' <= Ratio
  BY <1>2, NumbersOf, RxClockNumbers DEF HeaderAgeInv, TxTicks
<1>5. /\ clr_sync[1] /\ ~clr_sync[2] => hdr_age' <= Ratio + 1
      /\ clr_sync[2] /\ ~clr_sync_reg => hdr_age' <= Ratio + 2
  BY <1>2, NumbersOf DEF HeaderAgeInv
<1>6. TxTicks' >= 0
  BY NumbersOf, RxClockNumbers DEF TxTicks
<1> QED  BY <1>1, <1>3, <1>4, <1>5, <1>6 DEF HeaderAgeInv

\* A flag that rises has age 0; one that stays up ages by one.
LEMMA TxClockKeepsLossAge ==
  ASSUME TypeOK, LossAgeInv, TxClock
  PROVE  LossAgeInv'
<1>1. UNCHANGED <<loss_sync, told>>  BY DEF TxClock, rxVars
<1>2. CASE pct_loss_flg
  <2>1. ~loss_sync[1] => loss_age' < TxTicks'
    BY <1>2, NumbersOf, TxClockNumbers DEF LossAgeInv, TxTicks
  <2>2. ~loss_sync[2] => loss_age' <= Ratio - 1 + TxTicks'
    BY <1>2, NumbersOf, TxClockNumbers DEF LossAgeInv, TxTicks
  <2>3. ~told /\ hdr_age' <= HdrWindow => loss_age' <= 2 * Ratio - 1 + hdr_age'
    BY <1>2, NumbersOf, WindowsAreNat, TxClockNumbers DEF LossAgeInv
  <2> QED  BY <1>1, <2>1, <2>2, <2>3 DEF LossAgeInv
<1>3. CASE ~pct_loss_flg
  BY <1>3, NumbersOf, TxClockNumbers DEF LossAgeInv, TxTicks
<1> QED  BY <1>2, <1>3

\* A receive clock lets loss_sync follow, and a header tell or not.
LEMMA RxClockKeepsLossAge ==
  ASSUME TypeOK, LossAgeInv, RxClock
  PROVE  LossAgeInv'
<1> SUFFICES ASSUME pct_loss_flg'
             PROVE  /\ ~loss_sync'[1] => loss_age' < TxTicks'
                    /\ ~loss_sync'[2] => loss_age' <= Ratio - 1 + TxTicks'
                    /\ ~told' /\ hdr_age' <= HdrWindow => loss_age' <= 2 * Ratio - 1 + hdr_age'
  BY DEF LossAgeInv
<1>1. pct_loss_flg /\ loss_age' = loss_age
  BY RxClockNumbers DEF txVars
<1>2. ~loss_sync[1] => loss_age <= Ratio - 1 + TxTicks'
  BY <1>1, NumbersOf, RxClockNumbers DEF LossAgeInv, TxTicks
<1>3. Capture /\ ~told' => loss_age <= 2 * Ratio - 1
  BY <1>1, NumbersOf DEF LossAgeInv, TxTicks, Capture
<1>4. ~told' /\ hdr_age' <= HdrWindow => loss_age <= 2 * Ratio - 1 + hdr_age'
  BY <1>1, <1>3, NumbersOf, RxClockNumbers DEF LossAgeInv
<1> QED  BY <1>1, <1>2, <1>4, RxClockNumbers

\* Every step keeps the invariant of the windows.
LEMMA StepKeepsWindow ==
  ASSUME WindowInv, [Next]_vars
  PROVE  WindowInv'
<1> USE DEF WindowInv
<1>1. TypeOK'  BY StepKeepsTypes
<1>2. CASE TxClock
  BY <1>1, <1>2, TxClockKeepsHeaderAge, TxClockKeepsLossAge
<1>3. CASE RxClock
  BY <1>1, <1>3, RxClockKeepsHeaderAge, RxClockKeepsLossAge
<1>4. CASE WriteClr \/ UNCHANGED vars
  BY <1>1, <1>4 DEF WriteClr, HeaderAgeInv, LossAgeInv, TxTicks, vars, txVars, rxVars, history
<1> QED  BY <1>2, <1>3, <1>4 DEF Next

\* At first no flag is up and no header was captured.
LEMMA InitTypes == Init => TypeOK
<1> SUFFICES ASSUME Init  PROVE TypesOf  BY TypesUnfold
<1>1. clr_sync \in BOOLEAN \X BOOLEAN /\ loss_sync \in BOOLEAN \X BOOLEAN
  BY DEF Init
<1>2. /\ dwell \in 0 .. PctClocks /\ ticks \in -Ratio .. Ratio
      /\ hdr_age \in 0 .. HdrWindow + 1 /\ loss_age \in 0 .. LossWindow + 1
      /\ cmd_age \in 0 .. Settle + 1
  BY ConstantsOK, WindowsAreNat DEF ConstantsOK, Init
<1> QED  BY <1>1, <1>2 DEF TypesOf, Init

\* It holds at first,
LEMMA InitWindow == Init => WindowInv
<1> SUFFICES ASSUME Init  PROVE WindowInv  OBVIOUS
<1>1. ~clr_sync[1] /\ ~clr_sync[2] /\ ~in_pct /\ ~pct_hdr_captured /\ ~pct_loss_flg
  BY DEF Init
<1> QED  BY <1>1, InitTypes DEF WindowInv, HeaderAgeInv, LossAgeInv

\* and always.
LEMMA WindowInvariance == Spec => []WindowInv
BY InitWindow, StepKeepsWindow, PTL DEF Spec

\* LossFlag!TypeOK, for every ratio of the clocks and any spacing of the headers.
THEOREM TypeCorrect == Spec => []TypeOK
<1>1. WindowInv => TypeOK  BY DEF WindowInv
<1> QED  BY <1>1, WindowInvariance, PTL

\* The flag falls at most HdrWindow transmit clocks after a header, which told of
\* the loss unless the flag rose at most LossWindow clocks before the fall.
THEOREM FlagFallsInWindow == Spec => ReportedBeforeCleared
<1>1. ASSUME WindowInv, [Next]_vars
      PROVE  [pct_loss_flg /\ ~pct_loss_flg' =>
                hdr_age <= HdrWindow /\ (told \/ loss_age <= LossWindow)]_vars
  <2> SUFFICES ASSUME pct_loss_flg, ~pct_loss_flg'
               PROVE  hdr_age <= HdrWindow /\ (told \/ loss_age <= LossWindow)
    OBVIOUS
  <2>1. TxClock
    BY <1>1, RxClockNumbers DEF Next, vars, txVars, WriteClr, WindowInv
  <2>2. Cleared
    BY <2>1 DEF TxClock
  <2>3. hdr_age <= HdrWindow
    BY <1>1, <2>2 DEF WindowInv, HeaderAgeInv, Cleared, HdrWindow
  <2>4. told \/ loss_age <= 2 * Ratio - 1 + hdr_age
    BY <1>1, <2>3 DEF WindowInv, LossAgeInv
  <2> QED  BY <1>1, <2>3, <2>4, WindowsAreNat, NumbersOf DEF WindowInv
<1> QED  BY <1>1, WindowInvariance, PTL DEF Spec, ReportedBeforeCleared

-----------------------------------------------------------------------------
(***************************************************************************)
(* A loss is told once.                                                    *)
(***************************************************************************)

\* The receive clocks to the next header, from a state of in_pct and dwell.
LEMMA ToHeaderIs ==
  ASSUME TypeOK
  PROVE  /\ ToHeader \in Nat /\ RxLeft \in Int /\ RxLeft <= Ratio
         /\ in_pct => ToHeader = dwell + 1 + GapClocks
         /\ ~in_pct => ToHeader = dwell
BY NumbersOf DEF ToHeader, RxLeft

\* A transmit clock leaves the receive side alone and samples its flag.
LEMMA TxClockSamples ==
  ASSUME TypeOK, ReportInv, TxClock
  PROVE  DwellInv' /\ SampledInv'
<1>1. UNCHANGED <<in_pct, pct_hdr_captured, dwell>>  BY DEF TxClock, rxVars
<1>2. clr_sync'[1] <=> pct_hdr_captured  BY TxClockNumbers
<1> QED  BY <1>1, <1>2 DEF ReportInv, DwellInv, SampledInv

\* The receive clock's counts: how in_pct and dwell go on.
LEMMA RxClockDwells ==
  ASSUME TypeOK, RxClock
  PROVE  \/ ~in_pct /\ dwell = 0 /\ in_pct' /\ dwell' = PctClocks
         \/ in_pct /\ dwell = 0 /\ ~in_pct' /\ dwell' = GapClocks
         \/ (in_pct' <=> in_pct) /\ dwell' = IF dwell > 0 THEN dwell - 1 ELSE 0
BY DEF RxClock, Capture, PacketEnds, Dwell

\* A receive clock cannot pass while a value of pct_hdr_captured is not sampled
\* that has been there for Ratio of them.
LEMMA RxClockSamples ==
  ASSUME SpacedOut, TypeOK, ReportInv, RxClock
  PROVE  DwellInv' /\ SampledInv'
<1>1. (pct_hdr_captured' <=> in_pct) /\ clr_sync' = clr_sync
  BY RxClockNumbers DEF txVars
<1>2. DwellInv'
  BY RxClockDwells, NumbersOf DEF ReportInv, DwellInv
<1>3. /\ in_pct' /\ ~pct_hdr_captured' => dwell' = PctClocks
      /\ ~in_pct' /\ pct_hdr_captured' => dwell' = GapClocks
  BY <1>1, RxClockDwells
<1>4. ASSUME pct_hdr_captured', ~clr_sync[1]
      PROVE  -ticks' >= IF in_pct' THEN PctClocks - dwell' ELSE PctClocks + 1
  BY <1>1, <1>4, RxClockDwells, RxClockNumbers, NumbersOf
     DEF ReportInv, DwellInv, SampledInv, SpacedOut
<1>5. ASSUME ~pct_hdr_captured', clr_sync[1]
      PROVE  -ticks' >= IF in_pct' THEN GapClocks + 1 ELSE GapClocks - dwell'
  BY <1>1, <1>5, RxClockDwells, RxClockNumbers, NumbersOf
     DEF ReportInv, DwellInv, SampledInv, SpacedOut
<1> QED  BY <1>1, <1>2, <1>3, <1>4, <1>5 DEF SampledInv

\* A transmit clock moves the clear on by a register, or takes the flag down.
LEMMA TxClockKeepsTold ==
  ASSUME SpacedOut, TypeOK, ReportInv, TxClock
  PROVE  ToldInv'
<1> SUFFICES ASSUME ~fresh'
             PROVE  /\ pct_loss_flg' => ClearComing'
                    /\ ~pct_loss_flg' => /\ loss_sync[1] => ToHeader >= 2
                                         /\ loss_sync[2] => ToHeader >= 1
  BY DEF ToldInv, ToHeader, TxClock, rxVars
<1>1. ~fresh /\ ~Lost /\ (pct_loss_flg' <=> (pct_loss_flg /\ ~Cleared))
  BY DEF TxClock, Lost
<1>2. UNCHANGED <<in_pct, pct_hdr_captured, dwell>> /\ ToHeader' = ToHeader
  BY DEF TxClock, rxVars, ToHeader
<1>3. RxLeft' = Ratio /\ RxLeft \in Int /\ RxLeft >= 0
  BY TxClockNumbers, NumbersOf DEF RxLeft
<1>4. ASSUME pct_loss_flg'  PROVE ClearComing'
  <2>1. ClearComing /\ ~Cleared  BY <1>1, <1>4 DEF ReportInv, ToldInv
  <2>2. CASE in_pct /\ ~pct_hdr_captured
    BY <1>2, <2>2 DEF ClearComing
  <2>3. CASE pct_hdr_captured /\ ~clr_sync[1] /\ ToHeader >= RxLeft + 2 * Ratio + 2
    BY <1>2, <1>3, <2>3, ToHeaderIs, NumbersOf, TxClockNumbers DEF ClearComing
  <2>4. CASE clr_sync[1] /\ ~clr_sync[2] /\ ToHeader >= RxLeft + Ratio + 2
    BY <1>2, <1>3, <2>4, ToHeaderIs, NumbersOf, TxClockNumbers DEF ClearComing
  <2> QED  BY <2>1, <2>2, <2>3, <2>4 DEF ClearComing, Cleared
<1>5. CASE pct_loss_flg /\ ~pct_loss_flg'
  \* The clear that takes the flag down came in time.
  <2>1. ClearComing /\ Cleared  BY <1>1, <1>5 DEF ReportInv, ToldInv
  <2>2. ToHeader >= 2
    BY <2>1, <1>3, ToHeaderIs, NumbersOf DEF ClearComing, Cleared, ReportInv, SampledInv, SpacedOut
  <2> QED  BY <1>5, <2>2, ToHeaderIs
<1>6. CASE ~pct_loss_flg
  BY <1>1, <1>6, ToHeaderIs DEF ReportInv, ToldInv
<1> QED  BY <1>4, <1>5, <1>6

\* In a step of the receive clock that captures no header, one clock less is left.
LEMMA OneClockLess ==
  ASSUME TypeOK, DwellInv, RxClock, ~Capture
  PROVE  /\ ToHeader' \in Nat
         /\ ToHeader > 0 => ToHeader' >= ToHeader - 1
         /\ UNCHANGED fresh
<1>1. CASE PacketEnds
  BY <1>1, NumbersOf DEF PacketEnds, ToHeader
<1>2. CASE Dwell
  <2>1. (in_pct' <=> in_pct) /\ UNCHANGED fresh /\ dwell' = IF dwell > 0 THEN dwell - 1 ELSE 0
    BY <1>2 DEF Dwell
  <2>2. CASE in_pct  BY <2>1, <2>2, NumbersOf DEF ToHeader
  <2>3. CASE ~in_pct  BY <2>1, <2>3, NumbersOf DEF ToHeader
  <2> QED  BY <2>1, <2>2, <2>3
<1> QED  BY <1>1, <1>2 DEF RxClock

\* A receive clock brings the next header nearer, which is far enough, or
\* captures it when the news of the loss told before has gone.
LEMMA RxClockKeepsTold ==
  ASSUME SpacedOut, TypeOK, ReportInv, RxClock
  PROVE  ToldInv'
<1> SUFFICES ASSUME ~fresh'
             PROVE  /\ pct_loss_flg => ClearComing'
                    /\ ~pct_loss_flg => /\ loss_sync'[1] => ToHeader' >= 2
                                        /\ loss_sync'[2] => ToHeader' >= 1
  BY RxClockNumbers DEF ToldInv, txVars
<1>1. UNCHANGED <<clr_sync, clr_sync_reg>> /\ (pct_hdr_captured' <=> in_pct)
  BY RxClockNumbers DEF txVars
<1>2. RxLeft > 0 /\ RxLeft' = RxLeft - 1
  BY RxClockNumbers, NumbersOf DEF RxLeft
<1>3. CASE Capture
  <2>1. in_pct' /\ ~pct_hdr_captured'
    BY <1>1, <1>3 DEF Capture
  <2>2. ToHeader' \in Nat /\ ToHeader' >= 2
    BY <1>3, NumbersOf DEF Capture, ToHeader, SpacedOut
  <2>3. ClearComing'  BY <2>1 DEF ClearComing
  <2> QED  BY <2>2, <2>3
<1>4. CASE ~Capture
  <2>1. ~fresh /\ ToHeader' \in Nat /\ (ToHeader > 0 => ToHeader' >= ToHeader - 1)
    BY <1>4, OneClockLess DEF ReportInv
  <2>2. ASSUME pct_loss_flg  PROVE ClearComing'
    <3>1. ClearComing  BY <2>1, <2>2 DEF ReportInv, ToldInv
    <3>2. CASE in_pct /\ ~pct_hdr_captured
      <4>1. dwell = PctClocks /\ pct_hdr_captured'
        BY <1>1, <3>2 DEF ReportInv, SampledInv
      <4>2. ~clr_sync[1]
        BY <3>2, RxClockNumbers, NumbersOf DEF ReportInv, SampledInv, SpacedOut
      <4>3. ToHeader' >= RxLeft' + 2 * Ratio + 2
        BY <1>2, <2>1, <3>2, <4>1, ToHeaderIs, NumbersOf DEF SpacedOut
      <4> QED  BY <1>1, <4>1, <4>2, <4>3 DEF ClearComing
    <3>3. CASE pct_hdr_captured /\ ~clr_sync[1] /\ ToHeader >= RxLeft + 2 * Ratio + 2
      <4>1. in_pct
        BY <3>3, RxClockNumbers, NumbersOf DEF ReportInv, SampledInv, SpacedOut
      <4>2. ToHeader' >= RxLeft' + 2 * Ratio + 2
        BY <1>2, <2>1, <3>3, ToHeaderIs, NumbersOf
      <4> QED  BY <1>1, <3>3, <4>1, <4>2 DEF ClearComing
    <3>4. CASE clr_sync[1] /\ ~clr_sync[2] /\ ToHeader >= RxLeft + Ratio + 2
      BY <1>1, <1>2, <2>1, <3>4, ToHeaderIs, NumbersOf DEF ClearComing
    <3>5. CASE clr_sync[2] /\ ~clr_sync_reg /\ ToHeader >= RxLeft + 2
      BY <1>1, <1>2, <2>1, <3>5, ToHeaderIs, NumbersOf DEF ClearComing
    <3> QED  BY <3>1, <3>2, <3>3, <3>4, <3>5 DEF ClearComing
  <2>3. ASSUME ~pct_loss_flg
        PROVE  /\ ~loss_sync'[1]
               /\ loss_sync'[2] => ToHeader' >= 1
    BY <2>1, <2>3, RxClockNumbers, ToHeaderIs DEF ReportInv, ToldInv
  <2> QED  BY <2>2, <2>3
<1> QED  BY <1>3, <1>4

\* Every step keeps the invariant of the report.
LEMMA StepKeepsReport ==
  ASSUME SpacedOut, ReportInv, [Next]_vars
  PROVE  ReportInv'
<1>1. TypeOK /\ TypeOK'  BY StepKeepsTypes DEF ReportInv
<1>2. CASE TxClock
  BY <1>1, <1>2, TxClockSamples, TxClockKeepsTold DEF ReportInv
<1>3. CASE RxClock
  BY <1>1, <1>3, RxClockSamples, RxClockKeepsTold DEF ReportInv
<1>4. CASE WriteClr \/ UNCHANGED vars
  BY <1>1, <1>4 DEF ReportInv, WriteClr, DwellInv, SampledInv, ToldInv, ClearComing,
                    ToHeader, RxLeft, vars, txVars, rxVars, history
<1> QED  BY <1>2, <1>3, <1>4 DEF Next

\* It holds at first.
LEMMA InitReport == Init => ReportInv
<1> SUFFICES ASSUME Init  PROVE ReportInv  OBVIOUS
<1>1. ~clr_sync[1] /\ ~loss_sync[1] /\ ~loss_sync[2]
      /\ ~in_pct /\ ~pct_hdr_captured /\ ~pct_loss_flg /\ dwell = 0
  BY DEF Init
<1> QED  BY <1>1, InitTypes, ConstantsOK
         DEF ReportInv, DwellInv, SampledInv, ToldInv, ConstantsOK

\* With headers spaced out, a header that tells of a loss is the first since it.
THEOREM LossToldOnce == SpacedOut /\ Spec => OneReportPerLoss
<1> SUFFICES ASSUME SpacedOut  PROVE Spec => OneReportPerLoss  OBVIOUS
<1>1. Spec => []ReportInv
  BY InitReport, StepKeepsReport, PTL DEF Spec
<1>2. ASSUME ReportInv, [Next]_vars
      PROVE  [Capture /\ told' => fresh]_vars
  <2> SUFFICES ASSUME Capture, told', ~fresh  PROVE FALSE
    OBVIOUS
  <2>1. loss_sync[2] /\ ToHeader = 0
    BY DEF Capture, ToHeader
  <2>2. pct_loss_flg => ClearComing
    BY <1>2 DEF ReportInv, ToldInv
  <2>3. ~in_pct  BY DEF Capture
  <2>4. ~ClearComing
    BY <1>2, <2>1, <2>3, NumbersOf DEF ReportInv, ClearComing, RxLeft
  <2> QED  BY <1>2, <2>1, <2>2, <2>4 DEF ReportInv, ToldInv
<1> QED  BY <1>1, <1>2, PTL DEF Spec, OneReportPerLoss
=============================================================================
