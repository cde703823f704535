-------------------------- MODULE PhaseSearchProofs ---------------------------
(***************************************************************************)
(* Proofs about PhaseSearch, for all widths of its counters, lengths of    *)
(* comparison, windows of good phases, and rates of the two clocks: the    *)
(* verdict pll_ps_fsm acts on is the verdict about the present phase, its  *)
(* counters keep within their registers, and a shift and a search end      *)
(* where they are to end.                                                  *)
(*                                                                         *)
(* The argument for the verdict (IInv) has three parts.  While pll_ps_fsm  *)
(* looks at the comparator nothing moves: pll_ps is idle and the PLL       *)
(* locked (RestInv).  A done flag that is down in check_cmp_status has     *)
(* fallen on both sides of the clock crossing, so the comparison that      *)
(* follows starts afresh (HandshakeInv).  And the comparator finds an      *)
(* error exactly if one of the samples it takes until then is wrong        *)
(* (RunInv).                                                               *)
(*                                                                         *)
(* The argument for the phase (PositionInv) has four.  pll_ps counts the   *)
(* steps that the PLL makes (MadeInv).  What the search has found is what  *)
(* the good phases below the present one say (SeenInv).  The phase is the  *)
(* counted one, but for the steps of a shift still to be made (AutoPos,    *)
(* ShiftPos).  And the way back from the last phase to the middle,         *)
(* reckoned in a pipeline and in the width of the counters, is the         *)
(* distance of the two (PrepInv).                                          *)
(***************************************************************************)
EXTENDS PhaseSearch, TLAPS

-----------------------------------------------------------------------------
(***************************************************************************)
(* The inductive invariant.                                                *)
(***************************************************************************)
PsStates == {"idle", "check_phase_step", "phase_step", "check_phase_done", "end_phase"}
CmpStates == {"idle", "wait_cyc", "compare", "compare_done"}
Channels == {"A", "B"}
PllFields == {"phase", "locked", "phasedone", "rest", "kind", "seen", "left", "good"}
HostFields == {"ps_en", "ps_mode", "ps_updwn", "ps_phase", "ps_step_size", "origin"}
HasFields(r, fields) == r = [f \in fields |-> r[f]]

\* The records have their fields, as far as the argument looks at them.
ShapeInv ==
  /\ fsm.current_state \in FsmStates /\ ps.current_state \in PsStates
  /\ fsm.wait_after_ph_shift_cnt \in Nat /\ ps.check_phase_done_cnt \in Nat
  /\ HasFields(host, HostFields) /\ HasFields(pll, PllFields)
  /\ pll.phasedone \in BOOLEAN /\ pll.rest \in BOOLEAN /\ pll.left \in Int
  /\ smpl.mux0.chan \in Channels /\ smpl.clean \in Nat
  /\ cmp.current_state \in CmpStates /\ cmp.diq.chan \in Channels
  /\ HasFields(cmp.err, Channels)
  /\ cmp.wait_cnt \in Nat /\ cmp.compare_cnt \in Nat

At(s) == fsm.current_state = s
PsIdle == ps.current_state = "idle"

\* A search runs only while ps_en is up, and neither done flag outlives it.
HostInv ==
  /\ ~At("idle") => host.ps_en /\ AutoMode /\ fsm.ps_en_reg
  /\ fsm.ps_done_reg => At("idle") /\ fsm.ps_en_reg
  /\ fsm.ps_done_reg_manual_mode => fsm.ps_en_reg
  /\ ps.en_reg => fsm.ps_en_reg

\* pll_ps works only while it is asked to, and has come to an end when the
\* machine that asked has seen its busy flag rise and fall.
Quiet == PsIdle /\ ~ps.busy /\ ~fsm.ps_ctrl_busy_reg
Begun == IF ps.busy THEN TRUE ELSE fsm.ps_ctrl_busy_reg <=> PsIdle

AutoInv ==
  IF At("ph_shift")
  THEN IF ps.en_reg THEN fsm.ps_ctrl_en_reg /\ Begun ELSE Quiet
  ELSE /\ Quiet
       /\ fsm.ps_ctrl_en_reg =>
            ps.en_reg /\ At("wait_after_ph_shift") /\ fsm.wait_after_ph_shift_cnt = 0
       /\ ps.en_reg => At("wait_after_ph_shift") /\ fsm.wait_after_ph_shift_cnt <= 1

ManualInv ==
  /\ ~fsm.ps_ctrl_en_reg
  /\ fsm.ps_done_reg_manual_mode => ps.en_reg
  /\ ~host.ps_en \/ ~ps.en_reg \/ fsm.ps_done_reg_manual_mode => Quiet
  /\ host.ps_en /\ ps.en_reg /\ ~fsm.ps_done_reg_manual_mode => Begun

ShiftInv == IF AutoMode THEN AutoInv ELSE ManualInv

\* The PLL is locked but from its reset at the start of a search until the lock
\* is seen, and phasedone differs from its value at rest only while pll_ps waits
\* for it, which it does long enough.
LockInv ==
  LET l == sync.locked IN
  IF At("rst_pll")
  THEN /\ ~fsm.pll_reset_req => pll.locked
       /\ pll.locked => l[1] /\ l[2]
       /\ l[1] => l[2]
  ELSE IF At("wait_pll_lock")
       THEN /\ l[2] => l[1]
            /\ l[1] => pll.locked
            /\ pll.locked => ~fsm.pll_reset_req
       ELSE pll.locked /\ l[1] /\ l[2] /\ ~fsm.pll_reset_req

PhaseDoneInv ==
  /\ pll.kind = "live" => pll.rest
  /\ pll.phasedone # pll.rest =>
       /\ pll.kind = "live" /\ pll.left \in 1 .. PllSteps
       /\ ps.current_state \in {"phase_step", "check_phase_done"}
       /\ ps.current_state = "check_phase_done" =>
            ps.check_phase_done_cnt + pll.left <= Timeout

RestInv == HostInv /\ ShiftInv /\ LockInv /\ PhaseDoneInv

\* Between two comparisons the flags fall in their order, and the comparator is
\* held in reset once its done flag is down; during one they rise in their order.
HandshakeInv ==
  IF At("cmp_smpls")
  THEN /\ smpl.en[2] => smpl.en[1]
       /\ smpl.en[1] => fsm.smpl_cmp_en
       /\ cmp # CmpReset => smpl.en[2]
       /\ sync.done[2] => sync.done[1] /\ (sync.error[2] <=> cmp.error)
       /\ sync.done[1] => cmp.done /\ (sync.error[1] <=> cmp.error)
  ELSE /\ fsm.smpl_cmp_en => smpl.en[1]
       /\ smpl.en[1] => smpl.en[2]
       /\ cmp.done => sync.done[1]
       /\ sync.done[1] => sync.done[2]
       /\ ~cmp.done => cmp = CmpReset /\ ~smpl.en[1] /\ ~smpl.en[2] /\ ~fsm.smpl_cmp_en

Good == Distance \in pll.good
Errors == cmp.err.A \/ cmp.err.B

\* Samples: those taken before the comparator was let go are not wrong, and no
\* CmpLength samples in a row are right at a bad phase.
SampleInv ==
  /\ ~smpl.en[2] => ~smpl.mux0.bad
  /\ smpl.clean <= CmpLength - 1
  /\ At("cmp_smpls") /\ smpl.en[2] =>
       IF Good THEN ~smpl.mux0.bad ELSE ~smpl.mux0.bad => smpl.clean >= 1

\* The comparator's own error from its reset goes through before it compares.
GoodRunInv ==
  cmp.current_state \in {"wait_cyc", "compare"} =>
    /\ ~cmp.diq.bad /\ cmp.diq.chan # smpl.mux0.chan /\ ~cmp.err.B
    /\ cmp.err.A => cmp.current_state = "wait_cyc" /\
                    (cmp.wait_cnt = 0 \/ (cmp.wait_cnt = 1 /\ cmp.diq.chan = "A"))
    /\ cmp.smpl_err => cmp.current_state = "wait_cyc" /\ cmp.wait_cnt <= 2

\* At a bad phase an error is on its way before the comparison is long enough.
BadRunInv ==
  /\ cmp.current_state = "compare" =>
       /\ cmp.smpl_err \/ cmp.compare_cnt <= CmpLength
       /\ cmp.compare_stop => cmp.compare_cnt > CmpLength
       /\ ~cmp.smpl_err /\ ~Errors =>
            IF cmp.diq.bad THEN cmp.compare_cnt <= CmpLength - 1
            ELSE IF smpl.mux0.bad THEN cmp.compare_cnt <= CmpLength - 2
            ELSE cmp.compare_cnt + 2 <= smpl.clean
  /\ cmp.current_state = "wait_cyc" => ~cmp.compare_stop /\ cmp.compare_cnt = 0

RunInv ==
  At("cmp_smpls") =>
    /\ cmp.done => cmp.current_state = "idle"
    /\ cmp.current_state = "idle" => (cmp.done <=> cmp.start_reg) /\ (~cmp.done => cmp = CmpReset)
    /\ cmp.current_state # "idle" => cmp.start_reg
    /\ cmp.current_state \in {"wait_cyc", "compare"} => ~cmp.error
    /\ cmp.current_state = "compare_done" \/ cmp.done => (cmp.error <=> ~Good)
    /\ Good => GoodRunInv
    /\ ~Good => BadRunInv

IInv == ShapeInv /\ RestInv /\ HandshakeInv /\ SampleInv /\ RunInv

-----------------------------------------------------------------------------
(***************************************************************************)
(* What the clocks do.                                                     *)
(***************************************************************************)

\* The registers of pll_ps_fsm after a clock, those that the argument looks at.
LEMMA FsmRegisters ==
  ASSUME FsmClock
  PROVE  /\ fsm'.current_state = NextState
         /\ fsm'.ps_en_reg <=> host.ps_en
         /\ fsm'.ps_ctrl_busy_reg <=> ps.busy
         /\ fsm'.wait_after_ph_shift_cnt =
              Count(At("wait_after_ph_shift"), fsm.wait_after_ph_shift_cnt)
         /\ fsm'.pll_reset_req <=> At("rst_pll")
         /\ fsm'.smpl_cmp_en <=> At("cmp_smpls")
         /\ fsm'.ps_ctrl_en_reg <=> At("ph_shift")
         /\ fsm'.ps_done_reg <=> host.ps_en /\ (At("end_srch") \/ fsm.ps_done_reg)
         /\ fsm'.ps_done_reg_manual_mode <=>
              host.ps_en /\ (ShiftEnds \/ fsm.ps_done_reg_manual_mode)
BY DEF FsmClock, At

\* Its next state, a state at a time.
LEMMA Transitions ==
  ASSUME fsm.current_state \in FsmStates, FsmClock
  PROVE  /\ At("idle") => \/ At("idle")'
                          \/ At("rst_pll")' /\ AutoMode /\ host.ps_en /\ ~fsm.ps_en_reg
         /\ At("rst_pll") => IF locked THEN At("rst_pll")' ELSE At("wait_pll_lock")'
         /\ At("wait_pll_lock") =>
              IF locked THEN At("check_cmp_status")' \/ At("ph_shift")' ELSE At("wait_pll_lock")'
         /\ At("check_cmp_status") =>
              IF smpl_cmp_done THEN At("check_cmp_status")' ELSE At("cmp_smpls")'
         /\ At("cmp_smpls") =>
              IF smpl_cmp_done
              THEN fsm'.current_state \in {"min_found", "max_found", "check_max_steps", "end_srch"}
              ELSE At("cmp_smpls")'
         /\ fsm.current_state \in {"min_found", "max_found", "check_max_steps", "prep_phase"} =>
              fsm'.current_state \in {"check_max_steps", "prep_phase", "ph_shift", "end_srch"}
         /\ At("ph_shift") => IF ShiftEnds THEN At("wait_after_ph_shift")' ELSE At("ph_shift")'
         /\ At("wait_after_ph_shift") =>
              IF fsm.wait_after_ph_shift_cnt > SettleCnt
              THEN At("check_cmp_status")' ELSE At("wait_after_ph_shift")'
         /\ At("end_srch") => At("idle")'
<1>1. fsm'.current_state = NextState  BY FsmRegisters
<1>2. CASE At("idle")  BY <1>1, <1>2 DEF NextState, At
<1>3. CASE At("rst_pll")  BY <1>1, <1>3 DEF NextState, At
<1>4. CASE At("wait_pll_lock")  BY <1>1, <1>4 DEF NextState, At
<1>5. CASE At("check_cmp_status")  BY <1>1, <1>5 DEF NextState, At, ComparatorReady
<1>6. CASE At("cmp_smpls")  BY <1>1, <1>6 DEF NextState, At, AfterVerdict
<1>7. CASE fsm.current_state \in {"min_found", "max_found", "check_max_steps", "prep_phase"}
  BY <1>1, <1>7 DEF NextState, At, AfterStep
<1>8. CASE At("ph_shift")  BY <1>1, <1>8 DEF NextState, At
<1>9. CASE At("wait_after_ph_shift")  BY <1>1, <1>9 DEF NextState, At
<1>10. CASE At("end_srch")  BY <1>1, <1>10 DEF NextState, At
<1>11. \/ At("idle") \/ At("rst_pll") \/ At("wait_pll_lock") \/ At("check_cmp_status")
       \/ At("cmp_smpls") \/ At("ph_shift") \/ At("wait_after_ph_shift") \/ At("end_srch")
       \/ fsm.current_state \in {"min_found", "max_found", "check_max_steps", "prep_phase"}
  BY DEF FsmStates, At
<1> QED  BY <1>2, <1>3, <1>4, <1>5, <1>6, <1>7, <1>8, <1>9, <1>10, <1>11 DEF At

\* pll_ps after a clock.
LEMMA PsRegisters ==
  ASSUME PsClock
  PROVE  /\ ps'.current_state = NextPsState
         /\ ps'.en_reg <=> ps_ctrl_en
         /\ ps'.busy <=> ~PsIdle
         /\ ps'.check_phase_done_cnt =
              Count(ps.current_state = "check_phase_done", ps.check_phase_done_cnt)
BY DEF PsClock, PsIdle

\* Where the one-step machine goes from each of its states.
LEMMA PsTransitions ==
  ASSUME ps.current_state \in PsStates, PsClock
  PROVE  /\ ps'.current_state \in PsStates
         /\ PsIdle => IF ps_ctrl_en /\ ~ps.en_reg
                      THEN ps'.current_state = "check_phase_step" ELSE PsIdle'
         /\ ps.current_state = "phase_step" =>
              ps'.current_state \in {"phase_step", "check_phase_done"}
         /\ ps.current_state = "check_phase_done" =>
              \/ pll.phasedone
              \/ ps'.current_state = "check_phase_done"
              \/ DoneTimeout
BY PsRegisters DEF NextPsState, PsStates, PsIdle

\* A counter is a number.
LEMMA CountIsNat ==
  ASSUME NEW here \in BOOLEAN, NEW cnt \in Nat
  PROVE  Count(here, cnt) \in Nat
BY ConstantsOK DEF ConstantsOK, Count

\* Below its range a counter counts by one.
LEMMA CountCounts ==
  ASSUME NEW cnt \in Nat
  PROVE  /\ Count(FALSE, cnt) = 0
         /\ cnt < CounterMax => Count(TRUE, cnt) = cnt + 1
         /\ Count(TRUE, cnt) <= cnt + 1
BY ConstantsOK DEF ConstantsOK, Count

-----------------------------------------------------------------------------
(***************************************************************************)
(* Nothing moves but in a shift.                                           *)
(***************************************************************************)

\* Outside the two states that wait for phasedone, it is what it is at rest; and
\* pll_ps does not give up waiting before it is.
LEMMA NoTimeout ==
  ASSUME ShapeInv, PhaseDoneInv, ps.current_state = "check_phase_done", ~pll.phasedone,
         pll.kind = "live"
  PROVE  ~DoneTimeout /\ ps.check_phase_done_cnt + pll.left <= Timeout /\ pll.left >= 1
BY ConstantsOK DEF ConstantsOK, ShapeInv, PhaseDoneInv, DoneTimeout

\* The PLL's step keeps its record one.
LEMMA PllShape ==
  ASSUME ShapeInv, Pll
  PROVE  /\ HasFields(pll', PllFields)
         /\ pll'.phasedone \in BOOLEAN /\ pll'.rest \in BOOLEAN /\ pll'.left \in Int
<1>1. HasFields(pll', PllFields)
  <2> USE DEF ShapeInv, HasFields, PllFields
  <2>1. CASE PllReset  BY <2>1 DEF PllReset
  <2>2. CASE PllLocks  BY <2>2 DEF PllLocks
  <2>3. CASE PllSees  BY <2>3 DEF PllSees
  <2>4. CASE PllMoves  BY <2>4 DEF PllMoves
  <2> QED  BY <2>1, <2>2, <2>3, <2>4 DEF Pll
<1>2. pll'.phasedone \in BOOLEAN /\ pll'.rest = pll.rest /\ pll'.left \in Int
  <2>1. pll.phasedone \in BOOLEAN /\ pll.rest \in BOOLEAN /\ pll.left \in Int
        /\ LockClocks \in Nat /\ PllSteps \in Nat
    BY ConstantsOK DEF ShapeInv, ConstantsOK
  <2>2. HasFields(pll, PllFields)  BY DEF ShapeInv
  <2>3. CASE PllReset  BY <2>1, <2>2, <2>3 DEF PllReset, HasFields, PllFields
  <2>4. CASE PllLocks
    <3>1. /\ pll'.phasedone = pll.phasedone /\ pll'.rest = pll.rest
          /\ pll'.left = IF pll.left = 0 THEN 0 ELSE pll.left - 1
      BY <2>2, <2>4 DEF PllLocks, HasFields, PllFields
    <3> QED  BY <2>1, <3>1
  <2>5. CASE PllSees
    <3>1. CASE pll_phasestep /\ pll.kind = "live" /\ pll.seen = 1
      <4>1. PICK d \in 1 .. PllSteps :
              pll' = [pll EXCEPT !.seen = 2, !.phasedone = FALSE, !.left = d]
        BY <2>5, <3>1 DEF PllSees
      <4>2. pll'.phasedone = FALSE /\ pll'.rest = pll.rest /\ pll'.left = d
        BY <2>2, <4>1 DEF HasFields, PllFields
      <4>3. pll'.phasedone \in BOOLEAN  BY <4>2
      <4>4. pll'.left \in Int  BY <2>1, <4>2
      <4> QED  BY <4>2, <4>3, <4>4
    <3>2. CASE ~(pll_phasestep /\ pll.kind = "live" /\ pll.seen = 1)
      <4>1. pll'.phasedone = pll.phasedone /\ pll'.rest = pll.rest /\ pll'.left = pll.left
        BY <2>2, <2>5, <3>2 DEF PllSees, HasFields, PllFields
      <4> QED  BY <2>1, <4>1
    <3> QED  BY <3>1, <3>2
  <2>6. CASE PllMoves  BY <2>1, <2>2, <2>6 DEF PllMoves, HasFields, PllFields
  <2> QED  BY <2>3, <2>4, <2>5, <2>6 DEF Pll
<1> QED  BY <1>1, <1>2 DEF ShapeInv

\* And leaves the kind of PLL, its rest and the good phases as they are.
LEMMA PllKeeps ==
  ASSUME ShapeInv, Pll
  PROVE  pll'.kind = pll.kind /\ pll'.rest = pll.rest /\ pll'.good = pll.good
<1> USE DEF ShapeInv, HasFields, PllFields
<1>1. CASE PllReset  BY <1>1 DEF PllReset
<1>2. CASE PllLocks  BY <1>2 DEF PllLocks
<1>3. CASE PllSees  BY <1>3 DEF PllSees
<1>4. CASE PllMoves  BY <1>4 DEF PllMoves
<1> QED  BY <1>1, <1>2, <1>3, <1>4 DEF Pll

\* A step of a PLL that is locked and not in reset: it stays so, and starts to
\* move, goes on, or does not move.
LEMMA LockedPll ==
  ASSUME ShapeInv, PhaseDoneInv, Pll, pll.locked, ~fsm.pll_reset_req
  PROVE  /\ pll'.locked
         /\ pll.phasedone = pll.rest => pll'.phase = pll.phase
         /\ \/ pll'.phasedone = pll.phasedone /\ pll.phasedone = pll.rest
            \/ /\ pll.phasedone = pll.rest /\ pll_phasestep
               /\ pll.kind = "live" /\ pll'.left \in 1 .. PllSteps
            \/ /\ pll.phasedone # pll.rest /\ pll'.left = pll.left - 1
               /\ pll'.phasedone # pll.rest => pll.left # 1
<1> USE DEF ShapeInv, HasFields, PllFields
<1>1. CASE PllSees
  BY <1>1 DEF PllSees, PhaseDoneInv
<1>2. CASE PllMoves
  BY <1>2 DEF PllMoves, PhaseDoneInv
<1> QED  BY <1>1, <1>2 DEF Pll, PllReset, PllLocks

\* phasedone falls only while pll_ps asks for a step, and comes back in time.
LEMMA ScanKeepsPhaseDone ==
  ASSUME ShapeInv, PhaseDoneInv, PsClock, Pll,
         ~PsIdle => pll.locked /\ ~fsm.pll_reset_req
  PROVE  PhaseDoneInv'
<1>1. pll'.kind = pll.kind /\ pll'.rest = pll.rest  BY PllKeeps
<1>2. CASE PsIdle
  \* So phasedone is what it is at rest, and stays it.
  <2>1. pll.phasedone = pll.rest /\ ~pll_phasestep
    BY <1>2 DEF PhaseDoneInv, PsIdle, pll_phasestep
  <2>2. pll'.phasedone = pll.rest
    <3> USE DEF ShapeInv, HasFields, PllFields
    <3>1. CASE PllReset  BY <3>1 DEF PllReset
    <3>2. CASE PllLocks  BY <3>2, <2>1 DEF PllLocks
    <3>3. CASE PllSees  BY <3>3, <2>1 DEF PllSees
    <3>4. CASE PllMoves  BY <3>4, <2>1 DEF PllMoves, PhaseDoneInv
    <3> QED  BY <3>1, <3>2, <3>3, <3>4 DEF Pll
  <2> QED  BY <1>1, <2>2 DEF PhaseDoneInv
<1>3. CASE ~PsIdle
  <2> SUFFICES ASSUME pll'.phasedone # pll.rest
               PROVE  /\ pll.kind = "live" /\ pll'.left \in 1 .. PllSteps
                      /\ ps'.current_state \in {"phase_step", "check_phase_done"}
                      /\ ps'.current_state = "check_phase_done" =>
                           ps'.check_phase_done_cnt + pll'.left <= Timeout
    BY <1>1 DEF PhaseDoneInv
  <2>1. /\ PllSteps \in Nat /\ PllSteps <= Timeout /\ Timeout \in Nat
        /\ Timeout < CounterMax /\ CounterMax \in Nat
    BY ConstantsOK DEF ConstantsOK
  <2>2. CASE pll.phasedone = pll.rest
    <3>1. ps.current_state = "phase_step" /\ pll.kind = "live" /\ pll'.left \in 1 .. PllSteps
      BY <1>3, <2>2, LockedPll DEF pll_phasestep
    <3>2. ps'.check_phase_done_cnt = 0
      BY <3>1, PsRegisters, CountCounts DEF ShapeInv
    <3> QED  BY <2>1, <3>1, <3>2, PsTransitions DEF ShapeInv
  <2>3. CASE pll.phasedone # pll.rest
    <3>1. /\ pll.kind = "live" /\ pll.left \in 1 .. PllSteps /\ ~pll.phasedone
          /\ ps.current_state \in {"phase_step", "check_phase_done"}
      BY <2>3 DEF PhaseDoneInv, ShapeInv
    <3>2. pll'.left = pll.left - 1 /\ pll.left # 1
      BY <1>3, <2>3, LockedPll
    <3>3. CASE ps.current_state = "phase_step"
      <4>1. ps'.check_phase_done_cnt = 0
        BY <3>3, PsRegisters, CountCounts DEF ShapeInv
      <4> QED  BY <2>1, <3>1, <3>2, <3>3, <4>1, PsTransitions DEF ShapeInv
    <3>4. CASE ps.current_state = "check_phase_done"
      <4>1. ps'.current_state = "check_phase_done"
        BY <3>1, <3>4, NoTimeout, PsTransitions DEF ShapeInv
      <4>2. ps'.check_phase_done_cnt \in Nat
            /\ ps'.check_phase_done_cnt <= ps.check_phase_done_cnt + 1
        BY <3>4, PsRegisters, CountCounts, CountIsNat DEF ShapeInv
      <4>3. ps.check_phase_done_cnt + pll.left <= Timeout /\ ps.check_phase_done_cnt \in Nat
        BY <3>1, <3>4, NoTimeout DEF ShapeInv
      <4> QED  BY <2>1, <3>1, <3>2, <4>1, <4>2, <4>3
    <3> QED  BY <3>1, <3>3, <3>4
  <2> QED  BY <2>2, <2>3
<1> QED  BY <1>2, <1>3

\* A search runs while ps_en is up.
LEMMA ScanKeepsHost ==
  ASSUME ShapeInv, HostInv, ShiftInv, ScanClock
  PROVE  HostInv'
<1>1. host' = host /\ FsmClock /\ PsClock  BY DEF ScanClock
<1>2. At("idle") /\ ~At("idle")' => host.ps_en /\ AutoMode /\ ~fsm.ps_en_reg
  BY <1>1, Transitions DEF ShapeInv, At
<1>3. ~At("idle")' => host.ps_en /\ AutoMode /\ fsm'.ps_en_reg
  BY <1>1, <1>2, FsmRegisters DEF HostInv
<1>4. fsm'.ps_done_reg => At("idle")' /\ fsm'.ps_en_reg
  <2>1. At("end_srch") => At("idle")'
    BY <1>1, Transitions DEF ShapeInv
  <2> QED  BY <1>1, <1>2, <2>1, FsmRegisters DEF HostInv
<1>5. fsm'.ps_done_reg_manual_mode => fsm'.ps_en_reg
  BY <1>1, FsmRegisters
<1>6. ps'.en_reg => fsm'.ps_en_reg
  BY <1>1, PsRegisters, FsmRegisters DEF HostInv, ShiftInv, AutoInv, ManualInv, ps_ctrl_en, At
<1> QED  BY <1>1, <1>3, <1>4, <1>5, <1>6 DEF HostInv, AutoMode

\* The two flip-flops after a clock.
LEMMA SyncRegisters ==
  ASSUME ScanClock
  PROVE  /\ sync'.locked[1] <=> pll.locked
         /\ sync'.locked[2] <=> sync.locked[1]
         /\ sync'.done[1] <=> cmp.done
         /\ sync'.done[2] <=> sync.done[1]
         /\ sync'.error[1] <=> cmp.error
         /\ sync'.error[2] <=> sync.error[1]
BY DEF ScanClock

\* The reset takes the lock away, and nothing else does.
LEMMA PllLock ==
  ASSUME ShapeInv, Pll
  PROVE  /\ fsm.pll_reset_req => ~pll'.locked
         /\ ~fsm.pll_reset_req /\ pll.locked => pll'.locked
<1> USE DEF ShapeInv, HasFields, PllFields
<1>1. CASE PllReset  BY <1>1 DEF PllReset
<1>2. CASE PllLocks  BY <1>2 DEF PllLocks
<1>3. CASE PllSees  BY <1>3 DEF PllSees
<1>4. CASE PllMoves  BY <1>4 DEF PllMoves
<1> QED  BY <1>1, <1>2, <1>3, <1>4 DEF Pll

\* pll_ps_fsm leaves its two first states only after the PLL was in reset and has
\* locked again.
LEMMA ScanKeepsLock ==
  ASSUME ShapeInv, LockInv, ScanClock
  PROVE  LockInv'
<1>1. FsmClock /\ Pll  BY DEF ScanClock
<1>2. fsm'.pll_reset_req <=> At("rst_pll")  BY <1>1, FsmRegisters
<1>3. CASE At("rst_pll") /\ locked
  <2>1. At("rst_pll")'  BY <1>1, <1>3, Transitions DEF ShapeInv
  <2> QED  BY <1>1, <1>2, <1>3, <2>1, SyncRegisters, PllLock DEF LockInv, At
<1>4. CASE At("rst_pll") /\ ~locked
  <2>1. At("wait_pll_lock")'  BY <1>1, <1>4, Transitions DEF ShapeInv
  <2> QED  BY <1>1, <1>2, <1>4, <2>1, SyncRegisters, PllLock DEF LockInv, At, locked
<1>5. CASE At("wait_pll_lock") /\ locked
  <2>1. At("check_cmp_status")' \/ At("ph_shift")'
    BY <1>1, <1>5, Transitions DEF ShapeInv
  <2> QED  BY <1>1, <1>2, <1>5, <2>1, SyncRegisters, PllLock DEF LockInv, At, locked
<1>6. CASE At("wait_pll_lock") /\ ~locked
  <2>1. At("wait_pll_lock")'  BY <1>1, <1>6, Transitions DEF ShapeInv
  <2> QED  BY <1>1, <1>2, <1>6, <2>1, SyncRegisters, PllLock DEF LockInv, At
<1>7. CASE ~At("rst_pll") /\ ~At("wait_pll_lock")
  <2>1. ~At("wait_pll_lock")'
    BY <1>1, <1>7, Transitions DEF ShapeInv, FsmStates, At
  <2>2. pll'.locked /\ sync'.locked[1] /\ sync'.locked[2] /\ ~fsm'.pll_reset_req
    BY <1>1, <1>2, <1>7, SyncRegisters, PllLock DEF LockInv
  <2> QED  BY <2>1, <2>2 DEF LockInv, At
<1> QED  BY <1>3, <1>4, <1>5, <1>6, <1>7

\* The end of a shift is seen when pll_ps is idle again, and not before.
LEMMA BegunGoesOn ==
  ASSUME ShapeInv, ScanClock, Begun, ps.en_reg
  PROVE  IF ShiftEnds THEN Quiet' ELSE Begun'
<1>1. FsmClock /\ PsClock  BY DEF ScanClock
<1>2. PsIdle => PsIdle'  BY <1>1, PsTransitions DEF ShapeInv
<1>3. (ps'.busy <=> ~PsIdle) /\ (fsm'.ps_ctrl_busy_reg <=> ps.busy)
  BY <1>1, PsRegisters, FsmRegisters
<1> QED  BY <1>2, <1>3 DEF Begun, Quiet, ShiftEnds

\* pll_ps stays idle until it is asked anew, and then begins.
LEMMA QuietGoesOn ==
  ASSUME ShapeInv, ScanClock, Quiet
  PROVE  /\ ~ShiftEnds
         /\ IF ps_ctrl_en /\ ~ps.en_reg THEN Begun' ELSE Quiet'
<1>1. FsmClock /\ PsClock  BY DEF ScanClock
<1>2. IF ps_ctrl_en /\ ~ps.en_reg THEN ps'.current_state = "check_phase_step" ELSE PsIdle'
  BY <1>1, PsTransitions DEF ShapeInv, Quiet
<1>3. ~ps'.busy /\ ~fsm'.ps_ctrl_busy_reg
  BY <1>1, PsRegisters, FsmRegisters DEF Quiet
<1> QED  BY <1>2, <1>3 DEF Begun, Quiet, ShiftEnds, PsIdle

\* In auto mode, pll_ps is asked from ph_shift on until the clock after it.
LEMMA ScanKeepsAuto ==
  ASSUME ShapeInv, AutoInv, ScanClock, AutoMode
  PROVE  AutoInv'
<1>1. FsmClock /\ PsClock  BY DEF ScanClock
<1>2. /\ fsm'.ps_ctrl_en_reg <=> At("ph_shift")
      /\ ps'.en_reg <=> fsm.ps_ctrl_en_reg
      /\ ps_ctrl_en <=> fsm.ps_ctrl_en_reg
  BY <1>1, FsmRegisters, PsRegisters DEF ps_ctrl_en
<1>3. CASE At("ph_shift") /\ ps.en_reg
  <2>1. fsm.ps_ctrl_en_reg /\ Begun  BY <1>3 DEF AutoInv
  <2>2. IF ShiftEnds THEN Quiet' ELSE Begun'  BY <1>3, <2>1, BegunGoesOn
  <2>3. IF ShiftEnds THEN At("wait_after_ph_shift")' ELSE At("ph_shift")'
    BY <1>1, <1>3, Transitions DEF ShapeInv
  <2>4. fsm'.wait_after_ph_shift_cnt = 0
    BY <1>1, <1>3, FsmRegisters, CountCounts DEF ShapeInv, At
  <2>5. CASE ShiftEnds
    BY <1>2, <1>3, <2>1, <2>2, <2>3, <2>4, <2>5 DEF AutoInv, At
  <2>6. CASE ~ShiftEnds
    BY <1>2, <1>3, <2>1, <2>2, <2>3, <2>6 DEF AutoInv
  <2> QED  BY <2>5, <2>6
<1>4. CASE At("ph_shift") /\ ~ps.en_reg
  <2>1. Quiet  BY <1>4 DEF AutoInv
  <2>2. ~ShiftEnds /\ IF ps_ctrl_en /\ ~ps.en_reg THEN Begun' ELSE Quiet'
    BY <2>1, QuietGoesOn
  <2>3. At("ph_shift")'
    BY <1>1, <1>4, <2>2, Transitions DEF ShapeInv
  <2> QED  BY <1>2, <1>4, <2>2, <2>3 DEF AutoInv
<1>5. CASE ~At("ph_shift")
  <2>1. /\ Quiet
        /\ fsm.ps_ctrl_en_reg =>
             ps.en_reg /\ At("wait_after_ph_shift") /\ fsm.wait_after_ph_shift_cnt = 0
    BY <1>5 DEF AutoInv
  <2>2. Quiet'  BY <1>2, <2>1, QuietGoesOn
  <2>3. fsm.ps_ctrl_en_reg => At("wait_after_ph_shift")' /\ fsm'.wait_after_ph_shift_cnt <= 1
    <3> HAVE fsm.ps_ctrl_en_reg
    <3>1. At("wait_after_ph_shift") /\ fsm.wait_after_ph_shift_cnt = 0  BY <2>1
    <3>2. SettleCnt \in Nat  BY ConstantsOK DEF ConstantsOK
    <3>3. At("wait_after_ph_shift")'
      BY <1>1, <3>1, <3>2, Transitions DEF ShapeInv
    <3>4. fsm'.wait_after_ph_shift_cnt = Count(At("wait_after_ph_shift"), 0)
      BY <1>1, <3>1, FsmRegisters
    <3>5. Count(At("wait_after_ph_shift"), 0) <= 1
      BY ConstantsOK DEF ConstantsOK, Count
    <3> QED  BY <3>3, <3>4, <3>5
  <2> QED  BY <1>2, <1>5, <2>2, <2>3 DEF AutoInv, At
<1> QED  BY <1>3, <1>4, <1>5

\* In manual mode, from ps_en on until the shift is done.
LEMMA ScanKeepsManual ==
  ASSUME ShapeInv, HostInv, ManualInv, ScanClock, ~AutoMode
  PROVE  ManualInv'
<1>1. FsmClock /\ PsClock /\ host' = host  BY DEF ScanClock
<1>2. At("idle")  BY DEF HostInv
<1>3. /\ ~fsm'.ps_ctrl_en_reg
      /\ ps'.en_reg <=> host.ps_en
      /\ ps_ctrl_en <=> host.ps_en
      /\ fsm'.ps_done_reg_manual_mode <=>
           host.ps_en /\ (ShiftEnds \/ fsm.ps_done_reg_manual_mode)
  BY <1>1, <1>2, FsmRegisters, PsRegisters DEF ps_ctrl_en, At
<1>4. CASE ~host.ps_en
  <2>1. Quiet'  BY <1>3, <1>4, QuietGoesOn DEF ManualInv
  <2> QED  BY <1>1, <1>3, <1>4, <2>1 DEF ManualInv
<1>5. CASE host.ps_en /\ (~ps.en_reg \/ fsm.ps_done_reg_manual_mode)
  <2>1. Quiet  BY <1>5 DEF ManualInv
  <2>2. ~ShiftEnds /\ IF ps_ctrl_en /\ ~ps.en_reg THEN Begun' ELSE Quiet'
    BY <2>1, QuietGoesOn
  <2> QED  BY <1>1, <1>3, <1>5, <2>2 DEF ManualInv
<1>6. CASE host.ps_en /\ ps.en_reg /\ ~fsm.ps_done_reg_manual_mode
  <2>1. Begun  BY <1>6 DEF ManualInv
  <2>2. IF ShiftEnds THEN Quiet' ELSE Begun'  BY <1>6, <2>1, BegunGoesOn
  <2> QED  BY <1>1, <1>3, <1>6, <2>2 DEF ManualInv
<1> QED  BY <1>4, <1>5, <1>6

\* The PLL is locked and out of reset while pll_ps works.
LEMMA LockedInShift ==
  ASSUME HostInv, ShiftInv, LockInv, ~PsIdle
  PROVE  pll.locked /\ ~fsm.pll_reset_req
<1>1. ~At("rst_pll") /\ ~At("wait_pll_lock")
  BY DEF ShiftInv, AutoInv, ManualInv, HostInv, Quiet, At
<1> QED  BY <1>1 DEF LockInv

\* The invariants of the search outside of a comparison, at an edge of its clock.
LEMMA ScanKeepsRest ==
  ASSUME ShapeInv, RestInv, ScanClock
  PROVE  RestInv'
<1>1. PsClock /\ Pll /\ host' = host  BY DEF ScanClock
<1>2. HostInv'  BY ScanKeepsHost DEF RestInv
<1>3. ShiftInv'  BY <1>1, ScanKeepsAuto, ScanKeepsManual DEF RestInv, ShiftInv, AutoMode
<1>4. LockInv'  BY ScanKeepsLock DEF RestInv
<1>5. PhaseDoneInv'  BY <1>1, LockedInShift, ScanKeepsPhaseDone DEF RestInv
<1> QED  BY <1>2, <1>3, <1>4, <1>5 DEF RestInv

-----------------------------------------------------------------------------
(***************************************************************************)
(* A clock of the PLL's side.                                              *)
(***************************************************************************)

\* While pll_ps_fsm looks at the comparator, the PLL is at rest.
LEMMA RestWhenLooking ==
  ASSUME RestInv, At("check_cmp_status") \/ At("cmp_smpls")
  PROVE  AtRest /\ pll.locked /\ ~fsm.pll_reset_req
<1>1. PsIdle  BY DEF RestInv, HostInv, ShiftInv, AutoInv, Quiet, At
<1>2. pll.locked /\ ~fsm.pll_reset_req  BY DEF RestInv, LockInv, At
<1> QED  BY <1>1, <1>2 DEF RestInv, PhaseDoneInv, PsIdle, AtRest

\* So that a good phase stays good, and a bad one bad.
LEMMA PhaseStaysWhenLooking ==
  ASSUME ShapeInv, RestInv, Pll, At("check_cmp_status") \/ At("cmp_smpls")
  PROVE  Good' <=> Good
<1>1. pll'.phase = pll.phase
  BY RestWhenLooking, LockedPll DEF RestInv, AtRest
<1>2. pll'.good = pll.good  BY PllKeeps
<1> QED  BY <1>1, <1>2 DEF Good, Distance

\* The types of all registers, at an edge of the search's clock.
LEMMA ScanKeepsShape ==
  ASSUME ShapeInv, ScanClock
  PROVE  ShapeInv'
<1>1. /\ FsmClock /\ PsClock /\ Pll
      /\ host' = host /\ smpl' = smpl /\ cmp' = cmp
  BY DEF ScanClock
<1>2. fsm'.current_state \in FsmStates
  <2>1. fsm'.current_state = NextState  BY <1>1, FsmRegisters
  <2>2. NextState \in FsmStates
    BY DEF NextState, AfterVerdict, AfterStep, FsmStates, ShapeInv
  <2> QED  BY <2>1, <2>2
<1>3. ps'.current_state \in PsStates  BY <1>1, PsTransitions DEF ShapeInv
<1>4. fsm'.wait_after_ph_shift_cnt \in Nat
  BY <1>1, FsmRegisters, CountIsNat DEF ShapeInv, At
<1>5. ps'.check_phase_done_cnt \in Nat
  BY <1>1, PsRegisters, CountIsNat DEF ShapeInv
<1>6. /\ HasFields(pll', PllFields)
      /\ pll'.phasedone \in BOOLEAN /\ pll'.rest \in BOOLEAN /\ pll'.left \in Int
  BY <1>1, PllShape
<1> QED  BY <1>1, <1>2, <1>3, <1>4, <1>5, <1>6 DEF ShapeInv, HasFields

\* When a comparison starts all flags are down and the comparator is in reset.
LEMMA StartsAfresh ==
  ASSUME ShapeInv, HandshakeInv, ScanClock, ~At("cmp_smpls"), At("cmp_smpls")'
  PROVE  /\ cmp = CmpReset /\ ~smpl.en[1] /\ ~smpl.en[2] /\ ~cmp.done
         /\ ~sync.done[1] /\ ~sync.done[2]
<1>1. FsmClock  BY DEF ScanClock
<1>2. At("check_cmp_status") /\ ~smpl_cmp_done
  BY <1>1, Transitions DEF ShapeInv, FsmStates, At
<1> QED  BY <1>2 DEF HandshakeInv, smpl_cmp_done

\* pll_ps_fsm acts on the verdict only when both flags have come across.
LEMMA ScanKeepsHandshake ==
  ASSUME ShapeInv, HandshakeInv, ScanClock
  PROVE  HandshakeInv'
<1>1. FsmClock /\ smpl' = smpl /\ cmp' = cmp  BY DEF ScanClock
<1>2. fsm'.smpl_cmp_en <=> At("cmp_smpls")  BY <1>1, FsmRegisters
<1>3. CASE At("cmp_smpls") /\ At("cmp_smpls")'
  BY <1>1, <1>2, <1>3, SyncRegisters DEF HandshakeInv
<1>4. CASE At("cmp_smpls") /\ ~At("cmp_smpls")'
  <2>1. smpl_cmp_done  BY <1>1, <1>4, Transitions DEF ShapeInv
  <2>2. cmp.done /\ sync.done[1]  BY <1>4, <2>1 DEF HandshakeInv, smpl_cmp_done
  <2>3. cmp # CmpReset  BY <2>2 DEF CmpReset
  <2>4. smpl.en[1] /\ smpl.en[2]  BY <1>4, <2>3 DEF HandshakeInv
  <2> QED  BY <1>1, <1>4, <2>2, <2>4, SyncRegisters DEF HandshakeInv
<1>5. CASE ~At("cmp_smpls") /\ ~At("cmp_smpls")'
  BY <1>1, <1>2, <1>5, SyncRegisters DEF HandshakeInv
<1>6. CASE ~At("cmp_smpls") /\ At("cmp_smpls")'
  BY <1>1, <1>6, StartsAfresh, SyncRegisters DEF HandshakeInv
<1> QED  BY <1>3, <1>4, <1>5, <1>6

\* The comparator's side is not touched, and the phase stays.
LEMMA ScanKeepsRun ==
  ASSUME ShapeInv, RestInv, HandshakeInv, SampleInv, RunInv, ScanClock
  PROVE  SampleInv' /\ RunInv'
<1>1. Pll /\ smpl' = smpl /\ cmp' = cmp  BY DEF ScanClock
<1>2. CASE At("cmp_smpls")
  <2>1. Good' <=> Good  BY <1>1, <1>2, PhaseStaysWhenLooking
  <2>2. SampleInv'  BY <1>1, <1>2, <2>1 DEF SampleInv
  <2>3. RunInv'
    BY <1>1, <1>2, <2>1 DEF RunInv, GoodRunInv, BadRunInv, Errors
  <2> QED  BY <2>2, <2>3
<1>3. CASE ~At("cmp_smpls") /\ At("cmp_smpls")'
  <2>1. cmp' = CmpReset /\ ~smpl'.en[2]  BY <1>1, <1>3, StartsAfresh
  <2>2. SampleInv'  BY <1>1, <2>1 DEF SampleInv
  <2>3. RunInv'  BY <2>1 DEF RunInv, GoodRunInv, BadRunInv, CmpReset
  <2> QED  BY <2>2, <2>3
<1>4. CASE ~At("cmp_smpls")'
  BY <1>1, <1>4 DEF SampleInv, RunInv
<1> QED  BY <1>2, <1>3, <1>4

-----------------------------------------------------------------------------
(***************************************************************************)
(* A step of the host.                                                     *)
(***************************************************************************)

\* It changes its own registers, and which phases are good.
LEMMA HostChanges ==
  ASSUME ShapeInv, HostStarts \/ HostEnds
  PROVE  /\ HasFields(host', HostFields)
         /\ HasFields(pll', PllFields)
         /\ pll'.phase = pll.phase /\ pll'.locked = pll.locked
         /\ pll'.phasedone = pll.phasedone /\ pll'.rest = pll.rest
         /\ pll'.kind = pll.kind /\ pll'.left = pll.left
<1> USE DEF ShapeInv, HasFields, PllFields, HostFields
<1>1. CASE HostStarts
  <2>1. PICK up \in BOOLEAN : \/ \E step \in StepSizes : HostSearches(up, step)
                              \/ \E phase \in ManualPhases : HostShifts(up, phase)
    BY <1>1 DEF HostStarts
  <2>2. CASE \E step \in StepSizes : HostSearches(up, step)
    BY <2>2 DEF HostSearches
  <2>3. CASE \E phase \in ManualPhases : HostShifts(up, phase)
    BY <2>3 DEF HostShifts
  <2> QED  BY <2>1, <2>2, <2>3
<1>2. CASE HostEnds
  BY <1>2 DEF HostEnds
<1> QED  BY <1>1, <1>2

\* It starts when all is quiet, and ends when the machine is idle.
LEMMA HostIsIdle ==
  ASSUME RestInv, HostStarts \/ HostEnds
  PROVE  At("idle") /\ Quiet /\ ~fsm.ps_ctrl_en_reg
<1>1. CASE HostStarts
  BY <1>1 DEF HostStarts, RestInv, HostInv, ShiftInv, AutoInv, ManualInv, At
<1>2. CASE HostEnds
  BY <1>2 DEF HostEnds, ps_done, RestInv, HostInv, ShiftInv, AutoInv, ManualInv, At
<1> QED  BY <1>1, <1>2

\* The host raises and lowers ps_en only when the search is idle.
LEMMA HostKeepsRest ==
  ASSUME ShapeInv, RestInv, HostStarts \/ HostEnds
  PROVE  RestInv'
<1>1. fsm' = fsm /\ ps' = ps /\ sync' = sync  BY DEF HostStarts, HostEnds
<1>2. At("idle") /\ Quiet /\ ~fsm.ps_ctrl_en_reg  BY HostIsIdle
<1>3. HostInv'
  BY <1>1, <1>2 DEF RestInv, HostInv, At
<1>4. ShiftInv'
  <2>1. CASE HostStarts
    <3>1. ~ps.en_reg /\ ~fsm.ps_done_reg_manual_mode
      BY <2>1 DEF HostStarts, RestInv, HostInv
    <3> QED  BY <1>1, <1>2, <3>1 DEF ShiftInv, AutoInv, ManualInv, Quiet, PsIdle, At
  <2>2. CASE HostEnds
    <3>1. ~host'.ps_en /\ host'.ps_mode = host.ps_mode
      BY <2>2 DEF HostEnds, ShapeInv, HasFields, HostFields
    <3>2. CASE AutoMode
      BY <1>1, <1>2, <3>1, <3>2
      DEF RestInv, ShiftInv, AutoInv, Quiet, PsIdle, At, AutoMode
    <3>3. CASE ~AutoMode
      <4>1. fsm.ps_done_reg_manual_mode => ps.en_reg
        BY <3>3 DEF RestInv, ShiftInv, ManualInv
      <4> QED
        BY <1>1, <1>2, <3>1, <3>3, <4>1 DEF ShiftInv, ManualInv, Quiet, PsIdle, AutoMode
    <3> QED  BY <3>2, <3>3
  <2> QED  BY <2>1, <2>2
<1>5. LockInv'
  BY <1>1, HostChanges DEF RestInv, LockInv, At
<1>6. PhaseDoneInv'
  BY <1>1, HostChanges DEF RestInv, PhaseDoneInv
<1> QED  BY <1>3, <1>4, <1>5, <1>6 DEF RestInv

\* So the host disturbs no part of the invariant.
LEMMA HostKeepsInv ==
  ASSUME IInv, HostStarts \/ HostEnds
  PROVE  IInv'
<1>1. fsm' = fsm /\ ps' = ps /\ sync' = sync /\ smpl' = smpl /\ cmp' = cmp
  BY DEF HostStarts, HostEnds
<1>2. ShapeInv'
  BY <1>1, HostChanges DEF IInv, ShapeInv, HasFields
<1>3. RestInv'  BY HostKeepsRest DEF IInv
<1>4. ~At("cmp_smpls")  BY HostIsIdle DEF IInv, At
<1>5. HandshakeInv' /\ SampleInv' /\ RunInv'
  BY <1>1, <1>4 DEF IInv, HandshakeInv, SampleInv, RunInv, At
<1> QED  BY <1>2, <1>3, <1>5 DEF IInv

-----------------------------------------------------------------------------
(***************************************************************************)
(* A clock of the samples.                                                 *)
(***************************************************************************)

\* The comparator is let go when smpl_cmp_en has come across, both flip-flops.
LetGo == smpl.en[1] /\ smpl.en[2]

\* What comes in.
LEMMA SmplRegisters ==
  ASSUME SmplClock
  PROVE  /\ smpl'.en[1] <=> fsm.smpl_cmp_en
         /\ smpl'.en[2] <=> smpl.en[1]
         /\ smpl'.mux0.chan = IF smpl.mux0.chan = "A" THEN "B" ELSE "A"
         /\ smpl'.mux0.bad \in BadSample
         /\ smpl'.clean = IF smpl'.mux0.bad \/ ~smpl.en[1] \/ ~AtRest \/ Good
                          THEN 0 ELSE smpl.clean + 1
BY DEF SmplClock, Good

\* What the comparator makes of it once it is let go.
LEMMA CmpRegisters ==
  ASSUME SmplClock, LetGo
  PROVE  /\ cmp' = CmpStep
         /\ cmp'.current_state = NextCmpState
         /\ cmp'.diq.chan = smpl.mux0.chan
         /\ cmp'.diq.bad = smpl.mux0.bad
         /\ cmp'.start_reg
         /\ cmp'.err = [cmp.err EXCEPT ![cmp.diq.chan] = cmp.diq.bad]
         /\ cmp'.smpl_err <=> Errors
         /\ cmp'.wait_cnt = Count(cmp.current_state = "wait_cyc", cmp.wait_cnt)
         /\ cmp'.compare_cnt = Count(cmp.current_state = "compare", cmp.compare_cnt)
         /\ cmp'.compare_stop <=> cmp.compare_cnt > CmpLength - 1
         /\ cmp'.done <=> cmp.current_state = "compare_done" \/ cmp.done
         /\ cmp'.error <=> (cmp.current_state = "compare" /\ cmp.smpl_err) \/ cmp.error
<1>1. cmp' = CmpStep  BY DEF SmplClock, LetGo
<1> QED  BY <1>1 DEF CmpStep, LetGo, Errors, smpl_cmp_start

\* Until then it is in reset.
LEMMA CmpHeld ==
  ASSUME SmplClock, ~LetGo
  PROVE  cmp' = CmpReset
BY DEF SmplClock, LetGo

\* The types of all registers, at an edge of the samples' clock.
LEMMA SmplKeepsShape ==
  ASSUME ShapeInv, SmplClock
  PROVE  ShapeInv'
<1>1. fsm' = fsm /\ ps' = ps /\ host' = host /\ pll' = pll  BY DEF SmplClock
<1>2. smpl'.mux0.chan \in Channels  BY SmplRegisters DEF Channels
<1>3. smpl'.clean \in Nat
  <2>1. smpl.clean \in Nat  BY DEF ShapeInv
  <2>2. smpl'.clean = 0 \/ smpl'.clean = smpl.clean + 1  BY SmplRegisters
  <2> QED  BY <2>1, <2>2
<1>4. /\ cmp'.current_state \in CmpStates /\ cmp'.diq.chan \in Channels
      /\ HasFields(cmp'.err, Channels)
      /\ cmp'.wait_cnt \in Nat /\ cmp'.compare_cnt \in Nat
  <2>1. CASE ~LetGo
    BY <2>1, CmpHeld DEF CmpReset, CmpStates, Channels, HasFields
  <2>2. CASE LetGo
    <3>1. cmp'.current_state \in CmpStates
      BY <2>2, CmpRegisters DEF ShapeInv, NextCmpState, CmpStates
    <3>2. cmp'.diq.chan \in Channels  BY <2>2, CmpRegisters DEF ShapeInv
    <3>3. HasFields(cmp'.err, Channels)
      BY <2>2, CmpRegisters DEF ShapeInv, HasFields, Channels
    <3>4. cmp'.wait_cnt \in Nat /\ cmp'.compare_cnt \in Nat
      BY <2>2, CmpRegisters, CountIsNat DEF ShapeInv
    <3> QED  BY <3>1, <3>2, <3>3, <3>4
  <2> QED  BY <2>1, <2>2
<1> QED  BY <1>1, <1>2, <1>3, <1>4 DEF ShapeInv, HasFields

\* Once its flag is up the comparator does nothing until it is held in reset.
LEMMA SmplKeepsHandshake ==
  ASSUME ShapeInv, HandshakeInv, RunInv, SmplClock
  PROVE  HandshakeInv'
<1>1. fsm' = fsm /\ sync' = sync  BY DEF SmplClock
<1>2. CASE At("cmp_smpls")
  <2>1. cmp' # CmpReset => smpl.en[1]  BY CmpHeld DEF LetGo
  <2>2. cmp.done => cmp'.done /\ (cmp'.error <=> cmp.error)
    <3> SUFFICES ASSUME cmp.done
                 PROVE  cmp'.done /\ (cmp'.error <=> cmp.error)
      OBVIOUS
    <3>1. LetGo  BY <1>2 DEF HandshakeInv, LetGo, CmpReset
    <3>2. cmp.current_state = "idle"  BY <1>2 DEF RunInv
    <3> QED  BY <3>1, <3>2, CmpRegisters
  <2> QED  BY <1>1, <1>2, <2>1, <2>2, SmplRegisters DEF HandshakeInv, At
<1>3. CASE ~At("cmp_smpls")
  <2>1. CASE LetGo
    <3>1. cmp.done  BY <1>3, <2>1 DEF HandshakeInv, LetGo
    <3>2. cmp'.done  BY <2>1, <3>1, CmpRegisters
    <3> QED  BY <1>1, <1>3, <3>1, <3>2, SmplRegisters DEF HandshakeInv, At
  <2>2. CASE ~LetGo
    <3>1. cmp' = CmpReset /\ ~cmp'.done  BY <2>2, CmpHeld DEF CmpReset
    <3>2. ~smpl.en[1] /\ ~fsm.smpl_cmp_en  BY <1>3, <2>2 DEF HandshakeInv, LetGo
    <3> QED  BY <1>1, <1>3, <3>1, <3>2, SmplRegisters DEF HandshakeInv, At
  <2> QED  BY <2>1, <2>2
<1> QED  BY <1>2, <1>3

\* The phase is right or wrong for all samples of a comparison.
LEMMA SmplKeepsSamples ==
  ASSUME ShapeInv, RestInv, SampleInv, SmplClock
  PROVE  SampleInv'
<1>1. fsm' = fsm /\ pll' = pll  BY DEF SmplClock
<1>2. Good' <=> Good  BY <1>1 DEF Good, Distance
<1>3. CmpLength \in Nat /\ CmpLength >= 1  BY ConstantsOK DEF ConstantsOK
<1>4. smpl.clean \in Nat /\ smpl.clean <= CmpLength - 1
  BY DEF ShapeInv, SampleInv
<1>5. ~smpl.en[1] => ~smpl'.mux0.bad
  BY SmplRegisters DEF BadSample
<1>6. smpl'.clean <= CmpLength - 1
  <2>1. CASE smpl.clean = CmpLength - 1
    <3>1. smpl'.mux0.bad \/ ~smpl.en[1] \/ ~AtRest \/ Good
      BY <2>1, SmplRegisters DEF BadSample, Good
    <3>2. smpl'.clean = 0  BY <3>1, SmplRegisters
    <3> QED  BY <1>3, <3>2
  <2>2. CASE smpl.clean # CmpLength - 1
    <3>1. smpl'.clean = 0 \/ smpl'.clean = smpl.clean + 1  BY SmplRegisters
    <3> QED  BY <1>3, <1>4, <2>2, <3>1
  <2> QED  BY <2>1, <2>2
<1>7. At("cmp_smpls") /\ smpl.en[1] =>
        IF Good THEN ~smpl'.mux0.bad ELSE ~smpl'.mux0.bad => smpl'.clean >= 1
  <2> HAVE At("cmp_smpls") /\ smpl.en[1]
  <2>1. AtRest  BY RestWhenLooking
  <2>2. CASE Good
    BY <2>1, <2>2, SmplRegisters DEF BadSample, Good
  <2>3. CASE ~Good
    <3>1. ~smpl'.mux0.bad => smpl'.clean = smpl.clean + 1
      BY <2>1, <2>3, SmplRegisters
    <3> QED  BY <1>4, <2>3, <3>1
  <2> QED  BY <2>2, <2>3
<1> QED  BY <1>1, <1>2, <1>5, <1>6, <1>7, SmplRegisters DEF SampleInv, At

\* What the comparator does next, a state at a time.
LEMMA CmpTransitions ==
  ASSUME ShapeInv, SmplClock, LetGo
  PROVE  /\ cmp.current_state = "idle" =>
              cmp'.current_state = IF cmp.start_reg THEN "idle" ELSE "wait_cyc"
         /\ cmp.current_state = "wait_cyc" =>
              cmp'.current_state = IF WaitOver THEN "compare" ELSE "wait_cyc"
         /\ cmp.current_state = "compare" =>
              cmp'.current_state =
                IF cmp.compare_stop \/ cmp.smpl_err THEN "compare_done" ELSE "compare"
         /\ cmp.current_state = "compare_done" => cmp'.current_state = "idle"
         /\ cmp.current_state \in {"idle", "wait_cyc", "compare", "compare_done"}
BY CmpRegisters DEF NextCmpState, ShapeInv, CmpStates, LetGo, smpl_cmp_start

\* The errors of the two channels after a clock.
LEMMA ErrRegisters ==
  ASSUME ShapeInv, SmplClock, LetGo
  PROVE  /\ cmp.diq.chan = "A" => cmp'.err.A = cmp.diq.bad /\ cmp'.err.B = cmp.err.B
         /\ cmp.diq.chan = "B" => cmp'.err.B = cmp.diq.bad /\ cmp'.err.A = cmp.err.A
BY CmpRegisters DEF ShapeInv, HasFields, Channels

\* At a good phase the comparator's error of its reset is gone before it compares.
LEMMA SmplKeepsGoodRun ==
  ASSUME ShapeInv, SampleInv, RunInv, SmplClock, LetGo, At("cmp_smpls"), Good
  PROVE  GoodRunInv'
<1> SUFFICES ASSUME cmp'.current_state \in {"wait_cyc", "compare"}
             PROVE  /\ ~cmp'.diq.bad /\ cmp'.diq.chan # smpl'.mux0.chan /\ ~cmp'.err.B
                    /\ cmp'.err.A => cmp'.current_state = "wait_cyc" /\
                         (cmp'.wait_cnt = 0 \/ (cmp'.wait_cnt = 1 /\ cmp'.diq.chan = "A"))
                    /\ cmp'.smpl_err => cmp'.current_state = "wait_cyc" /\ cmp'.wait_cnt <= 2
  BY DEF GoodRunInv
<1>1. ~cmp'.diq.bad
  <2>1. ~smpl.mux0.bad  BY DEF SampleInv, LetGo
  <2> QED  BY <2>1, CmpRegisters
<1>2. smpl.mux0.chan \in Channels /\ cmp.diq.chan \in Channels  BY DEF ShapeInv
<1>3. cmp'.diq.chan = smpl.mux0.chan /\ cmp'.diq.chan # smpl'.mux0.chan
  BY <1>2, CmpRegisters, SmplRegisters DEF Channels
<1>4. CASE cmp.current_state = "idle"
  <2>1. cmp = CmpReset
    BY <1>4, CmpTransitions DEF RunInv
  <2>2. cmp'.current_state = "wait_cyc"  BY <1>4, <2>1, CmpTransitions DEF CmpReset
  <2>3. ~cmp'.err.B  BY <2>1, ErrRegisters DEF CmpReset
  <2>4. ~cmp'.smpl_err  BY <2>1, CmpRegisters DEF CmpReset, Errors
  <2>5. cmp'.wait_cnt = 0
    BY <1>4, CmpRegisters DEF Count
  <2> QED  BY <1>1, <1>3, <2>2, <2>3, <2>4, <2>5
<1>5. CASE cmp.current_state = "wait_cyc"
  <2>1. /\ ~cmp.diq.bad /\ cmp.diq.chan # smpl.mux0.chan /\ ~cmp.err.B
        /\ cmp.err.A => cmp.wait_cnt = 0 \/ (cmp.wait_cnt = 1 /\ cmp.diq.chan = "A")
    BY <1>5 DEF RunInv, GoodRunInv
  <2>2. ~cmp'.err.B  BY <1>2, <2>1, ErrRegisters DEF Channels
  <2>3. cmp.wait_cnt \in Nat  BY DEF ShapeInv
  <2>4. cmp.wait_cnt <= 2 => cmp'.wait_cnt = cmp.wait_cnt + 1
    <3>1. CounterMax \in Nat /\ 3 <= CounterMax - 1  BY ConstantsOK DEF ConstantsOK
    <3> QED  BY <1>5, <2>3, <3>1, CmpRegisters DEF Count
  <2>5. cmp.wait_cnt <= 3 => cmp'.current_state = "wait_cyc"
    BY <1>5, <2>3, CmpTransitions DEF WaitOver
  <2>6. cmp'.err.A => cmp.wait_cnt = 0 /\ cmp'.diq.chan = "A"
    BY <1>2, <1>3, <2>1, ErrRegisters DEF Channels
  <2>7. cmp'.smpl_err => cmp.wait_cnt = 0 \/ cmp.wait_cnt = 1
    BY <2>1, CmpRegisters DEF Errors
  <2> QED  BY <1>1, <1>3, <2>2, <2>3, <2>4, <2>5, <2>6, <2>7
<1>6. CASE cmp.current_state = "compare"
  <2>1. ~cmp.diq.bad /\ ~cmp.err.A /\ ~cmp.err.B
    BY <1>6 DEF RunInv, GoodRunInv
  <2>2. ~cmp'.err.A /\ ~cmp'.err.B  BY <1>2, <2>1, ErrRegisters DEF Channels
  <2>3. ~cmp'.smpl_err  BY <2>1, CmpRegisters DEF Errors
  <2> QED  BY <1>1, <1>3, <2>2, <2>3
<1> QED  BY <1>4, <1>5, <1>6, CmpTransitions

\* At a bad one an error goes through before the comparison ends.
LEMMA SmplKeepsBadRun ==
  ASSUME ShapeInv, RestInv, SampleInv, RunInv, SmplClock, LetGo, At("cmp_smpls"), ~Good
  PROVE  BadRunInv'
<1>1. /\ CmpLength \in Nat /\ CmpLength >= 1
      /\ CounterMax \in Nat /\ CmpLength <= CounterMax - 1
  BY ConstantsOK DEF ConstantsOK
<1>2. /\ smpl.clean \in Nat /\ smpl.clean <= CmpLength - 1
      /\ ~smpl.mux0.bad => smpl.clean >= 1
  BY DEF ShapeInv, SampleInv, LetGo
<1>3. ~smpl'.mux0.bad => smpl'.clean = smpl.clean + 1
  BY RestWhenLooking, SmplRegisters DEF LetGo
<1>4. cmp'.diq.bad = smpl.mux0.bad  BY CmpRegisters
<1>5. CASE cmp.current_state = "idle"
  <2>1. cmp'.current_state \in {"idle", "wait_cyc"}  BY <1>5, CmpTransitions
  <2> SUFFICES ASSUME cmp'.current_state = "wait_cyc"
               PROVE  ~cmp'.compare_stop /\ cmp'.compare_cnt = 0
    BY <2>1 DEF BadRunInv
  <2>2. cmp.compare_cnt = 0
    BY <1>5, CmpTransitions DEF RunInv, CmpReset
  <2> QED  BY <1>1, <1>5, <2>2, CmpRegisters DEF Count
<1>6. CASE cmp.current_state = "wait_cyc"
  <2>1. cmp.compare_cnt = 0  BY <1>6 DEF RunInv, BadRunInv
  <2>2. ~cmp'.compare_stop /\ cmp'.compare_cnt = 0
    BY <1>1, <1>6, <2>1, CmpRegisters DEF Count
  <2>3. IF cmp'.diq.bad THEN cmp'.compare_cnt <= CmpLength - 1
        ELSE IF smpl'.mux0.bad THEN cmp'.compare_cnt <= CmpLength - 2
        ELSE cmp'.compare_cnt + 2 <= smpl'.clean
    BY <1>1, <1>2, <1>3, <1>4, <2>2
  <2> QED  BY <1>1, <2>2, <2>3 DEF BadRunInv
<1>7. CASE cmp.current_state = "compare"
  <2>1. CASE cmp.compare_stop \/ cmp.smpl_err
    BY <1>7, <2>1, CmpTransitions DEF BadRunInv
  <2>2. CASE ~cmp.compare_stop /\ ~cmp.smpl_err
    <3>1. cmp'.current_state = "compare"  BY <1>7, <2>2, CmpTransitions
    <3>2. /\ cmp.compare_cnt \in Nat /\ cmp.compare_cnt <= CmpLength
          /\ ~Errors =>
               IF cmp.diq.bad THEN cmp.compare_cnt <= CmpLength - 1
               ELSE IF smpl.mux0.bad THEN cmp.compare_cnt <= CmpLength - 2
               ELSE cmp.compare_cnt + 2 <= smpl.clean
      BY <1>7, <2>2 DEF ShapeInv, RunInv, BadRunInv
    <3>3. cmp'.compare_cnt = cmp.compare_cnt + 1
      BY <1>1, <1>7, <3>2, CmpRegisters DEF Count
    <3>4. cmp'.smpl_err \/ cmp'.compare_cnt <= CmpLength
      <4>1. ~Errors => cmp.compare_cnt <= CmpLength - 1  BY <1>1, <1>2, <3>2
      <4>2. cmp'.smpl_err <=> Errors  BY CmpRegisters
      <4> QED  BY <1>1, <3>2, <3>3, <4>1, <4>2
    <3>5. cmp'.compare_stop => cmp'.compare_cnt > CmpLength
      <4>1. cmp'.compare_stop <=> cmp.compare_cnt > CmpLength - 1  BY CmpRegisters
      <4> QED  BY <1>1, <3>2, <3>3, <4>1
    <3>6. ~cmp'.smpl_err /\ ~Errors' =>
            IF cmp'.diq.bad THEN cmp'.compare_cnt <= CmpLength - 1
            ELSE IF smpl'.mux0.bad THEN cmp'.compare_cnt <= CmpLength - 2
            ELSE cmp'.compare_cnt + 2 <= smpl'.clean
      <4> HAVE ~cmp'.smpl_err /\ ~Errors'
      <4>1. ~Errors  BY CmpRegisters
      <4>2. ~cmp.diq.bad  BY ErrRegisters DEF Errors, ShapeInv, Channels
      <4> QED  BY <1>1, <1>2, <1>3, <1>4, <3>2, <3>3, <4>1, <4>2
    <3> QED  BY <3>1, <3>4, <3>5, <3>6 DEF BadRunInv
  <2> QED  BY <2>1, <2>2
<1>8. CASE cmp.current_state = "compare_done"
  BY <1>8, CmpTransitions DEF BadRunInv
<1> QED  BY <1>5, <1>6, <1>7, <1>8, CmpTransitions

\* Its verdict is error exactly at a bad phase.
LEMMA SmplKeepsVerdict ==
  ASSUME ShapeInv, RunInv, SmplClock, LetGo, At("cmp_smpls")
  PROVE  cmp'.current_state = "compare_done" \/ cmp'.done => (cmp'.error <=> ~Good)
<1>1. CASE cmp.current_state = "compare_done" \/ cmp.done
  <2>1. cmp.error <=> ~Good  BY <1>1 DEF RunInv
  <2>2. cmp.current_state # "compare"  BY <1>1 DEF RunInv
  <2> QED  BY <2>1, <2>2, CmpRegisters
<1>2. CASE cmp.current_state # "compare_done" /\ ~cmp.done
  <2> HAVE cmp'.current_state = "compare_done" \/ cmp'.done
  <2>1. cmp'.current_state = "compare_done"  BY <1>2, CmpRegisters
  <2>2. cmp.current_state = "compare" /\ (cmp.compare_stop \/ cmp.smpl_err)
    BY <1>2, <2>1, CmpTransitions
  <2>3. cmp'.error <=> cmp.smpl_err
    BY <2>2, CmpRegisters DEF RunInv
  <2>4. CASE Good
    BY <2>2, <2>3, <2>4 DEF RunInv, GoodRunInv
  <2>5. CASE ~Good
    <3>1. cmp.smpl_err \/ cmp.compare_cnt <= CmpLength
      BY <2>2, <2>5 DEF RunInv, BadRunInv
    <3>2. cmp.compare_stop => cmp.compare_cnt > CmpLength
      BY <2>2, <2>5 DEF RunInv, BadRunInv
    <3>3. cmp.compare_cnt \in Nat /\ CmpLength \in Nat
      BY ConstantsOK DEF ConstantsOK, ShapeInv
    <3> QED  BY <2>2, <2>3, <2>5, <3>1, <3>2, <3>3
  <2> QED  BY <2>4, <2>5
<1> QED  BY <1>1, <1>2

\* What the comparator has counted is of this phase, at an edge of the samples' clock.
LEMMA SmplKeepsRun ==
  ASSUME IInv, SmplClock
  PROVE  RunInv'
<1>1. fsm' = fsm /\ pll' = pll  BY DEF SmplClock
<1>2. Good' <=> Good  BY <1>1 DEF Good, Distance
<1> SUFFICES ASSUME At("cmp_smpls")
             PROVE  RunInv'
  BY <1>1 DEF RunInv, At
<1>3. CASE ~LetGo
  <2>1. cmp' = CmpReset  BY <1>3, CmpHeld
  <2> QED  BY <2>1 DEF RunInv, GoodRunInv, BadRunInv, CmpReset
<1>4. CASE LetGo
  <2> USE <1>4 DEF IInv
  <2>1. cmp'.done => cmp'.current_state = "idle"
    BY CmpRegisters, CmpTransitions DEF RunInv
  <2>2. cmp'.current_state = "idle" => cmp'.done
    BY CmpRegisters, CmpTransitions DEF RunInv
  <2>3. cmp'.start_reg  BY CmpRegisters
  <2>4. cmp'.current_state \in {"wait_cyc", "compare"} => ~cmp'.error
    <3>1. CASE cmp.current_state = "idle"
      BY <3>1, CmpRegisters, CmpTransitions DEF RunInv, CmpReset
    <3>2. CASE cmp.current_state # "idle"
      BY <3>2, CmpRegisters, CmpTransitions DEF RunInv
    <3> QED  BY <3>1, <3>2
  <2>5. cmp'.current_state = "compare_done" \/ cmp'.done => (cmp'.error <=> ~Good)
    BY SmplKeepsVerdict
  <2>6. Good => GoodRunInv'  BY SmplKeepsGoodRun
  <2>7. ~Good => BadRunInv'  BY SmplKeepsBadRun
  <2> QED  BY <1>2, <2>1, <2>2, <2>3, <2>4, <2>5, <2>6, <2>7 DEF RunInv
<1> QED  BY <1>3, <1>4

-----------------------------------------------------------------------------
(***************************************************************************)
(* The theorem.                                                            *)
(***************************************************************************)

\* The registers after reset.
LEMMA InitInv ==
  ASSUME Init
  PROVE  IInv
<1> PICK k \in PllKinds :
      pll = [phase |-> 0, locked |-> TRUE, phasedone |-> (k # "low"), rest |-> (k # "low"),
             kind |-> k, seen |-> 0, left |-> 0, good |-> {}]
  BY DEF Init
<1>1. ShapeInv
  <2>1. HasFields(host, HostFields)  BY DEF Init, HasFields, HostFields
  <2>2. HasFields(pll, PllFields) /\ pll.left \in Int
    <3>1. \A d, r : HasFields([phase |-> 0, locked |-> TRUE, phasedone |-> d, rest |-> r,
                              kind |-> k, seen |-> 0, left |-> 0, good |-> {}], PllFields)
      BY DEF HasFields, PllFields
    <3> QED  BY <3>1
  <2>3. pll.phasedone \in BOOLEAN /\ pll.rest \in BOOLEAN
    <3>1. pll.phasedone = (k # "low") /\ pll.rest = (k # "low")  OBVIOUS
    <3> QED  BY <3>1, Zenon
  <2>4. HasFields(cmp.err, Channels)  BY DEF Init, CmpReset, HasFields, Channels
  <2> QED
    BY <2>1, <2>2, <2>3, <2>4
    DEF Init, ShapeInv, FsmStates, PsStates, CmpStates, Channels, CmpReset
<1>2. RestInv
  <2>1. HostInv /\ ShiftInv
    BY DEF Init, HostInv, ShiftInv, AutoInv, ManualInv, Quiet, PsIdle, AutoMode, At
  <2>2. LockInv  BY DEF Init, LockInv, At
  <2>3. PhaseDoneInv  BY DEF PhaseDoneInv
  <2> QED  BY <2>1, <2>2, <2>3 DEF RestInv
<1>3. HandshakeInv  BY DEF Init, HandshakeInv, CmpReset, At
<1>4. SampleInv
  <2>1. CmpLength \in Nat /\ CmpLength >= 1  BY ConstantsOK DEF ConstantsOK
  <2> QED  BY <2>1 DEF Init, SampleInv, At
<1>5. RunInv  BY DEF Init, RunInv, At
<1> QED  BY <1>1, <1>2, <1>3, <1>4, <1>5 DEF IInv

\* Every step keeps the invariant.
LEMMA StepInv ==
  ASSUME IInv, [Next]_vars
  PROVE  IInv'
<1>1. CASE HostStarts \/ HostEnds  BY <1>1, HostKeepsInv
<1>2. CASE ScanClock
  BY <1>2, ScanKeepsShape, ScanKeepsRest, ScanKeepsHandshake, ScanKeepsRun DEF IInv
<1>3. CASE SmplClock
  <2>1. RestInv'
    <3>1. fsm' = fsm /\ ps' = ps /\ pll' = pll /\ host' = host /\ sync' = sync
      BY <1>3 DEF SmplClock
    <3> QED  BY <3>1 DEF IInv, RestInv, HostInv, ShiftInv, AutoInv, ManualInv, Begun, Quiet,
               PsIdle, AutoMode, LockInv, PhaseDoneInv, At
  <2> QED
    BY <1>3, <2>1, SmplKeepsShape, SmplKeepsHandshake, SmplKeepsSamples, SmplKeepsRun
    DEF IInv
<1>4. CASE UNCHANGED vars
  BY <1>4 DEF vars, IInv, ShapeInv, HasFields, RestInv, HostInv, ShiftInv, AutoInv,
     ManualInv, Begun, Quiet, PsIdle, AutoMode, LockInv, PhaseDoneInv, HandshakeInv,
     SampleInv, RunInv, GoodRunInv, BadRunInv, Errors, Good, Distance, At
<1> QED  BY <1>1, <1>2, <1>3, <1>4 DEF Next

\* What pll_ps_fsm acts on has come across after the comparator's own flags.
LEMMA InvMeansVerdict ==
  ASSUME IInv
  PROVE  VerdictIsOfThisPhase
<1> SUFFICES ASSUME At("cmp_smpls"), smpl_cmp_done
             PROVE  AtRest /\ (smpl_cmp_error <=> ~Good)
  BY DEF VerdictIsOfThisPhase, At, Good
<1>1. AtRest  BY RestWhenLooking DEF IInv
<1>2. cmp.done /\ (smpl_cmp_error <=> cmp.error)
  BY DEF IInv, HandshakeInv, smpl_cmp_done, smpl_cmp_error
<1>3. cmp.error <=> ~Good  BY <1>2 DEF IInv, RunInv
<1> QED  BY <1>1, <1>2, <1>3

\* pll_ps_fsm always acts on the verdict about the phase it is at: whatever the rates
\* of the two clocks, the widths of the counters, the length of the comparison, the
\* windows of good phases, and the time the PLL takes to lock and to shift.
THEOREM VerdictCurrent == Spec => []VerdictIsOfThisPhase
<1>1. Init => IInv  BY InitInv
<1>2. IInv /\ [Next]_vars => IInv'  BY StepInv
<1>3. IInv => VerdictIsOfThisPhase  BY InvMeansVerdict
<1> QED  BY <1>1, <1>2, <1>3, PTL DEF Spec

-----------------------------------------------------------------------------
(***************************************************************************)
(* The inductive invariant of the counters and of the phase.               *)
(***************************************************************************)

\* What is a phase, or a number of steps, has the width of the counters.
WidthInv ==
  /\ fsm.step_cnt \in Phases /\ fsm.step_cnt_min \in Phases /\ fsm.step_cnt_max \in Phases
  /\ fsm.step_cnt_max_reg \in Phases /\ fsm.step_cnt_diff \in Phases
  /\ fsm.step_cnt_middle \in Phases /\ fsm.step_cnt_reverse \in Phases
  /\ fsm.ps_ctrl_phase_reg \in Phases /\ fsm.ps_step_size_reg \in Phases
  /\ ps.current_phase_step_cnt \in Phases /\ ps.phase_reg \in Phases
  /\ host.ps_phase \in Phases /\ host.ps_step_size \in Phases

\* A counter of the clocks in a state leaves it after one more than its limit.
Timer(here, limit) == 0 .. IF here THEN limit + 1 ELSE limit + 2
TimerInv ==
  /\ fsm.prep_phase_cnt \in Timer(At("prep_phase"), 2)
  /\ fsm.wait_after_ph_shift_cnt \in Timer(At("wait_after_ph_shift"), SettleCnt)
  /\ ps.phase_step_cnt \in Timer(ps.current_state = "phase_step", Timeout)
  /\ ps.check_phase_done_cnt \in Timer(ps.current_state = "check_phase_done", Timeout)

\* compare_stop is one clock late.
CompareInv ==
  /\ cmp.wait_cnt \in Timer(cmp.current_state = "wait_cyc", 3)
  /\ cmp.compare_cnt \in Timer(cmp.current_state = "compare", CmpLength)
  /\ cmp.current_state \in {"idle", "wait_cyc"} => cmp.compare_cnt = 0
  /\ cmp.current_state = "compare" /\ cmp.compare_cnt > CmpLength => cmp.compare_stop

CounterInv == WidthInv /\ TimerInv /\ CompareInv

\* The steps that the PLL has made of the shift that pll_ps works on.
Made ==
  LET n == ps.current_phase_step_cnt IN
  IF ps.current_state = "check_phase_step" THEN n
  ELSE IF ps.current_state = "phase_step" THEN n - 1
  ELSE IF ps.current_state = "check_phase_done" THEN (IF pll.phasedone THEN n ELSE n - 1)
  ELSE ps.phase_reg

\* pll_ps asks for a step and waits until the PLL has made it.
MadeInv ==
  /\ ps.current_state = "check_phase_step" =>
       ps.current_phase_step_cnt \in 0 .. ps.phase_reg /\ ps.phase_step_cnt = 0
  /\ ps.current_state \in {"phase_step", "check_phase_done"} =>
       ps.current_phase_step_cnt \in 1 .. ps.phase_reg
  /\ ps.current_state = "phase_step" =>
       IF pll.phasedone THEN pll.seen = ps.phase_step_cnt /\ pll.seen \in {0, 1}
       ELSE ps.phase_step_cnt = 2
  /\ ps.current_state \notin {"phase_step", "check_phase_done"} => pll.seen = 0

Moved(from, up, total) ==
  /\ ps.phase_reg = total /\ ps.updown_reg = up
  /\ pll.phase = from + Direction(up) * Made

ManualPos ==
  host.ps_en =>
    /\ host.origin \in -MaxPhase .. MaxPhase
    /\ host.origin - host.ps_phase \in -MaxPhase .. MaxPhase
    /\ host.origin + host.ps_phase \in -MaxPhase .. MaxPhase
    /\ IF ps.en_reg THEN Moved(host.origin, host.ps_updwn, host.ps_phase)
       ELSE pll.phase = host.origin

Result == Found(host.ps_step_size, pll.good)
PhaseAt(x) == pll.phase = Direction(host.ps_updwn) * x

\* The registers of a search.
SearchRegs ==
  /\ host.ps_step_size \in StepSizes
  /\ ~At("idle") =>
       /\ fsm.ps_step_size_reg = host.ps_step_size /\ fsm.ps_updwn_reg = host.ps_updwn
       /\ ~(At("rst_pll") /\ ~fsm.pll_reset_req) =>
            fsm.step_cnt_max_reg = MaxPhase - host.ps_step_size
       /\ fsm.find_min => fsm.find_max
       /\ At("rst_pll") \/ At("wait_pll_lock") => fsm.find_min /\ fsm.step_cnt = 0
       /\ At("min_found") => fsm.find_min
       /\ At("max_found") => fsm.find_max /\ ~fsm.find_min
       /\ At("check_max_steps") => fsm.find_max
       /\ At("prep_phase") => ~fsm.find_min
       /\ fsm.find_max => fsm.step_cnt_max = MaxPhase
       /\ fsm.find_max /\ ~At("prep_phase") =>
            fsm.ps_ctrl_phase_reg = host.ps_step_size /\ fsm.ps_ctrl_updwn_reg = host.ps_updwn

\* No window of good phases has opened before phase n; or one has, at first, and has
\* not closed before n.
NoWindow(step, good, n) == \A p \in Visited(step) : p < n /\ p > 2 => p \notin good
Window(step, good, first, n) ==
  /\ first \in Visited(step) /\ first > 2 /\ first \in good /\ first < n
  /\ NoWindow(step, good, first)
  /\ \A p \in Visited(step) : p > first /\ p < n => p \in good

SeenBefore(n) ==
  IF fsm.find_min THEN NoWindow(host.ps_step_size, pll.good, n)
  ELSE Window(host.ps_step_size, pll.good, fsm.step_cnt_min, n)

SeenInv ==
  ~At("idle") /\ ~At("prep_phase") /\ ~At("end_srch") /\ fsm.find_max =>
    /\ fsm.step_cnt \in Visited(host.ps_step_size)
    /\ SeenBefore(IF At("check_max_steps") THEN fsm.step_cnt + 1 ELSE fsm.step_cnt)
    /\ At("min_found") => fsm.step_cnt > 2 /\ fsm.step_cnt \in pll.good
    /\ At("max_found") => fsm.step_cnt \notin pll.good

Mid == Middle(fsm.step_cnt_min, fsm.step_cnt_max)
Back == Minus(fsm.step_cnt, Mid)

PrepInv ==
  /\ fsm.step_cnt_min <= fsm.step_cnt_max
  /\ PhaseAt(Result + Back) /\ Result + Back <= MaxPhase
  /\ fsm.prep_phase_cnt >= 1 => fsm.step_cnt_diff = fsm.step_cnt_max - fsm.step_cnt_min
  /\ fsm.prep_phase_cnt >= 2 => fsm.step_cnt_middle = Mid
  /\ fsm.prep_phase_cnt >= 3 => fsm.step_cnt_reverse = Back

ShiftPos ==
  LET total == fsm.ps_ctrl_phase_reg
      from == IF fsm.find_max THEN fsm.step_cnt - host.ps_step_size ELSE Result + total
      up == IF fsm.find_max THEN host.ps_updwn ELSE ~host.ps_updwn
  IN /\ fsm.ps_ctrl_updwn_reg = up
     /\ from \in Phases
     /\ IF ps.en_reg THEN Moved(Direction(host.ps_updwn) * from, up, total) ELSE PhaseAt(from)

AutoPos ==
  /\ (At("rst_pll") /\ ~pll.locked) \/ At("wait_pll_lock") => pll.phase = 0
  /\ fsm.current_state \in {"check_cmp_status", "cmp_smpls", "wait_after_ph_shift", "min_found",
                            "max_found", "check_max_steps"} =>
       PhaseAt(IF fsm.find_max THEN fsm.step_cnt ELSE Result)
  /\ At("check_max_steps") /\ fsm.find_min =>
       (sync.error[1] <=> fsm.step_cnt \notin pll.good)
       /\ (sync.error[2] <=> fsm.step_cnt \notin pll.good)
  /\ ~At("idle") /\ (~fsm.find_max \/ At("prep_phase") \/ At("end_srch")) => Result \in Phases
  /\ At("prep_phase") => PrepInv
  /\ At("ph_shift") => ShiftPos
  /\ At("end_srch") => PhaseAt(Result) /\ (sync.error[2] <=> Result \notin pll.good)
  /\ fsm.ps_done_reg /\ host.ps_en =>
       PhaseAt(Result) /\ (fsm.ps_status_reg <=> Result \notin pll.good)

PhaseRange == pll.phase \in -MaxPhase .. MaxPhase

PositionInv ==
  /\ PhaseRange
  /\ pll.kind # "live" => pll.phase = 0
  /\ IF AutoMode THEN SearchRegs ELSE TRUE
  /\ pll.kind = "live" =>
       /\ MadeInv
       /\ IF AutoMode THEN SeenInv /\ AutoPos ELSE ManualPos

-----------------------------------------------------------------------------
(***************************************************************************)
(* Numbers, and what the search finds.                                     *)
(***************************************************************************)

\* A remainder less than the divisor, once around it, or below zero.
LEMMA Remainders ==
  ASSUME NEW s \in Nat, s >= 1, NEW a \in Int
  PROVE  /\ a % s \in 0 .. s - 1
         /\ a \in 0 .. s - 1 => a % s = a
         /\ a \in s .. 2 * s - 1 => a % s = a - s
         /\ a \in -s .. -1 => a % s = a + s
OBVIOUS

\* Half of a number.
LEMMA Halves ==
  ASSUME NEW a \in Nat
  PROVE  a \div 2 \in Nat /\ a \div 2 <= a
OBVIOUS

\* The next multiple of s is s further.
LEMMA NextMultiple ==
  ASSUME NEW s \in Nat, s >= 1, NEW c \in Nat, c % s = 0
  PROVE  /\ (c + s) % s = 0
         /\ \A p \in Nat : p % s = 0 /\ p > c => p >= c + s
<1>1. PICK k \in Nat : c = s * k
  OBVIOUS
<1>2. (c + s) % s = 0
  <2>1. \A j \in Nat : (s * j) % s = 0
    OBVIOUS
  <2>2. c + s = s * (k + 1) /\ k + 1 \in Nat
    BY <1>1
  <2> QED
    BY <2>1, <2>2
<1>3. ASSUME NEW p \in Nat, p % s = 0, p > c
      PROVE  p >= c + s
  <2>1. PICK j \in Nat : p = s * j
    BY <1>3
  <2>2. \A a, b \in Nat : a > b => s * a >= s * b + s
    OBVIOUS
  <2>3. j > k
    <3>1. SUFFICES ASSUME j <= k
                   PROVE  FALSE
      OBVIOUS
    <3>2. j = k \/ s * k >= s * j + s
      BY <2>2, <3>1
    <3> QED
      BY <1>1, <1>3, <2>1, <3>2
  <2> QED
    BY <1>1, <2>1, <2>2, <2>3
<1> QED
  BY <1>2, <1>3

\* A member of a set of numbers that none exceeds is its greatest.
LEMMA MaxIs ==
  ASSUME NEW X, X \subseteq Int, NEW m \in X, \A y \in X : y <= m
  PROVE  Max(X) = m
<1>1. \A y \in X : m >= y
  OBVIOUS
<1>2. Max(X) \in X /\ \A y \in X : Max(X) >= y
  BY <1>1 DEF Max
<1>3. PICK x : x = Max(X)
  OBVIOUS
<1>4. x \in Int /\ m \in Int /\ x >= m /\ m >= x
  BY <1>1, <1>2, <1>3
<1> QED
  BY <1>3, <1>4

\* Likewise the least.
LEMMA MinIs ==
  ASSUME NEW X, X \subseteq Int, NEW m \in X, \A y \in X : m <= y
  PROVE  Min(X) = m
<1>1. \A y \in X : m <= y
  OBVIOUS
<1>2. Min(X) \in X /\ \A y \in X : Min(X) <= y
  BY <1>1 DEF Min
<1>3. PICK x : x = Min(X)
  OBVIOUS
<1>4. x \in Int /\ m \in Int /\ x <= m /\ m <= x
  BY <1>1, <1>2, <1>3
<1> QED
  BY <1>3, <1>4

\* A phase is followed by the one a step further, unless it is the last.
LEMMA NextVisited ==
  ASSUME NEW step \in 1 .. MaxPhase, NEW c \in Visited(step)
  PROVE  /\ c \in Nat /\ c < MaxPhase
         /\ c > 0 => c >= step
         /\ c < MaxPhase - step => c + step \in Visited(step)
         /\ \A p \in Visited(step) : p > c => p >= c + step
         /\ c >= MaxPhase - step => \A p \in Visited(step) : p <= c
<1>1. MaxPhase \in Nat /\ step \in Nat /\ step >= 1
  BY ConstantsOK DEF ConstantsOK
<1>2. Visited(step) = {p \in 0 .. MaxPhase : p = 0 \/ (p % step = 0 /\ p < MaxPhase)}
  BY DEF Visited, Phases
<1>3. \A p \in Visited(step) : p \in Nat /\ p % step = 0 /\ p < MaxPhase
  BY <1>1, <1>2, Remainders
<1>4. \A p \in Nat : p % step = 0 /\ p < MaxPhase => p \in Visited(step)
  BY <1>1, <1>2
<1>5. c \in Nat /\ c % step = 0 /\ c < MaxPhase
  BY <1>3
<1>6. /\ (c + step) % step = 0
      /\ \A p \in Nat : p % step = 0 /\ p > c => p >= c + step
  BY <1>1, <1>5, NextMultiple
<1>7. c > 0 => c >= step
  <2>1. 0 % step = 0
    BY <1>1
  <2>2. \A p \in Nat : p % step = 0 /\ p > 0 => p >= 0 + step
    BY <1>1, <2>1, NextMultiple
  <2> QED
    BY <1>5, <2>2
<1>8. c < MaxPhase - step => c + step \in Visited(step)
  BY <1>1, <1>4, <1>5, <1>6
<1>9. \A p \in Visited(step) : p > c => p >= c + step
  BY <1>3, <1>6
<1>10. c >= MaxPhase - step => \A p \in Visited(step) : p <= c
  BY <1>1, <1>3, <1>5, <1>9
<1> QED
  BY <1>5, <1>7, <1>8, <1>9, <1>10

\* If no window opens, the search ends at the last phase.
LEMMA FoundNone ==
  ASSUME NEW step \in 1 .. MaxPhase, NEW good, NEW c \in Visited(step),
         c >= MaxPhase - step, NoWindow(step, good, c + 1)
  PROVE  Found(step, good) = c /\ c \in Phases
<1>1. MaxPhase \in Nat /\ Visited(step) \subseteq Int /\ c \in Phases
  BY ConstantsOK DEF ConstantsOK, Visited, Phases
<1>2. \A p \in Visited(step) : p <= c
  BY NextVisited
<1>3. {p \in Visited(step) : p > 2 /\ p \in good} = {}
  BY <1>1, <1>2, NextVisited DEF NoWindow
<1>4. Max(Visited(step)) = c
  BY <1>1, <1>2, MaxIs
<1> QED
  BY <1>1, <1>3, <1>4 DEF Found

\* The first phase of the window.
LEMMA WindowFirst ==
  ASSUME NEW step \in 1 .. MaxPhase, NEW good, NEW first, NEW n \in Int,
         Window(step, good, first, n)
  PROVE  /\ {p \in Visited(step) : p > 2 /\ p \in good} # {}
         /\ Min({p \in Visited(step) : p > 2 /\ p \in good}) = first
         /\ first \in Nat /\ first >= step /\ first > 2 /\ first < MaxPhase
<1>1. /\ first \in Visited(step) /\ first > 2 /\ first \in good
      /\ NoWindow(step, good, first)
  BY DEF Window
<1>2. Visited(step) \subseteq Nat
  BY NextVisited
<1> DEFINE O == {p \in Visited(step) : p > 2 /\ p \in good}
<1>3. O \subseteq Int /\ first \in O
  BY <1>1, <1>2
<1>4. \A p \in O : first <= p
  BY <1>1, <1>2 DEF NoWindow
<1>5. Min(O) = first
  BY <1>3, <1>4, MinIs
<1> QED
  BY <1>1, <1>2, <1>3, <1>5, NextVisited

\* If it does not close, its middle is reckoned to the last phase there is.
LEMMA FoundOpen ==
  ASSUME NEW step \in 1 .. MaxPhase, NEW good, NEW first, NEW c \in Visited(step),
         c >= MaxPhase - step, Window(step, good, first, c + 1)
  PROVE  Found(step, good) = Middle(first, MaxPhase) - step
<1> DEFINE O == {p \in Visited(step) : p > 2 /\ p \in good}
           C == {p \in Visited(step) : p > first /\ p \notin good}
<1>1. c \in Nat /\ \A p \in Visited(step) : p \in Nat /\ p <= c
  BY NextVisited
<1>2. O # {} /\ Min(O) = first
  <2>1. c + 1 \in Int
    BY <1>1
  <2> QED
    BY <2>1, WindowFirst
<1>3. \A p \in Visited(step) : p > first /\ p < c + 1 => p \in good
  BY DEF Window
<1>4. C = {}
  <2>1. \A p \in Visited(step) : p < c + 1
    BY <1>1
  <2> QED
    BY <1>3, <2>1
<1> QED
  BY <1>2, <1>4 DEF Found

\* If it does, to the phase before the one at which it closes.
LEMMA FoundClosed ==
  ASSUME NEW step \in 1 .. MaxPhase, NEW good, NEW first, NEW c \in Visited(step),
         Window(step, good, first, c), c \notin good
  PROVE  Found(step, good) = Middle(first, c - step) /\ first <= c - step
<1> DEFINE O == {p \in Visited(step) : p > 2 /\ p \in good}
           C == {p \in Visited(step) : p > first /\ p \notin good}
<1>1. c \in Nat /\ \A p \in Visited(step) : p \in Nat
  BY NextVisited
<1>2. O # {} /\ Min(O) = first /\ first \in Nat
  BY <1>1, WindowFirst
<1>3. /\ first \in Visited(step) /\ first < c
      /\ \A p \in Visited(step) : p > first /\ p < c => p \in good
  BY DEF Window
<1>4. c \in C /\ C \subseteq Nat
  <2>1. c > first
    BY <1>1, <1>2, <1>3
  <2>2. c \in C
    BY <2>1
  <2>3. \A p \in C : p \in Nat
    BY <1>1
  <2> QED
    BY <2>2, <2>3
<1>5. \A p \in C : c <= p
  BY <1>1, <1>3
<1>6. Min(C) = c
  BY <1>4, <1>5, MinIs
<1>7. c >= first + step
  BY <1>3, NextVisited
<1>8. first <= c - step
  BY <1>1, <1>2, <1>7
<1> QED
  BY <1>2, <1>4, <1>6, <1>8 DEF Found

\* Middles lie between.
LEMMA Middles ==
  ASSUME NEW a \in Nat, NEW b \in Nat, a <= b
  PROVE  Middle(a, b) \in a .. b
BY Halves DEF Middle

-----------------------------------------------------------------------------
(***************************************************************************)
(* Counters.                                                               *)
(***************************************************************************)

\* The registers of the search after a clock.
LEMMA SearchRegisters ==
  ASSUME FsmClock
  PROVE  /\ fsm'.ps_step_size_reg = IF host.ps_en /\ ~fsm.ps_en_reg
                                    THEN host.ps_step_size ELSE fsm.ps_step_size_reg
         /\ fsm'.ps_updwn_reg = IF host.ps_en /\ ~fsm.ps_en_reg
                                THEN host.ps_updwn ELSE fsm.ps_updwn_reg
         /\ fsm'.step_cnt_max_reg = MaxPhase - fsm.ps_step_size_reg
         /\ fsm'.find_min <=> ~At("min_found") /\ (At("idle") \/ fsm.find_min)
         /\ fsm'.find_max <=>
              At("idle") \/ (fsm.find_max /\ ~At("max_found") /\ ~At("prep_phase"))
         /\ fsm'.step_cnt = IF At("check_max_steps") THEN Plus(fsm.step_cnt, fsm.ps_step_size_reg)
                            ELSE IF At("idle") THEN 0 ELSE fsm.step_cnt
         /\ fsm'.step_cnt_min = IF At("min_found") THEN fsm.step_cnt
                                ELSE IF At("idle") THEN 0 ELSE fsm.step_cnt_min
         /\ fsm'.step_cnt_max = IF At("max_found") THEN Minus(fsm.step_cnt, fsm.ps_step_size_reg)
                                ELSE IF At("idle") THEN MaxPhase ELSE fsm.step_cnt_max
BY DEF FsmClock, At

\* And those of the way back.
LEMMA BackRegisters ==
  ASSUME FsmClock
  PROVE  /\ fsm'.prep_phase_cnt = Count(At("prep_phase"), fsm.prep_phase_cnt)
         /\ fsm'.step_cnt_diff = Minus(fsm.step_cnt_max, fsm.step_cnt_min)
         /\ fsm'.step_cnt_middle = Plus(fsm.step_cnt_diff \div 2, fsm.step_cnt_min)
         /\ fsm'.step_cnt_reverse = Minus(fsm.step_cnt, fsm.step_cnt_middle)
         /\ fsm'.ps_ctrl_phase_reg = IF At("prep_phase") THEN fsm.step_cnt_reverse
                                     ELSE IF At("idle") THEN host.ps_step_size
                                     ELSE fsm.ps_ctrl_phase_reg
         /\ fsm'.ps_ctrl_updwn_reg = IF At("prep_phase") THEN ~fsm.ps_updwn_reg
                                     ELSE IF At("idle") THEN host.ps_updwn
                                     ELSE fsm.ps_ctrl_updwn_reg
         /\ fsm'.ps_status_reg <=> host.ps_en /\
              (IF At("end_srch") THEN smpl_cmp_error ELSE fsm.ps_status_reg)
BY DEF FsmClock, At

\* The registers of pll_ps.
LEMMA StepRegisters ==
  ASSUME PsClock
  PROVE  /\ ps'.phase_reg = IF ps_ctrl_en /\ ~ps.en_reg THEN ps_ctrl_phase ELSE ps.phase_reg
         /\ ps'.updown_reg = IF ps_ctrl_en /\ ~ps.en_reg THEN ps_ctrl_updown ELSE ps.updown_reg
         /\ ps'.current_phase_step_cnt =
              IF ps.current_state = "check_phase_step" THEN Plus(ps.current_phase_step_cnt, 1)
              ELSE IF PsIdle THEN 0 ELSE ps.current_phase_step_cnt
         /\ ps'.phase_step_cnt = Count(ps.current_state = "phase_step", ps.phase_step_cnt)
BY DEF PsClock, PsIdle

\* Differences and sums are phases.
LEMMA PhaseArithmetic ==
  ASSUME NEW a \in Int, NEW b \in Int
  PROVE  /\ Minus(a, b) \in Phases /\ Plus(a, b) \in Phases
         /\ a - b \in Phases => Minus(a, b) = a - b
         /\ a + b \in Phases => Plus(a, b) = a + b
<1>1. MaxPhase \in Nat
  BY ConstantsOK DEF ConstantsOK
<1>2. MaxPhase + 1 \in Nat /\ MaxPhase + 1 >= 1 /\ a - b \in Int /\ a + b \in Int
  BY <1>1
<1>3. Phases = 0 .. (MaxPhase + 1) - 1
  BY <1>1 DEF Phases
<1> QED
  BY <1>2, <1>3, Remainders DEF Minus, Plus

\* A counter that leaves its state at limit + 1 does not get further.
LEMMA CountStops ==
  ASSUME NEW limit \in 0 .. CounterMax - 1, NEW here \in BOOLEAN, NEW cnt \in Nat,
         here => cnt <= limit + 1
  PROVE  /\ Count(here, cnt) \in 0 .. limit + 2
         /\ here /\ cnt <= limit => Count(here, cnt) = cnt + 1
         /\ ~here => Count(here, cnt) = 0
<1>1. CounterMax \in Nat
  BY ConstantsOK DEF ConstantsOK
<1>2. Count(FALSE, cnt) = 0
  BY DEF Count
<1>3. ASSUME here
      PROVE  /\ Count(TRUE, cnt) \in 0 .. limit + 2
             /\ cnt <= limit => Count(TRUE, cnt) = cnt + 1
  <2>1. CounterMax + 1 \in Nat /\ CounterMax + 1 >= 1 /\ cnt + 1 \in Int
    BY <1>1
  <2>2. (cnt + 1) % (CounterMax + 1) \in 0 .. cnt + 1
    <3>1. CASE cnt + 1 \in 0 .. (CounterMax + 1) - 1
      <4>1. (cnt + 1) % (CounterMax + 1) = cnt + 1
        BY <2>1, <3>1, Remainders
      <4> QED
        BY <2>1, <4>1
    <3>2. CASE cnt + 1 > CounterMax
      <4>1. cnt + 1 = CounterMax + 1
        BY <1>1, <1>3, <3>2
      <4> QED
        BY <2>1, <4>1, Remainders
    <3> QED
      BY <1>1, <3>1, <3>2
  <2>3. cnt <= limit => (cnt + 1) % (CounterMax + 1) = cnt + 1
    <3>1. cnt <= limit => cnt + 1 \in 0 .. (CounterMax + 1) - 1
      BY <1>1
    <3> QED
      BY <2>1, <3>1, Remainders
  <2>4. cnt + 1 <= limit + 2
    BY <1>3
  <2> QED
    BY <1>1, <2>2, <2>3, <2>4 DEF Count
<1>4. limit \in Nat
  BY <1>1
<1>5. CASE here
  <2>1. here = TRUE
    BY <1>5
  <2>2. Count(here, cnt) = Count(TRUE, cnt)
    BY <2>1
  <2> QED
    BY <1>3, <1>5, <2>2
<1>6. CASE ~here
  <2>1. here = FALSE
    BY <1>6
  <2>2. Count(here, cnt) = 0
    BY <1>2, <2>1
  <2> QED
    BY <1>4, <1>6, <2>2
<1> QED
  BY <1>5, <1>6

\* So it is with each of the timers.
LEMMA TimerGoesOn ==
  ASSUME NEW limit \in 0 .. CounterMax - 1, NEW here \in BOOLEAN, NEW next \in BOOLEAN,
         NEW cnt \in Timer(here, limit), here /\ next => cnt <= limit
  PROVE  Count(here, cnt) \in Timer(next, limit)
<1>1. limit \in Nat
  BY ConstantsOK DEF ConstantsOK
<1>2. cnt \in Nat /\ (here => cnt <= limit + 1)
  BY <1>1 DEF Timer
<1>3. /\ Count(here, cnt) \in 0 .. limit + 2
      /\ here /\ cnt <= limit => Count(here, cnt) = cnt + 1
      /\ ~here => Count(here, cnt) = 0
  BY <1>2, CountStops
<1>4. next => Count(here, cnt) \in 0 .. limit + 1
  BY <1>1, <1>2, <1>3
<1> QED
  BY <1>3, <1>4 DEF Timer

\* Where the search goes, the transitions that Transitions leaves open.
LEMMA SearchTransitions ==
  ASSUME fsm.current_state \in FsmStates, FsmClock
  PROVE  /\ At("idle") => IF AutoMode /\ host.ps_en /\ ~fsm.ps_en_reg
                          THEN At("rst_pll")' ELSE At("idle")'
         /\ At("wait_pll_lock") /\ locked =>
              IF fsm.find_min \/ fsm.find_max THEN At("check_cmp_status")' ELSE At("ph_shift")'
         /\ At("cmp_smpls") /\ smpl_cmp_done => fsm'.current_state = AfterVerdict
         /\ At("min_found") => At("check_max_steps")'
         /\ At("max_found") => At("prep_phase")'
         /\ At("check_max_steps") => fsm'.current_state = AfterStep
         /\ At("prep_phase") => IF PhasePrepared THEN At("ph_shift")' ELSE At("prep_phase")'
<1>1. fsm'.current_state = NextState
  BY FsmRegisters
<1>2. At("idle") => IF AutoMode /\ host.ps_en /\ ~fsm.ps_en_reg
                    THEN At("rst_pll")' ELSE At("idle")'
  BY <1>1 DEF NextState, At
<1>3. At("wait_pll_lock") /\ locked =>
        IF fsm.find_min \/ fsm.find_max THEN At("check_cmp_status")' ELSE At("ph_shift")'
  BY <1>1 DEF NextState, At
<1>4. At("cmp_smpls") /\ smpl_cmp_done => fsm'.current_state = AfterVerdict
  BY <1>1 DEF NextState, At
<1>5. At("min_found") => At("check_max_steps")'
  BY <1>1 DEF NextState, At
<1>6. At("max_found") => At("prep_phase")'
  BY <1>1 DEF NextState, At
<1>7. At("check_max_steps") => fsm'.current_state = AfterStep
  BY <1>1 DEF NextState, At
<1>8. At("prep_phase") => IF PhasePrepared THEN At("ph_shift")' ELSE At("prep_phase")'
  BY <1>1 DEF NextState, At
<1> QED
  BY <1>2, <1>3, <1>4, <1>5, <1>6, <1>7, <1>8

\* And pll_ps.
LEMMA StepTransitions ==
  ASSUME ps.current_state \in PsStates, PsClock
  PROVE  /\ ps.current_state = "check_phase_step" =>
              ps'.current_state = IF ps.current_phase_step_cnt < ps.phase_reg
                                  THEN "phase_step" ELSE "end_phase"
         /\ ps.current_state = "phase_step" =>
              ps'.current_state = IF ~pll.phasedone \/ StepTimeout
                                  THEN "check_phase_done" ELSE "phase_step"
         /\ ps.current_state = "check_phase_done" =>
              ps'.current_state = IF pll.phasedone THEN "check_phase_step"
                                  ELSE IF DoneTimeout THEN "idle" ELSE "check_phase_done"
         /\ ps.current_state = "end_phase" => PsIdle'
BY PsRegisters DEF NextPsState, PsStates, PsIdle

\* The widths, at an edge of the search's clock.
LEMMA ScanKeepsWidths ==
  ASSUME WidthInv, ScanClock
  PROVE  WidthInv'
<1>1. FsmClock /\ PsClock /\ host' = host
  BY DEF ScanClock
<1>2. MaxPhase \in Nat /\ Phases = 0 .. MaxPhase
  BY ConstantsOK DEF ConstantsOK, Phases
<1>3. \A a \in Phases : a \in Int /\ a \div 2 \in Int /\ MaxPhase - a \in Phases
  BY <1>2
<1>4. 0 \in Phases /\ MaxPhase \in Phases /\ 1 \in Int
  BY <1>2
<1>5. \A a, b \in Int : Minus(a, b) \in Phases /\ Plus(a, b) \in Phases
  BY PhaseArithmetic
<1>6. /\ fsm.step_cnt \in Phases /\ fsm.step_cnt_min \in Phases /\ fsm.step_cnt_max \in Phases
      /\ fsm.step_cnt_diff \in Phases /\ fsm.step_cnt_middle \in Phases
      /\ fsm.step_cnt_reverse \in Phases
      /\ fsm.ps_ctrl_phase_reg \in Phases /\ fsm.ps_step_size_reg \in Phases
      /\ ps.current_phase_step_cnt \in Phases /\ ps.phase_reg \in Phases
      /\ host.ps_phase \in Phases /\ host.ps_step_size \in Phases
  BY DEF WidthInv
<1>7. /\ fsm'.step_cnt \in Phases /\ fsm'.step_cnt_min \in Phases /\ fsm'.step_cnt_max \in Phases
      /\ fsm'.step_cnt_max_reg \in Phases /\ fsm'.ps_step_size_reg \in Phases
  <2>1. /\ Plus(fsm.step_cnt, fsm.ps_step_size_reg) \in Phases
        /\ Minus(fsm.step_cnt, fsm.ps_step_size_reg) \in Phases
    BY <1>3, <1>5, <1>6
  <2> QED
    BY <1>1, <1>3, <1>4, <1>6, <2>1, SearchRegisters
<1>8. /\ fsm'.step_cnt_diff \in Phases /\ fsm'.step_cnt_middle \in Phases
      /\ fsm'.step_cnt_reverse \in Phases /\ fsm'.ps_ctrl_phase_reg \in Phases
  <2>1. /\ Minus(fsm.step_cnt_max, fsm.step_cnt_min) \in Phases
        /\ Plus(fsm.step_cnt_diff \div 2, fsm.step_cnt_min) \in Phases
        /\ Minus(fsm.step_cnt, fsm.step_cnt_middle) \in Phases
    BY <1>3, <1>5, <1>6
  <2> QED
    BY <1>1, <1>6, <2>1, BackRegisters
<1>9. ps_ctrl_phase \in Phases
  BY <1>6 DEF ps_ctrl_phase
<1>10. ps'.phase_reg \in Phases /\ ps'.current_phase_step_cnt \in Phases
  <2>1. Plus(ps.current_phase_step_cnt, 1) \in Phases
    BY <1>3, <1>4, <1>5, <1>6
  <2> QED
    BY <1>1, <1>4, <1>9, <1>6, <2>1, StepRegisters
<1> QED
  BY <1>1, <1>7, <1>8, <1>10 DEF WidthInv, Phases

\* The timers.
LEMMA ScanKeepsTimers ==
  ASSUME ShapeInv, TimerInv, ScanClock
  PROVE  TimerInv'
<1>1. FsmClock /\ PsClock
  BY DEF ScanClock
<1>2. /\ 2 \in 0 .. CounterMax - 1 /\ SettleCnt \in 0 .. CounterMax - 1
      /\ Timeout \in 0 .. CounterMax - 1
  BY ConstantsOK DEF ConstantsOK
<1>3. fsm.current_state \in FsmStates /\ ps.current_state \in PsStates
  BY DEF ShapeInv
<1>4. fsm'.prep_phase_cnt \in Timer(At("prep_phase")', 2)
  <2>1. /\ fsm.prep_phase_cnt \in Timer(At("prep_phase"), 2)
        /\ fsm'.prep_phase_cnt = Count(At("prep_phase"), fsm.prep_phase_cnt)
    BY <1>1, BackRegisters DEF TimerInv
  <2>2. fsm.prep_phase_cnt \in Nat
    BY <2>1 DEF Timer
  <2>3. At("prep_phase") /\ At("prep_phase")' => fsm.prep_phase_cnt <= 2
    BY <1>1, <1>3, <2>2, SearchTransitions DEF PhasePrepared, At
  <2>4. At("prep_phase") \in BOOLEAN /\ At("prep_phase")' \in BOOLEAN
    BY DEF At
  <2> QED
    BY <1>2, <2>1, <2>3, <2>4, TimerGoesOn
<1>5. fsm'.wait_after_ph_shift_cnt \in Timer(At("wait_after_ph_shift")', SettleCnt)
  <2>1. /\ fsm.wait_after_ph_shift_cnt \in Timer(At("wait_after_ph_shift"), SettleCnt)
        /\ fsm'.wait_after_ph_shift_cnt
             = Count(At("wait_after_ph_shift"), fsm.wait_after_ph_shift_cnt)
    BY <1>1, FsmRegisters DEF TimerInv
  <2>2. fsm.wait_after_ph_shift_cnt \in Nat
    BY DEF ShapeInv
  <2>3. At("wait_after_ph_shift") /\ At("wait_after_ph_shift")'
          => fsm.wait_after_ph_shift_cnt <= SettleCnt
    BY <1>1, <1>2, <1>3, <2>2, Transitions DEF At
  <2>4. At("wait_after_ph_shift") \in BOOLEAN /\ At("wait_after_ph_shift")' \in BOOLEAN
    BY DEF At
  <2> QED
    BY <1>2, <2>1, <2>3, <2>4, TimerGoesOn
<1>6. ps'.phase_step_cnt \in Timer((ps.current_state = "phase_step")', Timeout)
  <2>1. /\ ps.phase_step_cnt \in Timer(ps.current_state = "phase_step", Timeout)
        /\ ps'.phase_step_cnt = Count(ps.current_state = "phase_step", ps.phase_step_cnt)
    BY <1>1, StepRegisters DEF TimerInv
  <2>2. ps.phase_step_cnt \in Int /\ Timeout \in Int
    BY <1>2, <2>1 DEF Timer
  <2>3. ps.current_state = "phase_step" /\ ps'.current_state = "phase_step"
          => ps.phase_step_cnt <= Timeout
    BY <1>1, <1>3, <2>2, StepTransitions DEF StepTimeout
  <2>4. (ps.current_state = "phase_step") \in BOOLEAN /\ (ps'.current_state = "phase_step") \in BOOLEAN
    OBVIOUS
  <2> QED
    BY <1>2, <2>1, <2>3, <2>4, TimerGoesOn
<1>7. ps'.check_phase_done_cnt \in Timer((ps.current_state = "check_phase_done")', Timeout)
  <2>1. /\ ps.check_phase_done_cnt \in Timer(ps.current_state = "check_phase_done", Timeout)
        /\ ps'.check_phase_done_cnt
             = Count(ps.current_state = "check_phase_done", ps.check_phase_done_cnt)
    BY <1>1, PsRegisters DEF TimerInv
  <2>2. ps.check_phase_done_cnt \in Int /\ Timeout \in Int
    BY <1>2, <2>1 DEF Timer
  <2>3. ps.current_state = "check_phase_done" /\ ps'.current_state = "check_phase_done"
          => ps.check_phase_done_cnt <= Timeout
    BY <1>1, <1>3, <2>2, StepTransitions DEF DoneTimeout
  <2>4. /\ (ps.current_state = "check_phase_done") \in BOOLEAN
        /\ (ps'.current_state = "check_phase_done") \in BOOLEAN
    OBVIOUS
  <2> QED
    BY <1>2, <2>1, <2>3, <2>4, TimerGoesOn
<1> QED
  BY <1>4, <1>5, <1>6, <1>7 DEF TimerInv

\* The comparator's counters.
LEMMA SmplKeepsCompare ==
  ASSUME ShapeInv, CompareInv, SmplClock
  PROVE  CompareInv'
<1>1. /\ 3 \in 0 .. CounterMax - 1 /\ CmpLength \in 0 .. CounterMax - 1
      /\ CmpLength \in Nat /\ CmpLength >= 1
  BY ConstantsOK DEF ConstantsOK
<1>2. CASE ~LetGo
  <2>1. cmp' = CmpReset
    BY <1>2, CmpHeld
  <2>2. /\ cmp'.current_state = "idle" /\ cmp'.wait_cnt = 0 /\ cmp'.compare_cnt = 0
    BY <2>1 DEF CmpReset
  <2> QED
    BY <1>1, <2>2 DEF CompareInv, Timer
<1>3. CASE LetGo
  <2>1. cmp.wait_cnt \in Nat /\ cmp.compare_cnt \in Nat /\ cmp.current_state \in CmpStates
    BY DEF ShapeInv
  <2>2. cmp'.wait_cnt \in Timer((cmp.current_state = "wait_cyc")', 3)
    <3>1. /\ cmp.wait_cnt \in Timer(cmp.current_state = "wait_cyc", 3)
          /\ cmp'.wait_cnt = Count(cmp.current_state = "wait_cyc", cmp.wait_cnt)
      BY <1>3, CmpRegisters DEF CompareInv
    <3>2. cmp.current_state = "wait_cyc" /\ cmp'.current_state = "wait_cyc" => cmp.wait_cnt <= 3
      BY <1>3, <2>1, CmpTransitions DEF WaitOver
    <3>3. (cmp.current_state = "wait_cyc") \in BOOLEAN /\ (cmp'.current_state = "wait_cyc") \in BOOLEAN
      OBVIOUS
    <3> QED
      BY <1>1, <3>1, <3>2, <3>3, TimerGoesOn
  <2>3. cmp'.compare_cnt = Count(cmp.current_state = "compare", cmp.compare_cnt)
    BY <1>3, CmpRegisters
  <2>4. cmp.current_state = "compare" /\ cmp'.current_state = "compare"
          => ~cmp.compare_stop /\ cmp.compare_cnt <= CmpLength
    <3>1. cmp.current_state = "compare" /\ cmp'.current_state = "compare" => ~cmp.compare_stop
      BY <1>3, CmpTransitions
    <3> QED
      BY <1>1, <2>1, <3>1 DEF CompareInv
  <2>5. cmp'.compare_cnt \in Timer((cmp.current_state = "compare")', CmpLength)
    <3>1. cmp.compare_cnt \in Timer(cmp.current_state = "compare", CmpLength)
      BY DEF CompareInv
    <3>2. (cmp.current_state = "compare") \in BOOLEAN /\ (cmp'.current_state = "compare") \in BOOLEAN
      OBVIOUS
    <3> QED
      BY <1>1, <2>3, <2>4, <3>1, <3>2, TimerGoesOn
  <2>6. ASSUME cmp'.current_state \in {"idle", "wait_cyc"}
        PROVE  cmp'.compare_cnt = 0
    <3>1. cmp.current_state # "compare"
      BY <1>3, <2>6, CmpTransitions
    <3> QED
      BY <2>3, <3>1 DEF Count
  <2>7. ASSUME cmp'.current_state = "compare", cmp'.compare_cnt > CmpLength
        PROVE  cmp'.compare_stop
    <3>1. cmp.current_state = "compare"
      <4>1. cmp.current_state # "compare" => cmp'.compare_cnt = 0
        BY <2>3 DEF Count
      <4> QED
        BY <1>1, <2>7, <4>1
    <3>2. cmp'.compare_cnt <= cmp.compare_cnt + 1 /\ cmp'.compare_cnt \in Nat
      BY <2>1, <2>3, <3>1, CountCounts, CountIsNat
    <3>3. cmp.compare_cnt > CmpLength - 1
      BY <1>1, <2>1, <2>7, <3>2
    <3> QED
      BY <1>3, <3>3, CmpRegisters
  <2> QED
    BY <2>2, <2>5, <2>6, <2>7 DEF CompareInv
<1> QED
  BY <1>2, <1>3

-----------------------------------------------------------------------------
(***************************************************************************)
(* The steps of a shift.                                                   *)
(***************************************************************************)

\* A PLL that does not work stays where it is.
LEMMA StuckPll ==
  ASSUME ShapeInv, Pll, pll.kind # "live", pll.phase = 0
  PROVE  pll'.phase = 0
<1> USE DEF ShapeInv, HasFields, PllFields
<1>1. CASE PllReset  BY <1>1 DEF PllReset
<1>2. CASE PllLocks  BY <1>2 DEF PllLocks
<1>3. CASE PllSees  BY <1>3 DEF PllSees
<1>4. CASE PllMoves  BY <1>4 DEF PllMoves
<1> QED  BY <1>1, <1>2, <1>3, <1>4 DEF Pll

\* And so does every one while pll_ps is idle, but for its reset.
LEMMA RestingPll ==
  ASSUME ShapeInv, PhaseDoneInv, Pll, PsIdle
  PROVE  /\ pll'.phase = IF fsm.pll_reset_req THEN 0 ELSE pll.phase
         /\ pll.kind = "live" /\ pll.seen = 0 => pll'.seen = 0
<1>1. pll.phasedone = pll.rest /\ ~pll_phasestep /\ (pll.kind = "live" => pll.rest)
  BY DEF PhaseDoneInv, PsIdle, pll_phasestep
<1> USE DEF ShapeInv, HasFields, PllFields
<1>2. CASE PllReset  BY <1>2 DEF PllReset
<1>3. CASE PllLocks  BY <1>3 DEF PllLocks
<1>4. CASE PllSees  BY <1>1, <1>4 DEF PllSees
<1>5. CASE PllMoves  BY <1>1, <1>5 DEF PllMoves
<1> QED  BY <1>2, <1>3, <1>4, <1>5 DEF Pll

\* A PLL that works, locked and out of reset: it waits to be asked, or moves.
LEMMA WorkingPll ==
  ASSUME ShapeInv, PhaseDoneInv, Pll, pll.kind = "live", pll.locked, ~fsm.pll_reset_req
  PROVE  /\ pll.phasedone =>
              /\ pll'.phase = pll.phase
              /\ IF pll_phasestep /\ pll.seen = 1 THEN ~pll'.phasedone
                 ELSE /\ pll'.phasedone
                      /\ pll'.seen = IF ~pll_phasestep THEN 0
                                     ELSE IF pll.seen = 0 THEN 1 ELSE pll.seen
         /\ ~pll.phasedone =>
              /\ ~pll_phasestep => pll'.seen = 0
              /\ IF pll'.phasedone THEN pll'.phase = pll.phase + Direction(ps.updown_reg)
                 ELSE pll'.phase = pll.phase
<1> USE DEF ShapeInv, HasFields, PllFields
<1>1. CASE PllSees /\ ~(pll_phasestep /\ pll.seen = 1)
  BY <1>1 DEF PllSees
<1>2. CASE PllSees /\ pll_phasestep /\ pll.seen = 1
  <2>1. PICK d \in 1 .. PllSteps :
          pll' = [pll EXCEPT !.seen = 2, !.phasedone = FALSE, !.left = d]
    BY <1>2 DEF PllSees
  <2>2. pll'.phase = pll.phase /\ ~pll'.phasedone /\ pll.phasedone
    BY <1>2, <2>1 DEF PllSees
  <2> QED
    BY <1>2, <2>2
<1>3. CASE PllMoves
  BY <1>3 DEF PllMoves
<1> QED
  BY <1>1, <1>2, <1>3 DEF Pll, PllReset, PllLocks

\* The shift that pll_ps works on stays as it was asked for.
LEMMA ShiftStays ==
  ASSUME PsClock, ps.en_reg \/ ~ps_ctrl_en
  PROVE  ps'.phase_reg = ps.phase_reg /\ ps'.updown_reg = ps.updown_reg
BY StepRegisters

\* pll_ps counts the steps that the PLL makes, and makes no more than it is asked for.
LEMMA StepsCounted ==
  ASSUME ShapeInv, PhaseDoneInv, WidthInv, TimerInv, MadeInv, PsClock, Pll,
         pll.kind = "live", pll.locked, ~fsm.pll_reset_req, ~PsIdle, ps.en_reg
  PROVE  /\ MadeInv'
         /\ \/ pll'.phase = pll.phase /\ Made' = Made
            \/ pll'.phase = pll.phase + Direction(ps.updown_reg) /\ Made' = Made + 1
<1>1. /\ PllSteps \in Nat /\ PllSteps >= 1 /\ PllSteps <= Timeout /\ Timeout \in Nat
      /\ CounterMax \in Nat /\ Timeout < CounterMax /\ 3 < CounterMax
      /\ MaxPhase \in Nat /\ Phases = 0 .. MaxPhase
  BY ConstantsOK DEF ConstantsOK, Phases
<1>2. ps'.phase_reg = ps.phase_reg /\ ps'.updown_reg = ps.updown_reg /\ ps.phase_reg \in 0 .. MaxPhase
  BY <1>1, ShiftStays DEF WidthInv
<1>3. pll.rest /\ (~pll.phasedone => ps.current_state \in {"phase_step", "check_phase_done"})
  BY DEF PhaseDoneInv
<1>4. ps.current_state \in PsStates /\ pll.phasedone \in BOOLEAN /\ ps.check_phase_done_cnt \in Nat
  BY DEF ShapeInv
<1>5. CASE ps.current_state = "check_phase_step"
  <2>1. /\ ps.current_phase_step_cnt \in 0 .. ps.phase_reg /\ ps.phase_step_cnt = 0
        /\ pll.seen = 0 /\ pll.phasedone /\ ~pll_phasestep
    BY <1>3, <1>5 DEF MadeInv, pll_phasestep
  <2>2. pll'.phase = pll.phase /\ pll'.phasedone /\ pll'.seen = 0
    BY <2>1, WorkingPll
  <2>3. ps'.phase_step_cnt = 0
    BY <1>5, StepRegisters DEF Count
  <2>4. CASE ps.current_phase_step_cnt < ps.phase_reg
    <3>1. ps'.current_state = "phase_step"
      BY <1>4, <1>5, <2>4, StepTransitions
    <3>2. ps.current_phase_step_cnt + 1 \in Phases /\ ps.current_phase_step_cnt \in Int /\ 1 \in Int
      BY <1>1, <1>2, <2>1, <2>4
    <3>3. ps'.current_phase_step_cnt = ps.current_phase_step_cnt + 1
      BY <1>5, <3>2, StepRegisters, PhaseArithmetic
    <3>4. ps'.current_phase_step_cnt \in 1 .. ps'.phase_reg
      BY <1>2, <2>1, <2>4, <3>3
    <3>5. Made' = Made
      BY <1>5, <2>1, <3>1, <3>3 DEF Made
    <3> QED
      BY <2>2, <2>3, <3>1, <3>4, <3>5 DEF MadeInv
  <2>5. CASE ~(ps.current_phase_step_cnt < ps.phase_reg)
    <3>1. ps'.current_state = "end_phase"
      BY <1>4, <1>5, <2>5, StepTransitions
    <3>2. ps.current_phase_step_cnt = ps.phase_reg
      BY <1>2, <2>1, <2>5
    <3>3. Made' = Made
      BY <1>2, <1>5, <3>1, <3>2 DEF Made
    <3> QED
      BY <2>2, <3>1, <3>3 DEF MadeInv
  <2> QED
    BY <2>4, <2>5
<1>6. CASE ps.current_state = "phase_step" /\ pll.phasedone
  <2>1. /\ pll.seen = ps.phase_step_cnt /\ pll.seen \in {0, 1} /\ pll_phasestep
        /\ ps.current_phase_step_cnt \in 1 .. ps.phase_reg
    BY <1>6 DEF MadeInv, pll_phasestep
  <2>2. ps'.current_state = "phase_step"
    BY <1>1, <1>4, <1>6, <2>1, StepTransitions DEF StepTimeout
  <2>3. ps'.phase_step_cnt = ps.phase_step_cnt + 1
    <3>1. ps.phase_step_cnt \in Nat /\ ps.phase_step_cnt < CounterMax
      BY <1>1, <2>1
    <3> QED
      BY <1>6, <3>1, StepRegisters, CountCounts
  <2>4. ps'.current_phase_step_cnt = ps.current_phase_step_cnt
    BY <1>6, StepRegisters DEF PsIdle
  <2>5. Made' = Made
    BY <1>6, <2>2, <2>4 DEF Made
  <2>6. /\ pll'.phase = pll.phase
        /\ IF pll.seen = 1 THEN ~pll'.phasedone ELSE pll'.phasedone /\ pll'.seen = 1
    BY <1>6, <2>1, WorkingPll
  <2> QED
    BY <1>2, <2>1, <2>2, <2>3, <2>4, <2>5, <2>6 DEF MadeInv
<1>7. CASE ps.current_state \in {"phase_step", "check_phase_done"} /\ ~pll.phasedone
  <2>1. ps.current_phase_step_cnt \in 1 .. ps.phase_reg
    BY <1>7 DEF MadeInv
  <2>2. ps'.current_state = "check_phase_done"
    BY <1>4, <1>7, StepTransitions, NoTimeout
  <2>3. ps'.current_phase_step_cnt = ps.current_phase_step_cnt
    BY <1>7, StepRegisters DEF PsIdle
  <2>4. /\ Made = ps.current_phase_step_cnt - 1
        /\ Made' = IF pll'.phasedone THEN ps.current_phase_step_cnt
                   ELSE ps.current_phase_step_cnt - 1
    BY <1>7, <2>2, <2>3 DEF Made
  <2>5. IF pll'.phasedone THEN pll'.phase = pll.phase + Direction(ps.updown_reg)
        ELSE pll'.phase = pll.phase
    BY <1>7, WorkingPll
  <2>6. MadeInv'
    BY <1>2, <2>1, <2>2, <2>3 DEF MadeInv
  <2> QED
    BY <1>2, <2>1, <2>4, <2>5, <2>6
<1>8. CASE ps.current_state = "check_phase_done" /\ pll.phasedone
  <2>1. ps.current_phase_step_cnt \in 1 .. ps.phase_reg /\ ~pll_phasestep
    BY <1>8 DEF MadeInv, pll_phasestep
  <2>2. ps'.current_state = "check_phase_step"
    BY <1>4, <1>8, StepTransitions
  <2>3. /\ ps'.current_phase_step_cnt = ps.current_phase_step_cnt
        /\ ps'.phase_step_cnt = 0
    BY <1>8, StepRegisters DEF PsIdle, Count
  <2>4. pll'.phase = pll.phase /\ pll'.seen = 0
    BY <1>8, <2>1, WorkingPll
  <2>5. Made' = Made
    BY <1>8, <2>2, <2>3 DEF Made
  <2>6. MadeInv'
    BY <1>2, <2>1, <2>2, <2>3, <2>4 DEF MadeInv
  <2> QED
    BY <2>4, <2>5, <2>6
<1>9. CASE ps.current_state = "end_phase"
  <2>1. pll.seen = 0 /\ pll.phasedone /\ ~pll_phasestep
    BY <1>3, <1>9 DEF MadeInv, pll_phasestep
  <2>2. ps'.current_state = "idle"
    BY <1>4, <1>9, StepTransitions DEF PsIdle
  <2>3. pll'.phase = pll.phase /\ pll'.seen = 0
    BY <2>1, WorkingPll
  <2>4. Made' = Made
    BY <1>2, <1>9, <2>2 DEF Made
  <2> QED
    BY <2>2, <2>3, <2>4 DEF MadeInv
<1> QED
  BY <1>4, <1>5, <1>6, <1>7, <1>8, <1>9 DEF PsStates, PsIdle

\* While it is idle there is nothing to count, and a shift begins with no step made.
LEMMA NoStepsIdle ==
  ASSUME ShapeInv, PhaseDoneInv, WidthInv, MadeInv, PsClock, Pll, pll.kind = "live", PsIdle
  PROVE  /\ MadeInv'
         /\ IF ps_ctrl_en /\ ~ps.en_reg
            THEN ps'.phase_reg = ps_ctrl_phase /\ ps'.updown_reg = ps_ctrl_updown /\ Made' = 0
            ELSE ps'.phase_reg = ps.phase_reg /\ ps'.updown_reg = ps.updown_reg /\ Made' = Made
<1>1. MaxPhase \in Nat /\ Phases = 0 .. MaxPhase
  BY ConstantsOK DEF ConstantsOK, Phases
<1>2. pll'.seen = 0
  BY RestingPll DEF MadeInv, PsIdle
<1>3. IF ps_ctrl_en /\ ~ps.en_reg THEN ps'.current_state = "check_phase_step" ELSE PsIdle'
  BY PsTransitions DEF ShapeInv
<1>4. ps'.phase_step_cnt = 0 /\ ps'.current_phase_step_cnt = 0
  BY StepRegisters DEF PsIdle, Count
<1>5. CASE ps_ctrl_en /\ ~ps.en_reg
  <2>1. /\ ps'.phase_reg = ps_ctrl_phase /\ ps'.updown_reg = ps_ctrl_updown
        /\ ps'.current_state = "check_phase_step"
    BY <1>3, <1>5, StepRegisters
  <2>2. Made' = 0
    BY <1>4, <2>1 DEF Made
  <2>3. ps_ctrl_phase \in 0 .. MaxPhase
    BY <1>1 DEF ps_ctrl_phase, WidthInv
  <2>4. MadeInv'
    BY <1>1, <1>2, <1>4, <2>1, <2>3 DEF MadeInv
  <2> QED
    BY <1>5, <2>1, <2>2, <2>4
<1>6. CASE ~(ps_ctrl_en /\ ~ps.en_reg)
  <2>1. ps'.phase_reg = ps.phase_reg /\ ps'.updown_reg = ps.updown_reg /\ PsIdle'
    BY <1>3, <1>6, StepRegisters
  <2>2. Made' = Made
    BY <2>1 DEF Made, PsIdle
  <2>3. MadeInv'
    BY <1>2, <2>1 DEF MadeInv, PsIdle
  <2> QED
    BY <1>6, <2>1, <2>2, <2>3
<1> QED
  BY <1>5, <1>6

\* No more steps are made than are asked for.
LEMMA MadeInRange ==
  ASSUME ShapeInv, WidthInv, MadeInv
  PROVE  Made \in 0 .. ps.phase_reg /\ Made \in Int
<1>1. ps.phase_reg \in 0 .. MaxPhase /\ MaxPhase \in Nat
  BY ConstantsOK DEF ConstantsOK, WidthInv, Phases
<1> QED
  BY <1>1 DEF Made, MadeInv, ShapeInv, PsStates

\* Nor after a step, if what counts them is right.
LEMMA MadeInRangeNext ==
  ASSUME ps'.current_state \in PsStates, ps'.phase_reg \in Nat, MadeInv'
  PROVE  Made' \in 0 .. ps'.phase_reg
BY DEF Made, MadeInv, PsStates

\* A step brings the phase nearer to where the shift ends.
LEMMA MovesOn ==
  ASSUME NEW from \in Int, NEW up, NEW total, pll.phase \in Int, Made \in Int,
         ps.phase_reg = total /\ ps.updown_reg = up /\ pll.phase = from + Direction(up) * Made,
         ShapeInv, PhaseDoneInv, WidthInv, TimerInv, MadeInv, PsClock, Pll,
         pll.kind = "live", pll.locked, ~fsm.pll_reset_req, ps.en_reg
  PROVE  /\ ps'.phase_reg = total /\ ps'.updown_reg = up
         /\ pll'.phase = from + Direction(up) * Made' /\ Made' \in Int
         /\ MadeInv'
<1>1. CASE PsIdle
  <2>1. /\ MadeInv' /\ ps'.phase_reg = ps.phase_reg /\ ps'.updown_reg = ps.updown_reg
        /\ Made' = Made
    BY <1>1, NoStepsIdle
  <2>2. pll'.phase = pll.phase
    BY <1>1, RestingPll
  <2> QED
    BY <2>1, <2>2
<1>2. CASE ~PsIdle
  <2>1. /\ MadeInv'
        /\ \/ pll'.phase = pll.phase /\ Made' = Made
           \/ pll'.phase = pll.phase + Direction(ps.updown_reg) /\ Made' = Made + 1
    BY <1>2, StepsCounted
  <2>2. ps'.phase_reg = ps.phase_reg /\ ps'.updown_reg = ps.updown_reg
    BY ShiftStays
  <2>3. CASE pll'.phase = pll.phase /\ Made' = Made
    BY <2>1, <2>2, <2>3
  <2>4. CASE pll'.phase = pll.phase + Direction(up) /\ Made' = Made + 1
    <3>1. PICK d \in {1, -1} : d = Direction(up)
      BY DEF Direction
    <3>2. from + d * Made + d = from + d * (Made + 1)
      BY <3>1
    <3> QED
      BY <2>1, <2>2, <2>4, <3>1, <3>2
  <2> QED
    BY <2>1, <2>3, <2>4
<1> QED
  BY <1>1, <1>2

-----------------------------------------------------------------------------
(***************************************************************************)
(* What the search has seen.                                               *)
(***************************************************************************)

\* A bad phase opens no window, nor does one of the first.
LEMMA SeeBad ==
  ASSUME NEW step \in 1 .. MaxPhase, NEW good, NEW n \in Nat,
         NoWindow(step, good, n), n \notin good \/ n <= 2
  PROVE  NoWindow(step, good, n + 1)
<1>1. \A p \in Visited(step) : p \in Nat
  BY NextVisited
<1>2. \A p \in Visited(step) : p < n + 1 => p < n \/ p = n
  BY <1>1
<1> QED
  BY <1>1, <1>2 DEF NoWindow

\* A good one does not close the one that is open.
LEMMA SeeGood ==
  ASSUME NEW step \in 1 .. MaxPhase, NEW good, NEW n \in Nat, NEW first,
         Window(step, good, first, n), n \in good
  PROVE  Window(step, good, first, n + 1)
<1>1. \A p \in Visited(step) : p \in Nat
  BY NextVisited
<1>2. first \in Nat /\ first < n
  BY <1>1 DEF Window
<1>3. \A p \in Visited(step) : p < n + 1 => p < n \/ p = n
  BY <1>1
<1>4. first < n + 1
  BY <1>2
<1> QED
  BY <1>3, <1>4 DEF Window

\* The first good one opens it.
LEMMA SeeFirst ==
  ASSUME NEW step \in 1 .. MaxPhase, NEW good, NEW c \in Visited(step),
         NoWindow(step, good, c), c > 2, c \in good
  PROVE  Window(step, good, c, c + 1)
<1>1. \A p \in Visited(step) : p \in Nat
  BY NextVisited
<1>2. c < c + 1 /\ \A p \in Visited(step) : ~(p > c /\ p < c + 1)
  BY <1>1
<1> QED
  BY <1>2 DEF Window

\* Between a phase and the next there is none.
LEMMA SeeNext ==
  ASSUME NEW step \in 1 .. MaxPhase, NEW good, NEW c \in Visited(step), NEW first
  PROVE  /\ NoWindow(step, good, c + 1) => NoWindow(step, good, c + step)
         /\ Window(step, good, first, c + 1) => Window(step, good, first, c + step)
<1>1. /\ \A p \in Visited(step) : p \in Nat /\ (p > c => p >= c + step)
      /\ MaxPhase \in Nat
  BY ConstantsOK, NextVisited DEF ConstantsOK
<1>2. \A p \in Visited(step) : p < c + step => p < c + 1
  BY <1>1
<1>3. \A p \in Visited(step) : p < c + 1 => p < c + step
  BY <1>1
<1> QED
  BY <1>2, <1>3 DEF NoWindow, Window

\* The distance of a phase.
LEMMA DistanceIs ==
  ASSUME NEW x \in Nat, PhaseAt(x)
  PROVE  Distance = x
BY DEF PhaseAt, Direction, Distance

\* The verdict is on its way in both flip-flops.
LEMMA VerdictStays ==
  ASSUME IInv, At("cmp_smpls"), smpl_cmp_done, ScanClock
  PROVE  /\ smpl_cmp_error <=> ~Good
         /\ sync'.error[1] <=> ~Good
         /\ sync'.error[2] <=> ~Good
<1>1. smpl_cmp_error <=> ~Good
  BY InvMeansVerdict DEF VerdictIsOfThisPhase, At, Good
<1>2. (sync.error[2] <=> cmp.error) /\ (sync.error[1] <=> cmp.error)
  BY DEF IInv, HandshakeInv, smpl_cmp_done
<1>3. sync'.error[1] = cmp.error /\ sync'.error[2] = sync.error[1]
  BY DEF ScanClock
<1> QED
  BY <1>1, <1>2, <1>3 DEF smpl_cmp_error

\* The registers of a search stay what they are to be.
LEMMA ScanKeepsSearchRegs ==
  ASSUME ShapeInv, HostInv, AutoMode, SearchRegs, ScanClock
  PROVE  SearchRegs'
<1>1. FsmClock /\ host' = host /\ fsm.current_state \in FsmStates
  BY DEF ScanClock, ShapeInv
<1>2. host'.ps_step_size \in StepSizes
  BY <1>1 DEF SearchRegs
<1>3. CASE At("idle")
  <2>1. SUFFICES ASSUME ~At("idle")'
                 PROVE  SearchRegs'
    BY <1>2 DEF SearchRegs
  <2>2. At("rst_pll")' /\ host.ps_en /\ ~fsm.ps_en_reg
    BY <1>1, <1>3, <2>1, SearchTransitions
  <2>3. fsm'.ps_step_size_reg = host.ps_step_size /\ fsm'.ps_updwn_reg = host.ps_updwn
    BY <1>1, <2>2, SearchRegisters
  <2>4. ~fsm'.pll_reset_req
    BY <1>1, <1>3, FsmRegisters DEF At
  <2>5. fsm'.find_min /\ fsm'.find_max /\ fsm'.step_cnt = 0 /\ fsm'.step_cnt_max = MaxPhase
    BY <1>1, <1>3, SearchRegisters DEF At
  <2>6. /\ fsm'.ps_ctrl_phase_reg = host.ps_step_size
        /\ fsm'.ps_ctrl_updwn_reg = host.ps_updwn
    BY <1>1, <1>3, BackRegisters DEF At
  <2> QED
    BY <1>1, <1>2, <2>2, <2>3, <2>4, <2>5, <2>6 DEF SearchRegs, At
<1>4. CASE ~At("idle")
  <2>1. SUFFICES ASSUME ~At("idle")'
                 PROVE  SearchRegs'
    BY <1>2 DEF SearchRegs
  <2>2. fsm.ps_step_size_reg = host.ps_step_size /\ fsm.ps_updwn_reg = host.ps_updwn
    BY <1>4 DEF SearchRegs
  <2>3. /\ fsm'.ps_step_size_reg = host.ps_step_size /\ fsm'.ps_updwn_reg = host.ps_updwn
        /\ fsm'.step_cnt_max_reg = MaxPhase - host.ps_step_size
    BY <1>1, <1>4, <2>2, SearchRegisters DEF HostInv
  <2>4. /\ fsm'.find_min <=> ~At("min_found") /\ fsm.find_min
        /\ fsm'.find_max <=> fsm.find_max /\ ~At("max_found") /\ ~At("prep_phase")
        /\ ~At("check_max_steps") => fsm'.step_cnt = fsm.step_cnt
        /\ ~At("max_found") => fsm'.step_cnt_max = fsm.step_cnt_max
    BY <1>1, <1>4, SearchRegisters
  <2>5. /\ fsm.find_min => fsm.find_max
        /\ At("rst_pll") \/ At("wait_pll_lock") => fsm.find_min /\ fsm.step_cnt = 0
        /\ At("min_found") => fsm.find_min
        /\ At("max_found") => fsm.find_max /\ ~fsm.find_min
        /\ At("check_max_steps") => fsm.find_max
        /\ At("prep_phase") => ~fsm.find_min
        /\ fsm.find_max => fsm.step_cnt_max = MaxPhase
        /\ fsm.find_max /\ ~At("prep_phase") =>
             fsm.ps_ctrl_phase_reg = host.ps_step_size /\ fsm.ps_ctrl_updwn_reg = host.ps_updwn
    BY <1>4 DEF SearchRegs
  <2>6. fsm'.find_min => fsm'.find_max
    BY <1>1, <2>4, <2>5 DEF At
  <2>7. At("rst_pll")' \/ At("wait_pll_lock")' => fsm'.find_min /\ fsm'.step_cnt = 0
    <3>1. At("rst_pll")' \/ At("wait_pll_lock")' => At("rst_pll") \/ At("wait_pll_lock")
      BY <1>1, <1>4, Transitions DEF At, FsmStates
    <3> QED
      BY <2>4, <2>5, <3>1 DEF At
  <2>8. At("min_found")' \/ At("max_found")' => At("cmp_smpls") /\ fsm'.current_state = AfterVerdict
    BY <1>1, <1>4, Transitions, SearchTransitions DEF At, FsmStates
  <2>9. At("min_found")' => fsm'.find_min
    BY <2>4, <2>8 DEF AfterVerdict, At
  <2>10. At("max_found")' => fsm'.find_max /\ ~fsm'.find_min
    BY <2>4, <2>8 DEF AfterVerdict, At
  <2>11. At("check_max_steps")' => fsm'.find_max
    <3>1. At("check_max_steps")' =>
            At("min_found") \/ (At("cmp_smpls") /\ fsm'.current_state = AfterVerdict)
      BY <1>1, <1>4, Transitions, SearchTransitions DEF At, FsmStates, AfterStep
    <3> QED
      BY <2>4, <2>5, <3>1 DEF AfterVerdict, At
  <2>12. At("prep_phase")' => ~fsm'.find_min
    <3>1. At("prep_phase")' =>
            \/ At("max_found") \/ At("prep_phase")
            \/ At("check_max_steps") /\ fsm'.current_state = AfterStep
      BY <1>1, <1>4, Transitions, SearchTransitions DEF At, FsmStates
    <3> QED
      BY <2>4, <2>5, <3>1 DEF AfterStep, At
  <2>13. fsm'.find_max => fsm'.step_cnt_max = MaxPhase
    BY <2>4, <2>5
  <2>14. fsm'.find_max =>
           /\ fsm'.ps_ctrl_phase_reg = host.ps_step_size
           /\ fsm'.ps_ctrl_updwn_reg = host.ps_updwn
    BY <1>1, <1>4, <2>4, <2>5, BackRegisters
  <2> QED
    BY <1>1, <1>2, <2>1, <2>3, <2>6, <2>7, <2>9, <2>10, <2>11, <2>12, <2>13, <2>14
    DEF SearchRegs
<1> QED
  BY <1>3, <1>4

\* The states in which the search neither counts nor has heard a verdict.
LEMMA ScanKeepsSeenResting ==
  ASSUME IInv, AutoMode, SearchRegs, SeenInv, ScanClock,
         ~At("idle"), ~At("min_found"), ~At("max_found"), ~At("check_max_steps"),
         ~At("cmp_smpls") \/ ~smpl_cmp_done
  PROVE  SeenInv'
<1>1. FsmClock /\ host' = host /\ fsm.current_state \in FsmStates /\ pll'.good = pll.good
  BY PllKeeps DEF ScanClock, IInv, ShapeInv
<1>2. /\ fsm'.find_min <=> fsm.find_min
      /\ fsm'.find_max <=> fsm.find_max /\ ~At("prep_phase")
      /\ fsm'.step_cnt = fsm.step_cnt /\ fsm'.step_cnt_min = fsm.step_cnt_min
  BY <1>1, SearchRegisters
<1>3. At("end_srch") \/ At("prep_phase") => At("idle")' \/ ~fsm'.find_max
  BY <1>1, <1>2, Transitions DEF At
<1>4. ~At("check_max_steps")' \/ At("end_srch") \/ At("prep_phase")
  BY <1>1, Transitions DEF At, FsmStates
<1>5. ~At("min_found")' /\ ~At("max_found")'
  BY <1>1, Transitions, SearchTransitions DEF At, FsmStates
<1>6. SUFFICES ASSUME ~At("end_srch"), ~At("prep_phase"), fsm.find_max
               PROVE  SeenInv'
  BY <1>2, <1>3 DEF SeenInv
<1>7. fsm.step_cnt \in Visited(host.ps_step_size) /\ SeenBefore(fsm.step_cnt)
  BY <1>6 DEF SeenInv
<1>8. fsm'.step_cnt \in Visited(host'.ps_step_size) /\ SeenBefore(fsm.step_cnt)'
  BY <1>1, <1>2, <1>7 DEF SeenBefore
<1> QED
  BY <1>4, <1>5, <1>6, <1>8 DEF SeenInv

\* What has been seen, at an edge of the search's clock.
LEMMA ScanKeepsSeen ==
  ASSUME IInv, AutoMode, SearchRegs, SeenInv, AutoPos, WidthInv, ScanClock, pll.kind = "live"
  PROVE  SeenInv'
<1>1. FsmClock /\ host' = host /\ fsm.current_state \in FsmStates /\ pll'.good = pll.good
  BY PllKeeps DEF ScanClock, IInv, ShapeInv
<1>2. PICK step, good : step = host.ps_step_size /\ good = pll.good
  OBVIOUS
<1>3. step \in 1 .. MaxPhase /\ host.ps_step_size \in 1 .. MaxPhase /\ MaxPhase \in Nat
  BY <1>2, ConstantsOK DEF ConstantsOK, SearchRegs
<1>4. PICK c, first : c = fsm.step_cnt /\ first = fsm.step_cnt_min
  OBVIOUS
<1>5. CASE At("idle")
  <2>1. SUFFICES ASSUME ~At("idle")'
                 PROVE  SeenInv'
    BY DEF SeenInv
  <2>2. At("rst_pll")'
    BY <1>1, <1>5, <2>1, SearchTransitions
  <2>3. fsm'.find_min /\ fsm'.step_cnt = 0
    BY <1>1, <1>5, SearchRegisters DEF At
  <2>4. 0 \in Visited(step)
    BY <1>3 DEF Visited, Phases
  <2>5. NoWindow(step, good, 0)
    BY <1>3, NextVisited DEF NoWindow
  <2> QED
    BY <1>1, <1>2, <2>2, <2>3, <2>4, <2>5 DEF SeenInv, SeenBefore, At
<1>6. CASE At("cmp_smpls") /\ smpl_cmp_done
  <2>1. /\ fsm'.find_min <=> fsm.find_min
        /\ fsm'.find_max <=> fsm.find_max
        /\ fsm'.step_cnt = c /\ fsm'.step_cnt_min = first
    BY <1>1, <1>4, <1>6, SearchRegisters DEF At
  <2>2. fsm'.current_state = AfterVerdict
    BY <1>1, <1>6, SearchTransitions
  <2>3. SUFFICES ASSUME fsm.find_max
                 PROVE  SeenInv'
    BY <2>1 DEF SeenInv
  <2>4. c \in Visited(step) /\ c \in Nat
    BY <1>2, <1>3, <1>4, <1>6, <2>3, NextVisited DEF SeenInv, At
  <2>5. smpl_cmp_error <=> c \notin good
    <3>1. PhaseAt(c)
      BY <1>4, <1>6, <2>3 DEF AutoPos, At
    <3>2. Distance = c
      BY <2>4, <3>1, DistanceIs
    <3> QED
      BY <1>2, <1>6, <3>2, VerdictStays DEF Good
  <2>6. SeenBefore(c)
    BY <1>4, <1>6, <2>3 DEF SeenInv, At
  <2>7. CASE fsm.find_min
    <3>1. NoWindow(step, good, c)
      BY <1>2, <2>6, <2>7 DEF SeenBefore
    <3>2. CASE ~smpl_cmp_error /\ c > 2
      <4>1. At("min_found")'
        BY <1>4, <2>2, <2>7, <3>2 DEF AfterVerdict, At
      <4> QED
        BY <1>1, <1>2, <2>1, <2>4, <2>5, <2>7, <3>1, <3>2, <4>1 DEF SeenInv, SeenBefore, At
    <3>3. CASE smpl_cmp_error \/ ~(c > 2)
      <4>1. At("check_max_steps")'
        BY <1>4, <2>2, <2>7, <3>3 DEF AfterVerdict, At
      <4>2. c \notin good \/ c <= 2
        BY <2>4, <2>5, <3>3
      <4>3. NoWindow(step, good, c + 1)
        BY <1>3, <2>4, <3>1, <4>2, SeeBad
      <4> QED
        BY <1>1, <1>2, <2>1, <2>4, <2>7, <4>1, <4>3 DEF SeenInv, SeenBefore, At
    <3> QED
      BY <3>2, <3>3
  <2>8. CASE ~fsm.find_min
    <3>1. Window(step, good, first, c)
      BY <1>2, <1>4, <2>6, <2>8 DEF SeenBefore
    <3>2. CASE smpl_cmp_error
      <4>1. At("max_found")'
        BY <2>2, <2>3, <2>8, <3>2 DEF AfterVerdict, At
      <4> QED
        BY <1>1, <1>2, <2>1, <2>4, <2>5, <2>8, <3>1, <3>2, <4>1 DEF SeenInv, SeenBefore, At
    <3>3. CASE ~smpl_cmp_error
      <4>1. At("check_max_steps")'
        BY <2>2, <2>3, <2>8, <3>3 DEF AfterVerdict, At
      <4>2. Window(step, good, first, c + 1)
        BY <1>3, <2>4, <2>5, <3>1, <3>3, SeeGood
      <4> QED
        BY <1>1, <1>2, <2>1, <2>4, <2>8, <4>1, <4>2 DEF SeenInv, SeenBefore, At
    <3> QED
      BY <3>2, <3>3
  <2> QED
    BY <2>7, <2>8
<1>7. CASE At("min_found")
  <2>1. fsm.find_min /\ fsm.find_max
    BY <1>7 DEF SearchRegs, At
  <2>2. /\ c \in Visited(step) /\ NoWindow(step, good, c) /\ c > 2 /\ c \in good
    BY <1>2, <1>4, <1>7, <2>1 DEF SeenInv, SeenBefore, At
  <2>3. At("check_max_steps")'
    BY <1>1, <1>7, SearchTransitions
  <2>4. ~fsm'.find_min /\ fsm'.step_cnt = c /\ fsm'.step_cnt_min = c
    BY <1>1, <1>4, <1>7, SearchRegisters DEF At
  <2>5. Window(step, good, c, c + 1)
    BY <1>3, <2>2, SeeFirst
  <2> QED
    BY <1>1, <1>2, <2>2, <2>3, <2>4, <2>5 DEF SeenInv, SeenBefore, At
<1>8. CASE At("max_found")
  <2>1. At("prep_phase")'
    BY <1>1, <1>8, SearchTransitions
  <2> QED
    BY <2>1 DEF SeenInv
<1>9. CASE At("check_max_steps")
  <2>1. /\ fsm.find_max /\ fsm.ps_step_size_reg = step
        /\ fsm.step_cnt_max_reg = MaxPhase - step
    BY <1>2, <1>9 DEF SearchRegs, At
  <2>2. c \in Visited(step) /\ SeenBefore(c + 1)
    BY <1>2, <1>4, <1>9, <2>1 DEF SeenInv, At
  <2>3. fsm'.current_state = AfterStep
    BY <1>1, <1>9, SearchTransitions
  <2>4. CASE ~(c < MaxPhase - step)
    BY <1>4, <2>1, <2>3, <2>4 DEF AfterStep, SeenInv, At
  <2>5. CASE c < MaxPhase - step
    <3>1. At("ph_shift")'
      BY <1>4, <2>1, <2>3, <2>5 DEF AfterStep, At
    <3>2. c + step \in Visited(step) /\ c \in Int /\ c + step \in Phases /\ step \in Int
      <4>1. c + step \in Visited(step) /\ c \in Int
        BY <1>3, <2>2, <2>5, NextVisited
      <4> QED
        BY <1>3, <4>1 DEF Visited
    <3>3. Plus(c, step) = c + step
      BY <3>2, PhaseArithmetic
    <3>4. /\ fsm'.step_cnt = c + step /\ fsm'.step_cnt_min = first
          /\ fsm'.find_min <=> fsm.find_min
      BY <1>1, <1>4, <1>9, <2>1, <3>3, SearchRegisters DEF At
    <3>5. /\ NoWindow(step, good, c + 1) => NoWindow(step, good, c + step)
          /\ Window(step, good, first, c + 1) => Window(step, good, first, c + step)
      BY <1>3, <2>2, SeeNext
    <3>6. IF fsm.find_min THEN NoWindow(step, good, c + step)
          ELSE Window(step, good, first, c + step)
      BY <1>2, <1>4, <2>2, <3>5 DEF SeenBefore
    <3> QED
      BY <1>1, <1>2, <3>1, <3>2, <3>4, <3>6 DEF SeenInv, SeenBefore, At
  <2> QED
    BY <2>4, <2>5
<1> QED
  BY <1>5, <1>6, <1>7, <1>8, <1>9, ScanKeepsSeenResting

-----------------------------------------------------------------------------
(***************************************************************************)
(* Where the phase is during a search.                                     *)
(***************************************************************************)

\* What the search finds does not change while it looks for it.
LEMMA ResultStays ==
  ASSUME IInv, ScanClock
  PROVE  host' = host /\ pll'.good = pll.good /\ pll'.kind = pll.kind /\ Result' = Result
<1>1. host' = host /\ pll'.good = pll.good /\ pll'.kind = pll.kind
  BY PllKeeps DEF ScanClock, IInv
<1> QED
  BY <1>1 DEF Result

\* Outside a shift nothing moves, but for the reset.
LEMMA OutsideShift ==
  ASSUME IInv, AutoMode, WidthInv, MadeInv, pll.kind = "live", ScanClock, ~At("ph_shift")
  PROVE  /\ MadeInv'
         /\ pll'.phase = IF fsm.pll_reset_req THEN 0 ELSE pll.phase
         /\ fsm.pll_reset_req => At("rst_pll") \/ At("wait_pll_lock")
         /\ fsm.ps_ctrl_en_reg => At("wait_after_ph_shift")
         /\ ps'.en_reg <=> fsm.ps_ctrl_en_reg
         /\ ~At("idle") /\ ~At("end_srch") => ~fsm'.ps_done_reg
<1>1. /\ FsmClock /\ PsClock /\ Pll /\ ShapeInv /\ PhaseDoneInv /\ AutoInv /\ LockInv /\ HostInv
  BY DEF ScanClock, IInv, RestInv, ShiftInv
<1>2. PsIdle /\ (fsm.ps_ctrl_en_reg => At("wait_after_ph_shift"))
  BY <1>1 DEF AutoInv, Quiet
<1>3. MadeInv'
  BY <1>1, <1>2, NoStepsIdle
<1>4. pll'.phase = IF fsm.pll_reset_req THEN 0 ELSE pll.phase
  BY <1>1, <1>2, RestingPll
<1>5. fsm.pll_reset_req => At("rst_pll") \/ At("wait_pll_lock")
  BY <1>1 DEF LockInv
<1>6. ps'.en_reg <=> fsm.ps_ctrl_en_reg
  BY <1>1, PsRegisters DEF ps_ctrl_en
<1>7. ~At("idle") /\ ~At("end_srch") => ~fsm'.ps_done_reg
  BY <1>1, FsmRegisters DEF HostInv
<1> QED
  BY <1>2, <1>3, <1>4, <1>5, <1>6, <1>7

\* The start of a search: the reset brings the phase to 0.
LEMMA ScanKeepsStart ==
  ASSUME IInv, AutoMode, SearchRegs, WidthInv, MadeInv, AutoPos, PhaseRange,
         pll.kind = "live", ScanClock,
         At("idle") \/ At("rst_pll") \/ At("wait_pll_lock")
  PROVE  AutoPos' /\ PhaseRange'
<1>1. /\ FsmClock /\ Pll /\ ShapeInv /\ PhaseDoneInv /\ LockInv /\ fsm.current_state \in FsmStates
      /\ ~At("ph_shift")
  BY DEF ScanClock, IInv, RestInv, ShapeInv, At
<1>2. /\ host' = host /\ pll'.good = pll.good /\ Result' = Result
      /\ pll'.phase = IF fsm.pll_reset_req THEN 0 ELSE pll.phase
  BY <1>1, ResultStays, OutsideShift
<1>3. PhaseRange'
  BY <1>2, ConstantsOK DEF PhaseRange, ConstantsOK
<1>4. CASE At("idle")
  <2>1. ~fsm.pll_reset_req /\ pll'.phase = pll.phase /\ pll'.locked
    BY <1>1, <1>2, <1>4, LockedPll DEF LockInv, At
  <2>2. fsm'.ps_done_reg => fsm.ps_done_reg /\ (fsm'.ps_status_reg <=> fsm.ps_status_reg)
    BY <1>1, <1>4, FsmRegisters, BackRegisters DEF At
  <2>3. At("idle")' \/ (At("rst_pll")' /\ fsm'.find_max)
    BY <1>1, <1>4, SearchTransitions, SearchRegisters
  <2>4. fsm'.ps_done_reg /\ host'.ps_en =>
           PhaseAt(Result)' /\ (fsm'.ps_status_reg <=> Result' \notin pll'.good)
    BY <1>2, <2>1, <2>2 DEF AutoPos, PhaseAt
  <2> QED
    BY <1>3, <2>1, <2>3, <2>4 DEF AutoPos, At
<1>5. CASE At("rst_pll")
  <2>1. ~fsm'.ps_done_reg
    BY <1>1, <1>5, OutsideShift DEF At
  <2>2. fsm.find_max /\ fsm'.find_max
    BY <1>1, <1>5, SearchRegisters DEF SearchRegs, At
  <2>3. ~pll'.locked \/ ~locked => pll'.phase = 0
    <3>1. CASE fsm.pll_reset_req
      BY <1>2, <3>1
    <3>2. CASE ~fsm.pll_reset_req
      <4>1. pll.locked /\ pll'.locked /\ locked
        BY <1>1, <1>5, <3>2, LockedPll DEF LockInv, locked
      <4> QED
        BY <4>1
    <3> QED
      BY <3>1, <3>2
  <2>4. IF locked THEN At("rst_pll")' ELSE At("wait_pll_lock")'
    BY <1>1, <1>5, Transitions
  <2> QED
    BY <1>3, <2>1, <2>2, <2>3, <2>4 DEF AutoPos, At
<1>6. CASE At("wait_pll_lock")
  <2>1. ~fsm'.ps_done_reg
    BY <1>1, <1>6, OutsideShift DEF At
  <2>2. fsm.find_min /\ fsm.find_max /\ fsm.step_cnt = 0
    BY <1>6 DEF SearchRegs, At
  <2>3. fsm'.find_max /\ fsm'.step_cnt = 0
    BY <1>1, <1>6, <2>2, SearchRegisters DEF At
  <2>4. pll'.phase = 0
    BY <1>2, <1>6 DEF AutoPos
  <2>5. At("wait_pll_lock")' \/ At("check_cmp_status")'
    BY <1>1, <1>6, <2>2, Transitions, SearchTransitions
  <2>6. PhaseAt(0)'
    BY <2>4 DEF PhaseAt, Direction
  <2> QED
    BY <1>3, <2>1, <2>3, <2>4, <2>5, <2>6 DEF AutoPos, At
<1> QED
  BY <1>4, <1>5, <1>6

\* A look at the samples.
LEMMA ScanKeepsLook ==
  ASSUME IInv, AutoMode, SearchRegs, SeenInv, WidthInv, MadeInv, AutoPos, PhaseRange,
         pll.kind = "live", ScanClock,
         At("check_cmp_status") \/ At("cmp_smpls") \/ At("wait_after_ph_shift") \/ At("min_found")
  PROVE  AutoPos' /\ PhaseRange'
<1>1. /\ FsmClock /\ fsm.current_state \in FsmStates /\ ~At("ph_shift")
  BY DEF ScanClock, IInv, RestInv, ShapeInv, At
<1>2. host' = host /\ pll'.good = pll.good /\ Result' = Result
  BY ResultStays
<1>3. pll'.phase = pll.phase /\ ~fsm'.ps_done_reg
  BY <1>1, OutsideShift DEF At
<1>4. PhaseRange'
  BY <1>3 DEF PhaseRange
<1>5. /\ fsm'.find_max <=> fsm.find_max
      /\ fsm'.find_min <=> fsm.find_min /\ ~At("min_found")
      /\ fsm'.step_cnt = fsm.step_cnt
  BY <1>1, SearchRegisters DEF At
<1>6. PICK x, res : x = (IF fsm.find_max THEN fsm.step_cnt ELSE Result) /\ res = Result
  OBVIOUS
<1>7. PhaseAt(x) /\ (~fsm.find_max => res \in Phases)
  BY <1>6 DEF AutoPos, At
<1>8. /\ PhaseAt(x)' /\ x = (IF fsm'.find_max THEN fsm'.step_cnt ELSE Result')
      /\ (~fsm'.find_max => Result' \in Phases)
  BY <1>2, <1>3, <1>5, <1>6, <1>7 DEF PhaseAt
<1>9. CASE ~At("cmp_smpls") \/ ~smpl_cmp_done
  <2>1. \/ /\ fsm'.current_state \in {"check_cmp_status", "cmp_smpls", "wait_after_ph_shift"}
        \/ At("check_max_steps")' /\ At("min_found")
    BY <1>1, <1>9, Transitions, SearchTransitions DEF At
  <2> QED
    BY <1>3, <1>4, <1>5, <1>8, <2>1 DEF AutoPos, At
<1>10. CASE At("cmp_smpls") /\ smpl_cmp_done
  <2>1. fsm'.current_state = AfterVerdict
    BY <1>1, <1>10, SearchTransitions
  <2>2. x \in Nat
    <3>1. MaxPhase \in Nat
      BY ConstantsOK DEF ConstantsOK
    <3> QED
      BY <1>6, <1>7, <3>1 DEF WidthInv, Phases
  <2>3. Distance = x
    BY <1>7, <2>2, DistanceIs
  <2>4. /\ sync'.error[1] <=> x \notin pll'.good
        /\ sync'.error[2] <=> x \notin pll'.good
    BY <1>2, <1>10, <2>3, VerdictStays DEF Good
  <2>5. fsm.find_min => fsm.find_max
    BY <1>10 DEF SearchRegs, At
  <2>6. \/ fsm'.current_state \in {"min_found", "max_found", "check_max_steps"} /\ fsm.find_max
        \/ fsm'.current_state = "end_srch" /\ ~fsm.find_max
    BY <2>1, <2>5 DEF AfterVerdict
  <2>7. CASE fsm'.current_state \in {"min_found", "max_found", "check_max_steps"} /\ fsm.find_max
    BY <1>3, <1>4, <1>5, <1>8, <2>4, <2>7 DEF AutoPos, At
  <2>8. CASE fsm'.current_state = "end_srch" /\ ~fsm.find_max
    BY <1>3, <1>4, <1>5, <1>8, <2>4, <2>8 DEF AutoPos, At
  <2> QED
    BY <2>6, <2>7, <2>8
<1> QED
  BY <1>9, <1>10

\* A sum that wraps and a difference that wraps back.
LEMMA WrapAround ==
  ASSUME NEW a \in Phases, NEW b \in Phases, NEW m \in Int, a + b - m \in Phases
  PROVE  Minus(Plus(a, b), m) = a + b - m
<1>1. PICK s \in Nat : s = MaxPhase + 1 /\ s >= 1
  BY ConstantsOK DEF ConstantsOK
<1>2. Phases = 0 .. s - 1
  BY <1>1, ConstantsOK DEF ConstantsOK, Phases
<1>3. ASSUME NEW x \in Int
      PROVE  /\ x \in 0 .. s - 1 => x % s = x
             /\ x \in s .. 2 * s - 1 => x % s = x - s
             /\ x \in -s .. -1 => x % s = x + s
  <2>1. s >= 1
    BY <1>1
  <2> QED
    BY <2>1, Remainders
<1>4. PICK x \in Int : x = a + b /\ x - m = a + b - m
  BY <1>2
<1>5. CASE x <= s - 1
  <2>1. x % s = x
    BY <1>2, <1>3, <1>4, <1>5
  <2>2. x - m \in Int /\ x - m \in 0 .. s - 1
    BY <1>2, <1>4
  <2>3. (x - m) % s = x - m
    BY <1>3, <2>2
  <2> QED
    BY <1>1, <1>4, <2>1, <2>3 DEF Minus, Plus
<1>6. CASE x >= s
  <2>1. x % s = x - s
    BY <1>2, <1>3, <1>4, <1>6
  <2>2. PICK d \in Int : d = x - s - m
    OBVIOUS
  <2>3. d \in -s .. -1 /\ d + s = x - m
    BY <1>2, <1>4, <2>2
  <2>4. d % s = d + s
    BY <1>3, <2>3
  <2> QED
    BY <1>1, <1>4, <2>1, <2>2, <2>3, <2>4 DEF Minus, Plus
<1> QED
  BY <1>1, <1>4, <1>5, <1>6

\* The window has closed: the middle is that of its first and its last phase.
LEMMA ScanKeepsClosed ==
  ASSUME IInv, AutoMode, SearchRegs, SeenInv, WidthInv, MadeInv, AutoPos, PhaseRange,
         pll.kind = "live", ScanClock, At("max_found")
  PROVE  AutoPos' /\ PhaseRange'
<1>1. /\ FsmClock /\ fsm.current_state \in FsmStates /\ ~At("ph_shift")
  BY DEF ScanClock, IInv, RestInv, ShapeInv, At
<1>2. host' = host /\ pll'.good = pll.good /\ Result' = Result
  BY ResultStays
<1>3. pll'.phase = pll.phase /\ ~fsm'.ps_done_reg
  BY <1>1, OutsideShift DEF At
<1>4. PhaseRange'
  BY <1>3 DEF PhaseRange
<1>5. PICK step, good, c, first, res :
        /\ step = host.ps_step_size /\ good = pll.good
        /\ c = fsm.step_cnt /\ first = fsm.step_cnt_min /\ res = Result
  OBVIOUS
<1>6. step \in 1 .. MaxPhase /\ MaxPhase \in Nat /\ Phases = 0 .. MaxPhase
  BY <1>5, ConstantsOK DEF ConstantsOK, SearchRegs, Phases
<1>7. fsm.find_max /\ ~fsm.find_min /\ fsm.ps_step_size_reg = step
  BY <1>5 DEF SearchRegs, At
<1>8. /\ c \in Visited(step) /\ Window(step, good, first, c) /\ c \notin good
  BY <1>5, <1>7 DEF SeenInv, SeenBefore, At
<1>9. c \in Nat /\ c \in Int /\ c < MaxPhase
  BY <1>6, <1>8, NextVisited
<1>10. first \in Nat /\ first >= step
  BY <1>6, <1>8, <1>9, WindowFirst
<1>11. res = Middle(first, c - step) /\ first <= c - step
  BY <1>5, <1>6, <1>8, FoundClosed DEF Result
<1>12. c - step \in Nat /\ c - step \in Phases /\ step \in Int
  BY <1>6, <1>9, <1>10, <1>11
<1>13. res \in first .. c - step
  BY <1>10, <1>11, <1>12, Middles
<1>14. /\ ~fsm'.find_max /\ At("prep_phase")'
       /\ fsm'.step_cnt = c /\ fsm'.step_cnt_min = first /\ fsm'.step_cnt_max = c - step
  <2>1. Minus(c, step) = c - step
    BY <1>9, <1>12, PhaseArithmetic
  <2> QED
    BY <1>1, <1>5, <1>7, <2>1, SearchRegisters, SearchTransitions DEF At
<1>15. fsm'.prep_phase_cnt = 0
  BY <1>1, BackRegisters DEF Count, At
<1>16. PhaseAt(c)'
  BY <1>3, <1>5, <1>2, <1>7 DEF AutoPos, PhaseAt, At
<1>17. Mid' = res
  BY <1>11, <1>14 DEF Mid
<1>18. Back' = c - res
  <2>1. c - res \in Phases /\ c \in Int /\ res \in Int
    BY <1>6, <1>9, <1>10, <1>12, <1>13
  <2>2. Minus(c, res) = c - res
    BY <2>1, PhaseArithmetic
  <2> QED
    BY <1>14, <1>17, <2>2 DEF Back
<1>19. res \in Phases /\ res + (c - res) = c
  BY <1>6, <1>9, <1>10, <1>12, <1>13
<1>20. Result' + Back' = c /\ Result' \in Phases
  BY <1>2, <1>5, <1>18, <1>19
<1>21. PrepInv'
  <2>1. PhaseAt(Result + Back)'
    BY <1>16, <1>20 DEF PhaseAt
  <2>2. Result' + Back' <= MaxPhase
    BY <1>6, <1>9, <1>20
  <2>3. fsm'.step_cnt_min <= fsm'.step_cnt_max
    BY <1>11, <1>14
  <2> QED
    BY <1>15, <2>1, <2>2, <2>3 DEF PrepInv
<1> QED
  BY <1>3, <1>4, <1>14, <1>20, <1>21 DEF AutoPos, At

\* On to the next phase, or the end of the search.
LEMMA ScanKeepsSteps ==
  ASSUME IInv, AutoMode, SearchRegs, SeenInv, WidthInv, MadeInv, AutoPos, PhaseRange,
         pll.kind = "live", ScanClock, At("check_max_steps")
  PROVE  AutoPos' /\ PhaseRange'
<1>1. /\ FsmClock /\ fsm.current_state \in FsmStates /\ ~At("ph_shift")
  BY DEF ScanClock, IInv, RestInv, ShapeInv, At
<1>2. host' = host /\ pll'.good = pll.good /\ Result' = Result
  BY ResultStays
<1>3. pll'.phase = pll.phase /\ ~fsm'.ps_done_reg /\ ~ps'.en_reg
  BY <1>1, OutsideShift DEF At
<1>4. PhaseRange'
  BY <1>3 DEF PhaseRange
<1>5. PICK step, good, c, first, res :
        /\ step = host.ps_step_size /\ good = pll.good
        /\ c = fsm.step_cnt /\ first = fsm.step_cnt_min /\ res = Result
  OBVIOUS
<1>6. step \in 1 .. MaxPhase /\ step \in Phases /\ MaxPhase \in Nat /\ Phases = 0 .. MaxPhase
  <2>1. step \in 1 .. MaxPhase /\ MaxPhase \in Nat
    BY <1>5, ConstantsOK DEF ConstantsOK, SearchRegs
  <2> QED
    BY <2>1 DEF Phases
<1>7. /\ fsm.find_max /\ fsm.ps_step_size_reg = step
      /\ fsm.step_cnt_max_reg = MaxPhase - step /\ fsm.step_cnt_max = MaxPhase
      /\ fsm.ps_ctrl_phase_reg = step /\ fsm.ps_ctrl_updwn_reg = host.ps_updwn
  BY <1>5 DEF SearchRegs, At
<1>8. /\ c \in Visited(step) /\ SeenBefore(c + 1)
  BY <1>5, <1>7 DEF SeenInv, At
<1>9. c \in Nat /\ c < MaxPhase /\ c \in Phases
  <2>1. c \in Nat /\ c < MaxPhase
    BY <1>6, <1>8, NextVisited
  <2> QED
    BY <1>6, <2>1
<1>10. /\ fsm'.find_max /\ (fsm'.find_min <=> fsm.find_min)
       /\ fsm'.step_cnt = Plus(c, step) /\ fsm'.step_cnt_min = first
       /\ fsm'.step_cnt_max = MaxPhase
  BY <1>1, <1>5, <1>7, SearchRegisters DEF At
<1>11. fsm'.current_state = AfterStep
  BY <1>1, SearchTransitions
<1>12. PhaseAt(c) /\ PhaseAt(c)'
  <2>1. PhaseAt(c)
    BY <1>5, <1>7 DEF AutoPos, At
  <2> QED
    BY <1>2, <1>3, <2>1 DEF PhaseAt
<1>13. CASE c < MaxPhase - step
  <2>1. At("ph_shift")'
    BY <1>5, <1>7, <1>11, <1>13 DEF AfterStep, At
  <2>2. fsm'.step_cnt = c + step
    <3>1. c + step \in Phases
      BY <1>6, <1>9, <1>13
    <3> QED
      BY <1>6, <1>9, <1>10, <3>1, PhaseArithmetic
  <2>3. fsm'.step_cnt - host'.ps_step_size = c
    BY <1>2, <1>5, <1>6, <1>9, <2>2
  <2>4. fsm'.ps_ctrl_updwn_reg = host'.ps_updwn
    BY <1>1, <1>2, <1>7, BackRegisters DEF At
  <2>5. ShiftPos'
    BY <1>3, <1>9, <1>10, <1>12, <2>3, <2>4 DEF ShiftPos
  <2> QED
    BY <1>3, <1>4, <1>10, <2>1, <2>5 DEF AutoPos, At
<1>14. CASE ~(c < MaxPhase - step) /\ fsm.find_min
  <2>1. At("end_srch")'
    BY <1>5, <1>7, <1>11, <1>14 DEF AfterStep, At
  <2>2. NoWindow(step, good, c + 1)
    BY <1>5, <1>8, <1>14 DEF SeenBefore
  <2>3. res = c
    <3>1. c >= MaxPhase - step
      BY <1>6, <1>9, <1>14
    <3> QED
      BY <1>5, <1>6, <1>8, <2>2, <3>1, FoundNone DEF Result
  <2>4. sync.error[1] <=> c \notin good
    BY <1>5, <1>14 DEF AutoPos
  <2>5. sync'.error[2] <=> c \notin good
    BY <2>4 DEF ScanClock
  <2>6. Result' = c
    BY <1>2, <1>5, <2>3
  <2> QED
    BY <1>2, <1>3, <1>4, <1>5, <1>9, <1>12, <2>1, <2>5, <2>6 DEF AutoPos, At
<1>15. CASE ~(c < MaxPhase - step) /\ ~fsm.find_min
  <2>1. At("prep_phase")'
    BY <1>5, <1>7, <1>11, <1>15 DEF AfterStep, At
  <2>2. Window(step, good, first, c + 1)
    BY <1>5, <1>8, <1>15 DEF SeenBefore
  <2>3. c >= MaxPhase - step
    BY <1>6, <1>9, <1>15
  <2>4. first \in Nat /\ first >= step /\ first < MaxPhase
    <3>1. c + 1 \in Int
      BY <1>9
    <3> QED
      BY <1>6, <2>2, <3>1, WindowFirst
  <2>5. PICK m : m = Middle(first, MaxPhase)
    OBVIOUS
  <2>6. res = m - step
    BY <1>5, <1>6, <1>8, <2>2, <2>3, <2>5, FoundOpen DEF Result
  <2>7. m \in first .. MaxPhase
    BY <1>6, <2>4, <2>5, Middles
  <2>8. res \in Phases /\ m \in Int
    BY <1>6, <2>4, <2>6, <2>7
  <2>9. Minus(Plus(c, step), m) = c + step - m
    <3>1. c + step - m \in Phases
      BY <1>6, <1>9, <2>3, <2>4, <2>7
    <3> QED
      BY <1>6, <1>9, <2>8, <3>1, WrapAround
  <2>10. Mid' = m /\ Back' = c + step - m
    BY <1>10, <2>5, <2>9 DEF Mid, Back
  <2>11. Result' + Back' = c /\ Result' \in Phases
    <3>1. res + (c + step - m) = c
      BY <1>6, <1>9, <2>6, <2>8
    <3> QED
      BY <1>2, <1>5, <2>8, <2>10, <3>1
  <2>12. fsm'.prep_phase_cnt = 0
    BY <1>1, BackRegisters DEF Count, At
  <2>13. PrepInv'
    <3>1. PhaseAt(Result + Back)'
      BY <1>12, <2>11 DEF PhaseAt
    <3>2. Result' + Back' <= MaxPhase
      BY <1>6, <1>9, <2>11
    <3>3. fsm'.step_cnt_min <= fsm'.step_cnt_max
      BY <1>6, <1>10, <2>4
    <3> QED
      BY <2>12, <3>1, <3>2, <3>3 DEF PrepInv
  <2> QED
    BY <1>3, <1>4, <2>1, <2>11, <2>13 DEF AutoPos, At
<1> QED
  BY <1>13, <1>14, <1>15

\* The way back is reckoned in three clocks.
LEMMA ScanKeepsPrep ==
  ASSUME IInv, AutoMode, SearchRegs, WidthInv, TimerInv, MadeInv, AutoPos, PhaseRange,
         pll.kind = "live", ScanClock, At("prep_phase")
  PROVE  AutoPos' /\ PhaseRange'
<1>1. /\ FsmClock /\ fsm.current_state \in FsmStates /\ ~At("ph_shift")
  BY DEF ScanClock, IInv, RestInv, ShapeInv, At
<1>2. host' = host /\ pll'.good = pll.good /\ Result' = Result
  BY ResultStays
<1>3. pll'.phase = pll.phase /\ ~fsm'.ps_done_reg /\ ~ps'.en_reg
  BY <1>1, OutsideShift DEF At
<1>4. PhaseRange'
  BY <1>3 DEF PhaseRange
<1>5. /\ ~fsm'.find_max /\ fsm'.step_cnt = fsm.step_cnt
      /\ fsm'.step_cnt_min = fsm.step_cnt_min /\ fsm'.step_cnt_max = fsm.step_cnt_max
  BY <1>1, SearchRegisters DEF At
<1>6. PICK lo, hi, c, res, back :
        /\ lo = fsm.step_cnt_min /\ hi = fsm.step_cnt_max /\ c = fsm.step_cnt
        /\ res = Result /\ back = Back
  OBVIOUS
<1>7. /\ lo \in Phases /\ hi \in Phases /\ c \in Phases /\ lo <= hi /\ res \in Phases
      /\ PhaseAt(res + back) /\ res + back <= MaxPhase
  BY <1>6 DEF WidthInv, AutoPos, PrepInv, At
<1>8. MaxPhase \in Nat /\ Phases = 0 .. MaxPhase
  BY ConstantsOK DEF ConstantsOK, Phases
<1>9. PICK mid \in Phases : mid = Mid /\ mid = Middle(lo, hi)
  <2>1. lo \in Nat /\ hi \in Nat
    BY <1>7, <1>8
  <2>2. Middle(lo, hi) \in lo .. hi
    BY <1>7, <2>1, Middles
  <2>3. Middle(lo, hi) \in Phases
    BY <1>7, <1>8, <2>2
  <2> QED
    BY <1>6, <2>3 DEF Mid
<1>10. back = Minus(c, mid) /\ back \in Phases
  <2>1. c \in Int /\ mid \in Int
    BY <1>7, <1>8
  <2> QED
    BY <1>6, <1>9, <2>1, PhaseArithmetic DEF Back
<1>11. /\ Mid' = mid /\ Back' = back /\ PhaseAt(res + back)' /\ Result' = res
  <2>1. Mid' = mid
    BY <1>5, <1>6, <1>9 DEF Mid
  <2>2. Back' = back
    BY <1>5, <1>6, <1>10, <2>1 DEF Back
  <2>3. PhaseAt(res + back)'
    BY <1>2, <1>3, <1>7 DEF PhaseAt
  <2> QED
    BY <1>2, <1>6, <2>1, <2>2, <2>3
<1>12. res + back \in Phases
  BY <1>7, <1>8, <1>10
<1>13. CASE PhasePrepared
  <2>1. At("ph_shift")'
    BY <1>1, <1>13, SearchTransitions
  <2>2. fsm.prep_phase_cnt >= 3
    <3>1. fsm.prep_phase_cnt \in Int
      BY DEF TimerInv, Timer
    <3> QED
      BY <1>13, <3>1 DEF PhasePrepared
  <2>3. fsm.step_cnt_reverse = back
    BY <1>6, <2>2 DEF AutoPos, PrepInv, At
  <2>4. /\ fsm'.ps_ctrl_phase_reg = back
        /\ fsm'.ps_ctrl_updwn_reg = ~host'.ps_updwn
    <3>1. fsm.ps_updwn_reg = host.ps_updwn
      BY DEF SearchRegs, At
    <3> QED
      BY <1>1, <1>2, <2>3, <3>1, BackRegisters
  <2>5. Result' + fsm'.ps_ctrl_phase_reg = res + back
    BY <1>11, <2>4
  <2>6. ShiftPos'
    BY <1>3, <1>5, <1>11, <1>12, <2>4, <2>5 DEF ShiftPos
  <2> QED
    BY <1>3, <1>4, <1>7, <1>11, <2>1, <2>6 DEF AutoPos, At
<1>14. CASE ~PhasePrepared
  <2>1. At("prep_phase")'
    BY <1>1, <1>14, SearchTransitions
  <2>2. PICK k \in 0 .. 2 : k = fsm.prep_phase_cnt
    <3>1. fsm.prep_phase_cnt \in Nat
      BY DEF TimerInv, Timer
    <3> QED
      BY <1>14, <3>1 DEF PhasePrepared
  <2>3. fsm'.prep_phase_cnt = k + 1
    <3>1. k < CounterMax /\ k \in Nat
      BY <2>2, ConstantsOK DEF ConstantsOK
    <3> QED
      BY <1>1, <2>2, <3>1, BackRegisters, CountCounts DEF At
  <2>4. /\ k >= 1 => fsm.step_cnt_diff = hi - lo
        /\ k >= 2 => fsm.step_cnt_middle = mid
    BY <1>6, <1>9, <2>2 DEF AutoPos, PrepInv, At
  <2>5. fsm'.step_cnt_diff = hi - lo
    <3>1. hi - lo \in Phases /\ hi \in Int /\ lo \in Int
      BY <1>7, <1>8
    <3>2. Minus(hi, lo) = hi - lo
      BY <3>1, PhaseArithmetic
    <3> QED
      BY <1>1, <1>6, <3>2, BackRegisters
  <2>6. k >= 1 => fsm'.step_cnt_middle = mid
    <3>1. PICK h \in Int : h = (hi - lo) \div 2
      BY <1>7, <1>8
    <3>2. lo + h = mid
      BY <1>9, <3>1 DEF Middle
    <3>3. h + lo \in Phases /\ h + lo = mid /\ lo \in Int
      BY <1>7, <1>8, <3>2
    <3>4. Plus(h, lo) = mid
      BY <3>3, PhaseArithmetic
    <3> QED
      BY <1>1, <1>6, <2>4, <3>1, <3>4, BackRegisters
  <2>7. k >= 2 => fsm'.step_cnt_reverse = back
    BY <1>1, <1>6, <1>10, <2>4, BackRegisters
  <2>8. PrepInv'
    <3>1. /\ k + 1 >= 2 => k >= 1
          /\ k + 1 >= 3 => k >= 2
      OBVIOUS
    <3>2. /\ PhaseAt(Result + Back)' /\ Result' + Back' <= MaxPhase
          /\ fsm'.step_cnt_min <= fsm'.step_cnt_max
      <4>1. PhaseAt(Result + Back)'
        BY <1>11 DEF PhaseAt
      <4> QED
        BY <1>5, <1>6, <1>7, <1>11, <4>1
    <3>3. fsm'.step_cnt_diff = fsm'.step_cnt_max - fsm'.step_cnt_min
      BY <1>5, <1>6, <2>5
    <3> QED
      BY <1>11, <2>3, <2>6, <2>7, <3>1, <3>2, <3>3 DEF PrepInv
  <2> QED
    BY <1>3, <1>4, <1>7, <1>11, <2>1, <2>8 DEF AutoPos, At
<1> QED
  BY <1>13, <1>14

\* The end of a search.
LEMMA ScanKeepsEnd ==
  ASSUME IInv, AutoMode, SearchRegs, WidthInv, MadeInv, AutoPos, PhaseRange,
         pll.kind = "live", ScanClock, At("end_srch")
  PROVE  AutoPos' /\ PhaseRange'
<1>1. /\ FsmClock /\ fsm.current_state \in FsmStates /\ ~At("ph_shift")
  BY DEF ScanClock, IInv, RestInv, ShapeInv, At
<1>2. host' = host /\ pll'.good = pll.good /\ Result' = Result
  BY ResultStays
<1>3. pll'.phase = pll.phase
  BY <1>1, OutsideShift DEF At
<1>4. At("idle")'
  BY <1>1, Transitions
<1>5. PhaseAt(Result) /\ (sync.error[2] <=> Result \notin pll.good)
  BY DEF AutoPos
<1>6. PhaseAt(Result)'
  BY <1>2, <1>3, <1>5 DEF PhaseAt
<1>7. host.ps_en => (fsm'.ps_status_reg <=> sync.error[2])
  BY <1>1, BackRegisters DEF smpl_cmp_error
<1> QED
  BY <1>2, <1>3, <1>4, <1>5, <1>6, <1>7 DEF AutoPos, At, PhaseRange

\* A part of a shift lies between its ends.
LEMMA Between ==
  ASSUME NEW d \in {1, -1}, NEW forward \in BOOLEAN, NEW from \in Phases, NEW total \in Phases,
         NEW made \in 0 .. total,
         (IF forward THEN from + total ELSE from - total) \in Phases
  PROVE  d * from + (IF forward THEN d ELSE -d) * made \in -MaxPhase .. MaxPhase
<1>1. MaxPhase \in Nat /\ Phases = 0 .. MaxPhase
  BY ConstantsOK DEF ConstantsOK, Phases
<1>2. CASE forward
  <2>1. from + made \in 0 .. MaxPhase
    BY <1>1, <1>2
  <2> QED
    BY <1>1, <1>2, <2>1
<1>3. CASE ~forward
  <2>1. from - made \in 0 .. MaxPhase
    BY <1>1, <1>3
  <2> QED
    BY <1>1, <1>3, <2>1
<1> QED
  BY <1>2, <1>3

\* A shift, a step of the search or the way back, from its begin to its end.
LEMMA ScanKeepsShift ==
  ASSUME IInv, AutoMode, SearchRegs, SeenInv, WidthInv, TimerInv, MadeInv, AutoPos, PhaseRange,
         pll.kind = "live", ScanClock, At("ph_shift")
  PROVE  AutoPos' /\ PhaseRange' /\ MadeInv'
<1>1. /\ FsmClock /\ PsClock /\ Pll /\ ShapeInv /\ PhaseDoneInv /\ AutoInv /\ LockInv /\ HostInv
      /\ fsm.current_state \in FsmStates
  BY DEF ScanClock, IInv, RestInv, ShiftInv, ShapeInv
<1>2. host' = host /\ pll'.good = pll.good /\ Result' = Result
  BY ResultStays
<1>3. ~fsm'.ps_done_reg /\ pll.locked /\ ~fsm.pll_reset_req
  BY <1>1, FsmRegisters DEF HostInv, LockInv, At
<1>4. /\ fsm'.find_max <=> fsm.find_max
      /\ fsm'.step_cnt = fsm.step_cnt
      /\ fsm'.ps_ctrl_phase_reg = fsm.ps_ctrl_phase_reg
      /\ fsm'.ps_ctrl_updwn_reg = fsm.ps_ctrl_updwn_reg
  BY <1>1, SearchRegisters, BackRegisters DEF At
<1>5. PICK from, up, total, target :
        /\ total = fsm.ps_ctrl_phase_reg
        /\ from = (IF fsm.find_max THEN fsm.step_cnt - host.ps_step_size ELSE Result + total)
        /\ up = (IF fsm.find_max THEN host.ps_updwn ELSE ~host.ps_updwn)
        /\ target = (IF fsm.find_max THEN fsm.step_cnt ELSE Result)
  OBVIOUS
<1>6. MaxPhase \in Nat /\ Phases = 0 .. MaxPhase
  BY ConstantsOK DEF ConstantsOK, Phases
<1>7. /\ fsm.ps_ctrl_updwn_reg = up /\ from \in Phases
      /\ IF ps.en_reg THEN Moved(Direction(host.ps_updwn) * from, up, total) ELSE PhaseAt(from)
  BY <1>5 DEF AutoPos, ShiftPos
<1>8. total \in Phases /\ target \in Phases
  <2>1. ~fsm.find_max => Result \in Phases
    BY DEF AutoPos, At
  <2> QED
    BY <1>5, <2>1 DEF WidthInv
<1>9. PICK d \in {1, -1}, fwd \in BOOLEAN :
        /\ d = Direction(host.ps_updwn)
        /\ Direction(up) = IF fwd THEN d ELSE -d
        /\ target = IF fwd THEN from + total ELSE from - total
  <2>1. PICK d \in {1, -1} : d = Direction(host.ps_updwn)
    BY DEF Direction
  <2>2. CASE fsm.find_max
    <3>1. total = host.ps_step_size
      BY <1>5, <2>2 DEF SearchRegs, At
    <3>2. target \in Int /\ total \in Int /\ from = target - total
      BY <1>5, <1>6, <1>8, <2>2, <3>1
    <3>3. target = from + total /\ Direction(up) = d
      BY <1>5, <2>1, <2>2, <3>2
    <3> QED
      BY <2>1, <3>3
  <2>3. CASE ~fsm.find_max
    <3>1. target \in Int /\ total \in Int /\ from = target + total
      BY <1>5, <1>6, <1>8, <2>3
    <3>2. target = from - total
      BY <3>1
    <3>3. Direction(up) = -d
      <4>1. up = ~host.ps_updwn
        BY <1>5, <2>3
      <4>2. CASE host.ps_updwn
        <5>1. up = FALSE
          BY <4>1, <4>2
        <5> QED
          BY <2>1, <4>2, <5>1 DEF Direction
      <4>3. CASE ~host.ps_updwn
        <5>1. up = TRUE
          BY <4>1, <4>3
        <5>2. d = -1 /\ Direction(up) = 1
          BY <2>1, <4>3, <5>1 DEF Direction
        <5>3. Direction(up) + d = 0
          BY <5>2
        <5>4. \A x, y \in Int : y + x = 0 => y = -x
          OBVIOUS
        <5>5. d \in Int /\ Direction(up) \in Int
          BY <2>1 DEF Direction
        <5> QED
          BY <5>3, <5>4, <5>5
      <4> QED
        BY <4>2, <4>3
    <3> QED
      BY <2>1, <3>2, <3>3
  <2> QED
    BY <2>2, <2>3
<1>10. /\ fsm'.ps_ctrl_phase_reg = total /\ fsm'.ps_ctrl_updwn_reg = up
       /\ from = (IF fsm'.find_max THEN fsm'.step_cnt - host'.ps_step_size ELSE Result' + total)
       /\ up = (IF fsm'.find_max THEN host'.ps_updwn ELSE ~host'.ps_updwn)
       /\ target = (IF fsm'.find_max THEN fsm'.step_cnt ELSE Result')
       /\ (~fsm'.find_max => Result' \in Phases)
       /\ d = Direction(host.ps_updwn)'
  <2>1. /\ fsm'.ps_ctrl_phase_reg = total /\ fsm'.ps_ctrl_updwn_reg = up
        /\ d = Direction(host.ps_updwn)'
    BY <1>2, <1>4, <1>5, <1>7, <1>9
  <2>2. CASE fsm.find_max
    BY <1>2, <1>4, <1>5, <2>1, <2>2
  <2>3. CASE ~fsm.find_max
    <3>1. Result' \in Phases
      BY <1>2, <1>5, <1>8, <2>3
    <3> QED
      BY <1>2, <1>4, <1>5, <2>1, <2>3, <3>1
  <2> QED
    BY <2>2, <2>3
<1>11. ps'.en_reg <=> fsm.ps_ctrl_en_reg
  BY <1>1, PsRegisters DEF ps_ctrl_en
<1>12. CASE ~ps.en_reg
  <2>1. PsIdle /\ ~ShiftEnds
    BY <1>1, <1>12 DEF AutoInv, Quiet, ShiftEnds
  <2>2. At("ph_shift")'
    BY <1>1, <2>1, Transitions
  <2>3. pll'.phase = pll.phase /\ MadeInv'
    BY <1>1, <1>3, <2>1, RestingPll, NoStepsIdle
  <2>4. PhaseRange'
    BY <2>3 DEF PhaseRange
  <2>5. pll'.phase = d * from
    BY <1>7, <1>9, <1>12, <2>3 DEF PhaseAt
  <2>6. IF ps'.en_reg THEN Moved(d * from, up, total)' ELSE PhaseAt(from)'
    <3>1. CASE fsm.ps_ctrl_en_reg
      <4>1. ps'.phase_reg = total /\ ps'.updown_reg = up /\ Made' = 0
        BY <1>1, <1>5, <1>7, <1>12, <2>1, <3>1, NoStepsIdle
        DEF ps_ctrl_en, ps_ctrl_phase, ps_ctrl_updown
      <4>2. d * from \in Int
        BY <1>6, <1>7, <1>9
      <4>3. d * from + Direction(up) * 0 = d * from
        BY <1>9, <4>2
      <4> QED
        BY <1>11, <2>5, <3>1, <4>1, <4>3 DEF Moved
    <3>2. CASE ~fsm.ps_ctrl_en_reg
      BY <1>10, <1>11, <2>5, <3>2 DEF PhaseAt
    <3> QED
      BY <3>1, <3>2
  <2>7. ShiftPos'
    BY <1>7, <1>10, <2>6 DEF ShiftPos
  <2> QED
    BY <1>3, <1>10, <2>2, <2>3, <2>4, <2>7 DEF AutoPos, At
<1>13. CASE ps.en_reg
  <2>1. /\ ps.phase_reg = total /\ ps.updown_reg = up
        /\ pll.phase = d * from + Direction(up) * Made
    BY <1>7, <1>9, <1>13 DEF Moved
  <2>2. d * from \in Int /\ pll.phase \in Int /\ Made \in Int
    <3>1. Made \in Int
      BY <1>1, MadeInRange
    <3> QED
      BY <1>6, <1>7, <1>9, <3>1 DEF PhaseRange
  <2>3. /\ ps'.phase_reg = total /\ ps'.updown_reg = up
        /\ pll'.phase = d * from + Direction(up) * Made' /\ MadeInv'
    BY <1>1, <1>3, <1>13, <2>1, <2>2, MovesOn
  <2>4. Made' \in 0 .. total
    <3>1. ps'.current_state \in PsStates /\ ps'.phase_reg \in Nat
      BY <1>1, <1>6, <1>8, <2>3, PsTransitions DEF ShapeInv
    <3> QED
      BY <2>3, <3>1, MadeInRangeNext
  <2>5. PhaseRange'
    <3>1. PICK made \in 0 .. total : made = Made'
      BY <2>4
    <3>2. d * from + (IF fwd THEN d ELSE -d) * made \in -MaxPhase .. MaxPhase
      BY <1>7, <1>8, <1>9, Between
    <3> QED
      BY <1>9, <2>3, <3>1, <3>2 DEF PhaseRange
  <2>6. fsm.ps_ctrl_en_reg /\ Begun /\ ps'.en_reg
    BY <1>1, <1>11, <1>13 DEF AutoInv
  <2>7. CASE ~ShiftEnds
    <3>1. At("ph_shift")'
      BY <1>1, <2>7, Transitions
    <3>2. Moved(d * from, up, total)'
      BY <2>3 DEF Moved
    <3>3. ShiftPos'
      BY <1>7, <1>10, <2>6, <3>2 DEF ShiftPos
    <3> QED
      BY <1>3, <1>10, <2>3, <2>5, <3>1, <3>3 DEF AutoPos, At
  <2>8. CASE ShiftEnds
    <3>1. At("wait_after_ph_shift")'
      BY <1>1, <2>8, Transitions
    <3>2. PsIdle
      BY <2>6, <2>8 DEF Begun, ShiftEnds
    <3>3. Made = total
      BY <2>1, <3>2 DEF Made, PsIdle
    <3>4. pll'.phase = pll.phase
      BY <1>1, <1>3, <3>2, RestingPll
    <3>5. d * from + Direction(up) * total = d * target
      BY <1>6, <1>7, <1>8, <1>9
    <3>6. PhaseAt(target)'
      BY <1>10, <2>1, <3>3, <3>4, <3>5 DEF PhaseAt
    <3> QED
      BY <1>3, <1>10, <2>3, <2>5, <3>1, <3>6 DEF AutoPos, At
  <2> QED
    BY <2>7, <2>8
<1> QED
  BY <1>12, <1>13

\* Every clock of a search.
LEMMA ScanKeepsAutoPosition ==
  ASSUME IInv, CounterInv, AutoMode, PhaseRange, SearchRegs, MadeInv, SeenInv, AutoPos,
         pll.kind = "live", ScanClock
  PROVE  PhaseRange' /\ MadeInv' /\ SeenInv' /\ AutoPos'
<1>1. WidthInv /\ TimerInv /\ fsm.current_state \in FsmStates
  BY DEF CounterInv, IInv, ShapeInv
<1>2. SeenInv'
  BY <1>1, ScanKeepsSeen
<1>3. CASE At("ph_shift")
  BY <1>1, <1>2, <1>3, ScanKeepsShift
<1>4. CASE ~At("ph_shift")
  <2>1. MadeInv'
    BY <1>1, <1>4, OutsideShift
  <2>2. CASE At("idle") \/ At("rst_pll") \/ At("wait_pll_lock")
    BY <1>1, <1>2, <2>1, <2>2, ScanKeepsStart
  <2>3. CASE At("check_cmp_status") \/ At("cmp_smpls") \/ At("wait_after_ph_shift")
             \/ At("min_found")
    BY <1>1, <1>2, <2>1, <2>3, ScanKeepsLook
  <2>4. CASE At("max_found")
    BY <1>1, <1>2, <2>1, <2>4, ScanKeepsClosed
  <2>5. CASE At("check_max_steps")
    BY <1>1, <1>2, <2>1, <2>5, ScanKeepsSteps
  <2>6. CASE At("prep_phase")
    BY <1>1, <1>2, <2>1, <2>6, ScanKeepsPrep
  <2>7. CASE At("end_srch")
    BY <1>1, <1>2, <2>1, <2>7, ScanKeepsEnd
  <2> QED
    BY <1>1, <1>4, <2>2, <2>3, <2>4, <2>5, <2>6, <2>7 DEF FsmStates, At
<1> QED
  BY <1>3, <1>4

\* And of a shift in manual mode.
LEMMA ScanKeepsManualPosition ==
  ASSUME IInv, CounterInv, ~AutoMode, PhaseRange, MadeInv, ManualPos,
         pll.kind = "live", ScanClock
  PROVE  PhaseRange' /\ MadeInv' /\ ManualPos'
<1>1. /\ FsmClock /\ PsClock /\ Pll /\ ShapeInv /\ PhaseDoneInv /\ ManualInv /\ LockInv /\ HostInv
      /\ WidthInv /\ TimerInv /\ host' = host
  BY DEF ScanClock, IInv, RestInv, ShiftInv, ShapeInv, CounterInv
<1>2. pll.locked /\ ~fsm.pll_reset_req
  BY <1>1 DEF HostInv, LockInv, At
<1>3. /\ ps_ctrl_en = host.ps_en /\ ps_ctrl_phase = host.ps_phase
      /\ ps_ctrl_updown = host.ps_updwn
  BY DEF ps_ctrl_en, ps_ctrl_phase, ps_ctrl_updown
<1>4. ps'.en_reg <=> host.ps_en
  BY <1>1, <1>3, PsRegisters
<1>5. CASE ~host.ps_en \/ ~ps.en_reg
  <2>1. PsIdle
    BY <1>1, <1>5 DEF ManualInv, Quiet
  <2>2. pll'.phase = pll.phase /\ MadeInv' /\ PhaseRange'
    BY <1>1, <1>2, <2>1, RestingPll, NoStepsIdle DEF PhaseRange
  <2>3. ASSUME host.ps_en
        PROVE  ManualPos'
    <3>1. ps'.phase_reg = host.ps_phase /\ ps'.updown_reg = host.ps_updwn /\ Made' = 0
      BY <1>1, <1>3, <1>5, <2>1, <2>3, NoStepsIdle
    <3>2. pll'.phase = host.origin /\ host.origin \in Int
      <4>1. MaxPhase \in Nat
        BY ConstantsOK DEF ConstantsOK
      <4> QED
        BY <1>5, <2>2, <2>3, <4>1 DEF ManualPos
    <3>3. host.origin + Direction(host.ps_updwn) * 0 = host.origin
      BY <3>2 DEF Direction
    <3>4. Moved(host.origin, host.ps_updwn, host.ps_phase)'
      BY <1>1, <3>1, <3>2, <3>3 DEF Moved
    <3> QED
      BY <1>1, <1>4, <2>3, <3>4 DEF ManualPos
  <2>4. ~host.ps_en => ManualPos'
    BY <1>1 DEF ManualPos
  <2> QED
    BY <2>2, <2>3, <2>4
<1>6. CASE host.ps_en /\ ps.en_reg
  <2>1. PICK from, up, total :
          from = host.origin /\ up = host.ps_updwn /\ total = host.ps_phase
    OBVIOUS
  <2>2. /\ MaxPhase \in Nat /\ from \in -MaxPhase .. MaxPhase /\ total \in 0 .. MaxPhase
        /\ from - total \in -MaxPhase .. MaxPhase /\ from + total \in -MaxPhase .. MaxPhase
    BY <1>1, <1>6, <2>1, ConstantsOK DEF ManualPos, WidthInv, Phases, ConstantsOK
  <2>3. ps.phase_reg = total /\ ps.updown_reg = up /\ pll.phase = from + Direction(up) * Made
    BY <1>6, <2>1 DEF ManualPos, Moved
  <2>4. from \in Int /\ pll.phase \in Int /\ Made \in Int
    BY <1>1, <2>2, MadeInRange DEF PhaseRange
  <2>5. /\ ps'.phase_reg = total /\ ps'.updown_reg = up
        /\ pll'.phase = from + Direction(up) * Made' /\ MadeInv'
    BY <1>1, <1>2, <1>6, <2>3, <2>4, MovesOn
  <2>6. PICK made \in 0 .. total : made = Made'
    <3>1. ps'.current_state \in PsStates /\ ps'.phase_reg \in Nat
      BY <1>1, <2>2, <2>5, PsTransitions DEF ShapeInv
    <3> QED
      BY <2>5, <3>1, MadeInRangeNext
  <2>7. PhaseRange'
    <3>1. Direction(up) = 1 \/ Direction(up) = -1
      BY DEF Direction
    <3>2. from + made \in -MaxPhase .. MaxPhase /\ from - made \in -MaxPhase .. MaxPhase
      BY <2>2
    <3>3. pll'.phase = from + made \/ pll'.phase = from - made
      BY <2>2, <2>5, <2>6, <3>1
    <3> QED
      BY <3>2, <3>3 DEF PhaseRange
  <2>8. ManualPos'
    BY <1>1, <1>4, <1>6, <2>1, <2>2, <2>5 DEF ManualPos, Moved
  <2> QED
    BY <2>5, <2>7, <2>8
<1> QED
  BY <1>5, <1>6

\* The position, at an edge of the search's clock.
LEMMA ScanKeepsPosition ==
  ASSUME IInv, CounterInv, PositionInv, ScanClock
  PROVE  PositionInv'
<1>1. /\ ShapeInv /\ HostInv /\ Pll /\ host' = host /\ pll'.kind = pll.kind
      /\ (AutoMode' <=> AutoMode)
  BY ResultStays DEF ScanClock, IInv, RestInv, AutoMode
<1>2. /\ PhaseRange
      /\ pll.kind # "live" => pll.phase = 0
      /\ AutoMode => SearchRegs
      /\ pll.kind = "live" =>
           /\ MadeInv
           /\ IF AutoMode THEN SeenInv /\ AutoPos ELSE ManualPos
  BY DEF PositionInv
<1>3. IF AutoMode' THEN SearchRegs' ELSE TRUE
  BY <1>1, <1>2, ScanKeepsSearchRegs
<1>4. CASE pll.kind = "live"
  <2>1. /\ PhaseRange' /\ MadeInv'
        /\ IF AutoMode' THEN SeenInv' /\ AutoPos' ELSE ManualPos'
    BY <1>1, <1>2, <1>4, ScanKeepsAutoPosition, ScanKeepsManualPosition
  <2> QED
    BY <1>1, <1>3, <1>4, <2>1 DEF PositionInv
<1>5. CASE pll.kind # "live"
  <2>1. pll'.phase = 0
    BY <1>1, <1>2, <1>5, StuckPll
  <2>2. PhaseRange'
    BY <2>1, ConstantsOK DEF PhaseRange, ConstantsOK
  <2> QED
    BY <1>1, <1>3, <1>5, <2>1, <2>2 DEF PositionInv
<1> QED
  BY <1>4, <1>5

-----------------------------------------------------------------------------
(***************************************************************************)
(* The types and the result.                                               *)
(***************************************************************************)

\* What the host asks for has the width of the registers.
LEMMA HostKeepsCounters ==
  ASSUME ShapeInv, CounterInv, HostStarts \/ HostEnds
  PROVE  CounterInv'
<1>1. fsm' = fsm /\ ps' = ps /\ cmp' = cmp
  BY DEF HostStarts, HostEnds
<1>2. host'.ps_phase \in Phases /\ host'.ps_step_size \in Phases
  <2>1. MaxPhase \in Nat /\ Phases = 0 .. MaxPhase
        /\ StepSizes \subseteq 1 .. MaxPhase /\ ManualPhases \subseteq 0 .. MaxPhase
    BY ConstantsOK DEF ConstantsOK, Phases
  <2>2. CASE HostStarts
    <3>1. PICK up \in BOOLEAN : \/ \E step \in StepSizes : HostSearches(up, step)
                                \/ \E phase \in ManualPhases : HostShifts(up, phase)
      BY <2>2 DEF HostStarts
    <3>2. ASSUME NEW step \in StepSizes, HostSearches(up, step)
          PROVE  host'.ps_phase = 0 /\ host'.ps_step_size = step
      BY <3>2 DEF HostSearches
    <3>3. ASSUME NEW phase \in ManualPhases, HostShifts(up, phase)
          PROVE  host'.ps_phase = phase /\ host'.ps_step_size = 0
      BY <3>3 DEF HostShifts
    <3> QED
      BY <2>1, <3>1, <3>2, <3>3
  <2>3. CASE HostEnds
    <3>1. host'.ps_phase = host.ps_phase /\ host'.ps_step_size = host.ps_step_size
      BY <2>3 DEF HostEnds, ShapeInv, HasFields, HostFields
    <3> QED
      BY <3>1 DEF CounterInv, WidthInv
  <2> QED
    BY <2>2, <2>3
<1>3. WidthInv'
  BY <1>1, <1>2 DEF CounterInv, WidthInv, Phases
<1>4. TimerInv' /\ CompareInv'
  BY <1>1 DEF CounterInv, TimerInv, CompareInv, Timer, At
<1> QED
  BY <1>3, <1>4 DEF CounterInv

\* A shift and a search begin where the phase is, and neither is done before.
LEMMA HostStartsPosition ==
  ASSUME IInv, CounterInv, PositionInv, HostStarts
  PROVE  PositionInv'
<1>1. /\ ShapeInv /\ At("idle") /\ PsIdle /\ ~fsm.ps_done_reg /\ ~ps.en_reg
      /\ fsm' = fsm /\ ps' = ps /\ sync' = sync
  <2>1. At("idle") /\ PsIdle
    BY HostIsIdle DEF IInv, Quiet
  <2> QED
    BY <2>1 DEF HostStarts, IInv, RestInv, HostInv
<1>2. /\ pll'.phase = pll.phase /\ pll'.phasedone = pll.phasedone /\ pll'.kind = pll.kind
      /\ pll'.locked = pll.locked
  BY <1>1, HostChanges
<1>3. pll'.seen = pll.seen
  <2>1. PICK up \in BOOLEAN : \/ \E step \in StepSizes : HostSearches(up, step)
                              \/ \E phase \in ManualPhases : HostShifts(up, phase)
    BY DEF HostStarts
  <2> QED
    BY <1>1, <2>1 DEF HostSearches, HostShifts, ShapeInv, HasFields, PllFields
<1>4. PhaseRange' /\ (pll'.kind # "live" => pll'.phase = 0)
  BY <1>2 DEF PositionInv, PhaseRange
<1>5. ASSUME pll.kind = "live"
      PROVE  MadeInv'
  BY <1>1, <1>2, <1>3, <1>5 DEF PositionInv, MadeInv, PsIdle
<1>6. PICK up \in BOOLEAN : \/ \E step \in StepSizes : HostSearches(up, step)
                            \/ \E phase \in ManualPhases : HostShifts(up, phase)
  BY DEF HostStarts
<1>7. ASSUME NEW step \in StepSizes, HostSearches(up, step)
      PROVE  PositionInv'
  <2>1. AutoMode' /\ host'.ps_step_size = step
    BY <1>7 DEF HostSearches, AutoMode
  <2>2. SearchRegs'
    BY <1>1, <2>1 DEF SearchRegs, At
  <2>3. SeenInv'
    BY <1>1 DEF SeenInv, At
  <2>4. AutoPos'
    BY <1>1 DEF AutoPos, At
  <2> QED
    BY <1>2, <1>4, <1>5, <2>1, <2>2, <2>3, <2>4 DEF PositionInv
<1>8. ASSUME NEW phase \in ManualPhases, HostShifts(up, phase)
      PROVE  PositionInv'
  <2>1. /\ ~AutoMode' /\ host'.ps_phase = phase /\ host'.origin = pll.phase
        /\ Distance + phase <= MaxPhase
    BY <1>8 DEF HostShifts, AutoMode
  <2>2. PICK x : x = pll.phase
    OBVIOUS
  <2>3. /\ MaxPhase \in Nat /\ phase \in 0 .. MaxPhase /\ x \in -MaxPhase .. MaxPhase
        /\ (IF x < 0 THEN -x ELSE x) + phase <= MaxPhase
    BY <2>1, <2>2, ConstantsOK DEF ConstantsOK, PositionInv, PhaseRange, Distance
  <2>4. x - phase \in -MaxPhase .. MaxPhase /\ x + phase \in -MaxPhase .. MaxPhase
    BY <2>3
  <2>5. ManualPos'
    BY <1>1, <1>2, <2>1, <2>2, <2>3, <2>4 DEF ManualPos
  <2> QED
    BY <1>2, <1>4, <1>5, <2>1, <2>5 DEF PositionInv
<1> QED
  BY <1>6, <1>7, <1>8

\* When the host ends, nothing moves.
LEMMA HostEndsPosition ==
  ASSUME IInv, PositionInv, HostEnds
  PROVE  PositionInv'
<1>1. /\ ~host'.ps_en /\ host'.ps_mode = host.ps_mode /\ host'.ps_updwn = host.ps_updwn
      /\ host'.ps_step_size = host.ps_step_size
  BY DEF HostEnds, IInv, ShapeInv, HasFields, HostFields
<1>2. fsm' = fsm /\ ps' = ps /\ pll' = pll /\ sync' = sync
  BY DEF HostEnds
<1>3. At("idle")
  BY HostIsIdle DEF IInv
<1>4. PhaseRange' /\ (pll'.kind # "live" => pll'.phase = 0)
  BY <1>2 DEF PositionInv, PhaseRange
<1>5. pll.kind = "live" => MadeInv'
  BY <1>2 DEF PositionInv, MadeInv
<1>6. /\ AutoMode' <=> AutoMode
      /\ AutoMode => SearchRegs'
  BY <1>1, <1>2, <1>3 DEF PositionInv, SearchRegs, AutoMode, At
<1>7. SeenInv'
  BY <1>2, <1>3 DEF SeenInv, At
<1>8. AutoPos'
  BY <1>1, <1>2, <1>3 DEF AutoPos, At
<1>9. ManualPos'
  BY <1>1 DEF ManualPos
<1> QED
  BY <1>2, <1>4, <1>5, <1>6, <1>7, <1>8, <1>9 DEF PositionInv

\* The invariant of the search and of the shift.
JInv == IInv /\ CounterInv /\ PositionInv

\* The registers after reset.
LEMMA InitPosition ==
  ASSUME Init
  PROVE  JInv
<1>1. PICK k \in PllKinds :
        pll = [phase |-> 0, locked |-> TRUE, phasedone |-> (k # "low"), rest |-> (k # "low"),
               kind |-> k, seen |-> 0, left |-> 0, good |-> {}]
  BY DEF Init
<1>2. /\ MaxPhase \in Nat /\ Timeout \in Nat /\ SettleCnt \in Nat /\ CmpLength \in Nat
  BY ConstantsOK DEF ConstantsOK
<1>3. WidthInv
  BY <1>2 DEF Init, WidthInv, Phases
<1>4. TimerInv
  BY <1>2 DEF Init, TimerInv, Timer, At
<1>5. CompareInv
  BY <1>2 DEF Init, CompareInv, CmpReset, Timer
<1>6. PhaseRange /\ pll.phase = 0 /\ pll.seen = 0
  BY <1>1, <1>2 DEF PhaseRange
<1>7. MadeInv
  BY <1>6 DEF Init, MadeInv
<1>8. ~AutoMode /\ ManualPos
  BY DEF Init, AutoMode, ManualPos
<1> QED
  BY <1>3, <1>4, <1>5, <1>6, <1>7, <1>8, InitInv DEF JInv, CounterInv, PositionInv

\* Every step keeps it.
LEMMA StepPosition ==
  ASSUME JInv, [Next]_vars
  PROVE  JInv'
<1>1. IInv /\ CounterInv /\ PositionInv /\ IInv' /\ ShapeInv
  BY StepInv DEF JInv, IInv
<1>2. CASE HostStarts
  BY <1>1, <1>2, HostKeepsCounters, HostStartsPosition DEF JInv
<1>3. CASE HostEnds
  BY <1>1, <1>3, HostKeepsCounters, HostEndsPosition DEF JInv
<1>4. CASE ScanClock
  <2>1. CounterInv'
    <3>1. cmp' = cmp
      BY <1>4 DEF ScanClock
    <3>2. CompareInv'
      BY <1>1, <3>1 DEF CounterInv, CompareInv, Timer
    <3> QED
      BY <1>1, <1>4, <3>2, ScanKeepsWidths, ScanKeepsTimers DEF CounterInv
  <2> QED
    BY <1>1, <1>4, <2>1, ScanKeepsPosition DEF JInv
<1>5. CASE UNCHANGED <<host, fsm, ps, pll, sync>>
  <2>1. WidthInv' /\ TimerInv'
    BY <1>1, <1>5 DEF CounterInv, WidthInv, TimerInv, Timer, Phases, At
  <2>2. MadeInv' <=> MadeInv
    BY <1>5 DEF MadeInv
  <2>3. SearchRegs' <=> SearchRegs
    BY <1>5 DEF SearchRegs, At
  <2>4. SeenInv' <=> SeenInv
    BY <1>5 DEF SeenInv, SeenBefore, At
  <2>5. AutoPos' <=> AutoPos
    <3>1. Result' = Result /\ Mid' = Mid /\ Back' = Back /\ Made' = Made
      BY <1>5 DEF Result, Mid, Back, Made
    <3>2. PrepInv' <=> PrepInv
      BY <1>5, <3>1 DEF PrepInv, PhaseAt
    <3>3. ShiftPos' <=> ShiftPos
      BY <1>5, <3>1 DEF ShiftPos, PhaseAt, Moved
    <3> QED
      BY <1>5, <3>1, <3>2, <3>3 DEF AutoPos, PhaseAt, At
  <2>6. ManualPos' <=> ManualPos
    <3>1. Made' = Made
      BY <1>5 DEF Made
    <3> QED
      BY <1>5, <3>1 DEF ManualPos, Moved
  <2>7. PositionInv'
    BY <1>1, <1>5, <2>2, <2>3, <2>4, <2>5, <2>6 DEF PositionInv, PhaseRange, AutoMode
  <2>8. CompareInv'
    <3>1. CASE SmplClock
      BY <1>1, <3>1, SmplKeepsCompare DEF CounterInv
    <3>2. CASE UNCHANGED cmp
      BY <1>1, <3>2 DEF CounterInv, CompareInv, Timer
    <3>3. SmplClock \/ UNCHANGED cmp
      BY DEF Next, HostStarts, HostEnds, ScanClock, vars
    <3> QED
      BY <3>1, <3>2, <3>3
  <2> QED
    BY <1>1, <2>1, <2>7, <2>8 DEF JInv, CounterInv
<1>6. SmplClock \/ UNCHANGED vars => UNCHANGED <<host, fsm, ps, pll, sync>>
  BY DEF SmplClock, vars
<1> QED
  BY <1>2, <1>3, <1>4, <1>5, <1>6 DEF Next

\* The widths, the timers and the range of the phase are part of it.
LEMMA InvMeansTypes ==
  ASSUME JInv
  PROVE  TypeOK
<1>1. {fsm.step_cnt, fsm.step_cnt_min, fsm.step_cnt_max, fsm.step_cnt_max_reg,
       fsm.step_cnt_diff, fsm.step_cnt_middle, fsm.step_cnt_reverse, fsm.ps_ctrl_phase_reg,
       fsm.ps_step_size_reg, ps.current_phase_step_cnt, ps.phase_reg} \subseteq Phases
  BY DEF JInv, CounterInv, WidthInv
<1>2. \A limit \in Nat : Timer(TRUE, limit) \subseteq 0 .. limit + 2
                         /\ Timer(FALSE, limit) \subseteq 0 .. limit + 2
  BY DEF Timer
<1>3. 2 \in Nat /\ 3 \in Nat /\ SettleCnt \in Nat /\ Timeout \in Nat /\ CmpLength \in Nat
  BY ConstantsOK DEF ConstantsOK
<1>4. fsm.prep_phase_cnt \in 0 .. 4 /\ fsm.wait_after_ph_shift_cnt \in 0 .. SettleCnt + 2
  BY <1>2, <1>3 DEF JInv, CounterInv, TimerInv, Timer
<1>5. {ps.phase_step_cnt, ps.check_phase_done_cnt} \subseteq 0 .. Timeout + 2
  BY <1>3 DEF JInv, CounterInv, TimerInv, Timer
<1>6. cmp.wait_cnt \in 0 .. 5 /\ cmp.compare_cnt \in 0 .. CmpLength + 2
  BY <1>3 DEF JInv, CounterInv, CompareInv, Timer
<1> QED
  BY <1>1, <1>4, <1>5, <1>6 DEF TypeOK, JInv, IInv, ShapeInv, PositionInv, PhaseRange

\* When ps_done is up, the phase is where the shift or the search ends.
LEMMA InvMeansResult ==
  ASSUME JInv
  PROVE  ShiftResult
<1>1. SUFFICES ASSUME host.ps_en, ps_done, pll.kind = "live"
               PROVE  IF AutoMode
                      THEN LET found == Found(host.ps_step_size, pll.good) IN
                           /\ pll.phase = Direction(host.ps_updwn) * found
                           /\ ps_status <=> found \notin pll.good
                      ELSE /\ pll.phase = host.origin + Direction(host.ps_updwn) * host.ps_phase
                           /\ ~ps_status
  BY DEF ShiftResult
<1>2. CASE AutoMode
  <2>1. fsm.ps_done_reg /\ (ps_status <=> fsm.ps_status_reg)
    BY <1>1, <1>2 DEF ps_done, ps_status
  <2>2. PhaseAt(Result) /\ (fsm.ps_status_reg <=> Result \notin pll.good)
    BY <1>1, <1>2, <2>1 DEF JInv, PositionInv, AutoPos
  <2> QED
    BY <1>2, <2>1, <2>2 DEF PhaseAt, Result
<1>3. CASE ~AutoMode
  <2>1. fsm.ps_done_reg_manual_mode /\ (ps_status <=> ps.busy)
    BY <1>1, <1>3 DEF ps_done, ps_status
  <2>2. ps.en_reg /\ PsIdle /\ ~ps.busy
    BY <1>3, <2>1 DEF JInv, IInv, RestInv, ShiftInv, ManualInv, Quiet
  <2>3. Moved(host.origin, host.ps_updwn, host.ps_phase)
    BY <1>1, <1>3, <2>2 DEF JInv, PositionInv, ManualPos
  <2>4. Made = host.ps_phase
    BY <2>2, <2>3 DEF Made, Moved, PsIdle
  <2> QED
    BY <1>3, <2>1, <2>2, <2>3, <2>4 DEF Moved
<1> QED
  BY <1>2, <1>3

\* No counter of the search, of the one-step machine or of the comparator leaves its
\* register before the wait it measures ends, and the phase stays within MaxPhase
\* steps of where the PLL put it at its reset.
THEOREM TypesHold == Spec => []TypeOK
<1>1. Init => JInv
  BY InitPosition
<1>2. JInv /\ [Next]_vars => JInv'
  BY StepPosition
<1>3. JInv => TypeOK
  BY InvMeansTypes
<1> QED
  BY <1>1, <1>2, <1>3, PTL DEF Spec

\* With a PLL that works, a shift has made all its steps and no more when ps_done
\* rises, and a search has come to rest in the middle of the first window of good
\* phases among those it visits, and says whether samples are good there: whatever
\* the windows, the step, the widths and the times the PLL takes.
THEOREM ResultCorrect == Spec => []ShiftResult
<1>1. Init => JInv
  BY InitPosition
<1>2. JInv /\ [Next]_vars => JInv'
  BY StepPosition
<1>3. JInv => ShiftResult
  BY InvMeansResult
<1> QED
  BY <1>1, <1>2, <1>3, PTL DEF Spec
=============================================================================
