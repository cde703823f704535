----------------------------- MODULE PhaseSearch -----------------------------
(***************************************************************************)
(* The dynamic phase shift of the clocks of the LMS7002 interface:         *)
(* pll_ps_fsm, which shifts by a given number of steps (manual mode) or    *)
(* looks for the middle of the phases at which samples arrive without an   *)
(* error (auto mode); pll_ps, which asks the PLL for one step after the    *)
(* other; and smpl_cmp, which compares received samples with a pattern.    *)
(*                                                                         *)
(* There are two clocks, and a step of the system is a rising edge of one  *)
(* of them: ScanClock of the first two entities, SmplClock of the          *)
(* comparator.  Nothing is assumed of their rates: SmplClock comes from    *)
(* the very PLL that is reset and shifted.  Each entity is a record of its *)
(* registers; they cross to the other clock by two flip-flops.             *)
(*                                                                         *)
(* The PLL and the samples are external.  The PLL starts to move when it   *)
(* has seen phasestep at two edges, holds phasedone low while it does, and *)
(* is at phase 0 after a reset.  At a good phase no sample is wrong; at    *)
(* any other at least one of CmpLength samples in a row is.                *)
(***************************************************************************)
EXTENDS Integers, FiniteSets, FiniteSetsExt

CONSTANTS
  MaxPhase,     \* step_cnt_max_constant, all ones in the width of the counters
  SettleCnt,    \* x"FD": the wait after a shift
  Timeout,      \* timeout of pll_ps
  CounterMax,   \* where the 4, 8 and 16 bit counters wrap
  CmpLength,    \* samples to compare
  StepSizes, ManualPhases,  \* what the host asks for
  Windows,      \* the sets of good phases, as distances from phase 0
  PllKinds,     \* subset of {"live", "high", "low"}: how phasedone may behave
  PllSteps,     \* the longest time phasedone is low
  LockClocks    \* the longest time from the end of a reset to the lock

ASSUME ConstantsOK ==
  /\ {MaxPhase, SettleCnt, Timeout, CounterMax, CmpLength, PllSteps, LockClocks} \subseteq Nat
  /\ {SettleCnt, Timeout, CmpLength, 3} \subseteq 0 .. CounterMax - 1
  /\ CmpLength > 0 /\ PllSteps \in 1 .. Timeout
  /\ StepSizes \subseteq 1 .. MaxPhase /\ ManualPhases \subseteq 0 .. MaxPhase
  /\ \A w \in Windows : w \subseteq 0 .. MaxPhase
  /\ PllKinds \subseteq {"live", "high", "low"}

VARIABLES
  host,   \* the registers the host writes, and where the phase was as it did
  fsm,    \* pll_ps_fsm
  ps,     \* pll_ps
  pll,    \* external: the PLL, and at which phases samples are good
  sync,   \* two flip-flops each for lock, smpl_cmp_done and smpl_cmp_error
  smpl,   \* two flip-flops for smpl_cmp_en, and the sample on its way in
  cmp     \* smpl_cmp

vars == <<host, fsm, ps, pll, sync, smpl, cmp>>

AutoMode == host.ps_mode = "auto"
Phases == 0 .. MaxPhase

\* Differences and sums have the width of the counters.
Minus_Wider(a, b) == a - b
Minus(a, b) == (a - b) % (MaxPhase + 1)
Plus(a, b) == (a + b) % (MaxPhase + 1)

\* A counter that counts in one state and is cleared in the others.
Count(here, cnt) == IF here THEN (cnt + 1) % (CounterMax + 1) ELSE 0

-----------------------------------------------------------------------------
(***************************************************************************)
(* pll_ps_fsm.                                                             *)
(***************************************************************************)
locked == sync.locked[2]
smpl_cmp_done == sync.done[2]
smpl_cmp_error == sync.error[2]

ShiftEnds == ~ps.busy /\ fsm.ps_ctrl_busy_reg

ComparatorReady_Always == TRUE
ComparatorReady == ~smpl_cmp_done

PhasePrepared_Early == fsm.prep_phase_cnt > 1
PhasePrepared == fsm.prep_phase_cnt > 2

AfterVerdict ==
  IF fsm.find_min
  THEN IF ~smpl_cmp_error /\ fsm.step_cnt > 2 THEN "min_found" ELSE "check_max_steps"
  ELSE IF fsm.find_max
       THEN IF smpl_cmp_error THEN "max_found" ELSE "check_max_steps"
       ELSE "end_srch"

AfterStep ==
  IF fsm.step_cnt < fsm.step_cnt_max_reg THEN "ph_shift"
  ELSE IF fsm.find_min THEN "end_srch" ELSE "prep_phase"

NextState ==
  LET at(s) == fsm.current_state = s IN
  CASE at("idle") /\ AutoMode /\ host.ps_en /\ ~fsm.ps_en_reg -> "rst_pll"
    [] at("rst_pll") /\ ~locked -> "wait_pll_lock"
    [] at("wait_pll_lock") /\ locked ->
         IF fsm.find_min \/ fsm.find_max THEN "check_cmp_status" ELSE "ph_shift"
    [] at("check_cmp_status") /\ ComparatorReady -> "cmp_smpls"
    [] at("cmp_smpls") /\ smpl_cmp_done -> AfterVerdict
    [] at("min_found") -> "check_max_steps"
    [] at("max_found") -> "prep_phase"
    [] at("check_max_steps") -> AfterStep
    [] at("ph_shift") /\ ShiftEnds -> "wait_after_ph_shift"
    [] at("wait_after_ph_shift") /\ fsm.wait_after_ph_shift_cnt > SettleCnt ->
         "check_cmp_status"
    [] at("prep_phase") /\ PhasePrepared -> "ph_shift"
    [] at("end_srch") -> "idle"
    [] OTHER -> fsm.current_state

FsmClock ==
  LET at(s) == fsm.current_state = s
      starts == host.ps_en /\ ~fsm.ps_en_reg
      \* a register loaded in one state, initialised in idle, else kept
      Reg(s, new, init, old) == IF at(s) THEN new ELSE IF at("idle") THEN init ELSE old
  IN fsm' =
  [current_state    |-> NextState,
   ps_en_reg        |-> host.ps_en,
   ps_ctrl_busy_reg |-> ps.busy,
   ps_updwn_reg     |-> IF starts THEN host.ps_updwn ELSE fsm.ps_updwn_reg,
   ps_step_size_reg |-> IF starts THEN host.ps_step_size ELSE fsm.ps_step_size_reg,
   step_cnt_max_reg |-> MaxPhase - fsm.ps_step_size_reg,
   find_min         |-> Reg("min_found", FALSE, TRUE, fsm.find_min),
   find_max         |-> at("idle") \/ (fsm.find_max /\ ~at("max_found") /\ ~at("prep_phase")),
   step_cnt         |-> Reg("check_max_steps", Plus(fsm.step_cnt, fsm.ps_step_size_reg),
                            0, fsm.step_cnt),
   step_cnt_min     |-> Reg("min_found", fsm.step_cnt, 0, fsm.step_cnt_min),
   step_cnt_max     |-> Reg("max_found", Minus(fsm.step_cnt, fsm.ps_step_size_reg),
                            MaxPhase, fsm.step_cnt_max),
   prep_phase_cnt   |-> Count(at("prep_phase"), fsm.prep_phase_cnt),
   wait_after_ph_shift_cnt |-> Count(at("wait_after_ph_shift"), fsm.wait_after_ph_shift_cnt),
   step_cnt_diff    |-> Minus(fsm.step_cnt_max, fsm.step_cnt_min),
   step_cnt_middle  |-> Plus(fsm.step_cnt_diff \div 2, fsm.step_cnt_min),
   step_cnt_reverse |-> Minus(fsm.step_cnt, fsm.step_cnt_middle),
   pll_reset_req    |-> at("rst_pll"),
   smpl_cmp_en      |-> at("cmp_smpls"),
   ps_ctrl_en_reg   |-> at("ph_shift"),
   ps_ctrl_phase_reg |-> Reg("prep_phase", fsm.step_cnt_reverse, host.ps_step_size,
                             fsm.ps_ctrl_phase_reg),
   ps_ctrl_updwn_reg |-> Reg("prep_phase", ~fsm.ps_updwn_reg, host.ps_updwn,
                             fsm.ps_ctrl_updwn_reg),
   ps_done_reg      |-> host.ps_en /\ (at("end_srch") \/ fsm.ps_done_reg),
   ps_status_reg    |-> host.ps_en /\
                        (IF at("end_srch") THEN smpl_cmp_error ELSE fsm.ps_status_reg),
   ps_done_reg_manual_mode |-> host.ps_en /\ (ShiftEnds \/ fsm.ps_done_reg_manual_mode)]

\* The outputs, chosen by the mode.
ps_ctrl_en     == IF AutoMode THEN fsm.ps_ctrl_en_reg ELSE host.ps_en
ps_ctrl_updown == IF AutoMode THEN fsm.ps_ctrl_updwn_reg ELSE host.ps_updwn
ps_ctrl_phase  == IF AutoMode THEN fsm.ps_ctrl_phase_reg ELSE host.ps_phase
ps_done        == IF AutoMode THEN fsm.ps_done_reg ELSE fsm.ps_done_reg_manual_mode
ps_status      == IF AutoMode THEN fsm.ps_status_reg ELSE ps.busy

-----------------------------------------------------------------------------
(***************************************************************************)
(* pll_ps.  pll_phasedone_neg_reg, taken at the falling edge, has at the   *)
(* next rising edge what the PLL put out at the last one.                  *)
(***************************************************************************)
pll_phasestep == ps.current_state = "phase_step"

StepTimeout == ps.phase_step_cnt > Timeout
DoneTimeout_None == FALSE
DoneTimeout == ps.check_phase_done_cnt > Timeout

NextPsState ==
  LET at(s) == ps.current_state = s IN
  CASE at("idle") /\ ps_ctrl_en /\ ~ps.en_reg -> "check_phase_step"
    [] at("check_phase_step") ->
         IF ps.current_phase_step_cnt < ps.phase_reg THEN "phase_step" ELSE "end_phase"
    [] at("phase_step") /\ (~pll.phasedone \/ StepTimeout) -> "check_phase_done"
    [] at("check_phase_done") /\ pll.phasedone -> "check_phase_step"
    [] at("check_phase_done") /\ ~pll.phasedone /\ DoneTimeout -> "idle"
    [] at("end_phase") -> "idle"
    [] OTHER -> ps.current_state

PsClock ==
  LET at(s) == ps.current_state = s
      starts == ps_ctrl_en /\ ~ps.en_reg
  IN ps' =
  [current_state |-> NextPsState,
   en_reg        |-> ps_ctrl_en,
   phase_reg     |-> IF starts THEN ps_ctrl_phase ELSE ps.phase_reg,
   updown_reg    |-> IF starts THEN ps_ctrl_updown ELSE ps.updown_reg,
   current_phase_step_cnt |->
     IF at("check_phase_step") THEN Plus(ps.current_phase_step_cnt, 1)
     ELSE IF at("idle") THEN 0 ELSE ps.current_phase_step_cnt,
   phase_step_cnt       |-> Count(at("phase_step"), ps.phase_step_cnt),
   check_phase_done_cnt |-> Count(at("check_phase_done"), ps.check_phase_done_cnt),
   busy          |-> ~at("idle")]

-----------------------------------------------------------------------------
(***************************************************************************)
(* The PLL.                                                                *)
(***************************************************************************)
Direction(up) == IF up THEN 1 ELSE -1
Distance == IF pll.phase < 0 THEN -pll.phase ELSE pll.phase
AtRest == pll.locked /\ pll.phasedone = pll.rest

PllReset ==
  /\ fsm.pll_reset_req
  /\ \E d \in 0 .. LockClocks :
       pll' = [pll EXCEPT !.phase = 0, !.locked = FALSE, !.phasedone = pll.rest,
                          !.seen = 0, !.left = d]

PllLocks ==
  /\ ~fsm.pll_reset_req /\ ~pll.locked
  /\ pll' = [pll EXCEPT !.locked = (pll.left = 0),
                        !.left = IF pll.left = 0 THEN 0 ELSE pll.left - 1]

\* phasestep counts again only after it was low.
PllSees ==
  /\ ~fsm.pll_reset_req /\ pll.locked /\ (pll.phasedone \/ pll.kind # "live")
  /\ IF pll_phasestep /\ pll.kind = "live" /\ pll.seen = 1
     THEN \E d \in 1 .. PllSteps :
            pll' = [pll EXCEPT !.seen = 2, !.phasedone = FALSE, !.left = d]
     ELSE pll' = [pll EXCEPT !.seen =
                    IF ~pll_phasestep THEN 0 ELSE IF pll.seen = 0 THEN 1 ELSE pll.seen]

PllMoves ==
  /\ ~fsm.pll_reset_req /\ pll.locked /\ ~pll.phasedone /\ pll.kind = "live"
  /\ pll' = [pll EXCEPT
               !.seen = IF pll_phasestep THEN pll.seen ELSE 0,
               !.left = pll.left - 1,
               !.phasedone = (pll.left = 1),
               !.phase = IF pll.left = 1 THEN pll.phase + Direction(ps.updown_reg)
                         ELSE pll.phase]

Pll == PllReset \/ PllLocks \/ PllSees \/ PllMoves

-----------------------------------------------------------------------------
(***************************************************************************)
(* smpl_cmp.  It is held in reset while smpl_cmp_start is low, so that its *)
(* first comparison is one of the reset value of its input, which is wrong *)
(* on channel A; the errors of a channel stay until its next sample.       *)
(***************************************************************************)
smpl_cmp_start == smpl.en[2]

CmpReset ==
  [current_state |-> "idle", diq |-> [chan |-> "A", bad |-> TRUE], start_reg |-> FALSE,
   err |-> [A |-> FALSE, B |-> FALSE], smpl_err |-> FALSE,
   wait_cnt |-> 0, compare_cnt |-> 0, compare_stop |-> FALSE,
   done |-> FALSE, error |-> FALSE]

WaitOver == cmp.wait_cnt > 3

NextCmpState ==
  LET at(s) == cmp.current_state = s IN
  CASE at("idle") /\ smpl_cmp_start /\ ~cmp.start_reg -> "wait_cyc"
    [] at("wait_cyc") /\ WaitOver -> "compare"
    [] at("compare") /\ (cmp.compare_stop \/ cmp.smpl_err) -> "compare_done"
    [] at("compare_done") -> "idle"
    [] OTHER -> cmp.current_state

CmpStep ==
  LET at(s) == cmp.current_state = s
  IN
  [current_state |-> NextCmpState,
   diq           |-> smpl.mux0,
   start_reg     |-> smpl_cmp_start,
   err           |-> [cmp.err EXCEPT ![cmp.diq.chan] = cmp.diq.bad],
   smpl_err      |-> cmp.err.A \/ cmp.err.B,
   wait_cnt      |-> Count(at("wait_cyc"), cmp.wait_cnt),
   compare_cnt   |-> Count(at("compare"), cmp.compare_cnt),
   compare_stop  |-> cmp.compare_cnt > CmpLength - 1,
   done          |-> at("compare_done") \/ cmp.done,
   error         |-> (at("compare") /\ cmp.smpl_err) \/ cmp.error]

\* The next sample.  One taken while the comparator is still in reset is never
\* looked at, so it does not matter what it is.
BadSample ==
  IF ~smpl.en[1] \/ (AtRest /\ Distance \in pll.good) THEN {FALSE}
  ELSE IF AtRest /\ smpl.clean = CmpLength - 1 THEN {TRUE}
  ELSE BOOLEAN

SmplClock ==
  /\ \E bad \in BadSample :
       smpl' = [en    |-> <<fsm.smpl_cmp_en, smpl.en[1]>>,
                mux0  |-> [chan |-> IF smpl.mux0.chan = "A" THEN "B" ELSE "A", bad |-> bad],
                clean |-> IF bad \/ ~smpl.en[1] \/ ~AtRest \/ Distance \in pll.good
                          THEN 0 ELSE smpl.clean + 1]
  /\ cmp' = IF smpl.en[2] /\ smpl.en[1] THEN CmpStep ELSE CmpReset
  /\ UNCHANGED <<host, fsm, ps, pll, sync>>

-----------------------------------------------------------------------------
(***************************************************************************)
(* The host writes what it wants with ps_en low, raises ps_en and waits    *)
(* for ps_done before it lowers it.  It writes 0 to what the mode does not *)
(* use.                                                                    *)
(***************************************************************************)
HostSearches(up, step) ==
  \E w \in Windows :
    /\ host' = [ps_en |-> TRUE, ps_mode |-> "auto", ps_updwn |-> up, ps_phase |-> 0,
                ps_step_size |-> step, origin |-> 0]
    /\ pll' = [pll EXCEPT !.good = w]

HostShifts(up, phase) ==
  /\ Distance + phase <= MaxPhase              \* bound
  /\ host' = [ps_en |-> TRUE, ps_mode |-> "manual", ps_updwn |-> up, ps_phase |-> phase,
              ps_step_size |-> 0, origin |-> pll.phase]
  /\ pll' = [pll EXCEPT !.good = {}]

HostStarts ==
  /\ ~host.ps_en /\ ~fsm.ps_en_reg
  /\ \E up \in BOOLEAN : \/ \E step \in StepSizes : HostSearches(up, step)
                         \/ \E phase \in ManualPhases : HostShifts(up, phase)
  /\ UNCHANGED <<fsm, ps, sync, smpl, cmp>>

HostEnds ==
  /\ host.ps_en /\ ps_done
  /\ host' = [host EXCEPT !.ps_en = FALSE]
  /\ UNCHANGED <<fsm, ps, pll, sync, smpl, cmp>>

\* An edge of pll_scanclk.
ScanClock ==
  /\ FsmClock /\ PsClock /\ Pll
  /\ sync' = [locked |-> <<pll.locked, sync.locked[1]>>,
              done   |-> <<cmp.done, sync.done[1]>>,
              error  |-> <<cmp.error, sync.error[1]>>]
  /\ UNCHANGED <<host, smpl, cmp>>

\* Reset has ended and a clock has passed.
Init ==
  /\ host = [ps_en |-> FALSE, ps_mode |-> "manual", ps_updwn |-> FALSE, ps_phase |-> 0,
             ps_step_size |-> 0, origin |-> 0]
  /\ fsm = [current_state |-> "idle", ps_en_reg |-> FALSE, ps_ctrl_busy_reg |-> FALSE,
            ps_updwn_reg |-> FALSE, ps_step_size_reg |-> 0, step_cnt_max_reg |-> MaxPhase,
            find_min |-> TRUE, find_max |-> TRUE,
            step_cnt |-> 0, step_cnt_min |-> 0, step_cnt_max |-> MaxPhase,
            prep_phase_cnt |-> 0, wait_after_ph_shift_cnt |-> 0,
            step_cnt_diff |-> 0, step_cnt_middle |-> 0, step_cnt_reverse |-> 0,
            pll_reset_req |-> FALSE, smpl_cmp_en |-> FALSE, ps_ctrl_en_reg |-> FALSE,
            ps_ctrl_phase_reg |-> 0, ps_ctrl_updwn_reg |-> FALSE,
            ps_done_reg |-> FALSE, ps_status_reg |-> FALSE,
            ps_done_reg_manual_mode |-> FALSE]
  /\ ps = [current_state |-> "idle", en_reg |-> FALSE, phase_reg |-> 0,
           updown_reg |-> FALSE, current_phase_step_cnt |-> 0, phase_step_cnt |-> 0,
           check_phase_done_cnt |-> 0, busy |-> FALSE]
  /\ \E k \in PllKinds :
       pll = [phase |-> 0, locked |-> TRUE, phasedone |-> (k # "low"), rest |-> (k # "low"),
              kind |-> k, seen |-> 0, left |-> 0, good |-> {}]
  /\ sync = [locked |-> <<TRUE, TRUE>>, done |-> <<FALSE, FALSE>>, error |-> <<FALSE, FALSE>>]
  /\ smpl = [en |-> <<FALSE, FALSE>>, mux0 |-> [chan |-> "A", bad |-> FALSE], clean |-> 0]
  /\ cmp = CmpReset

Next == HostStarts \/ HostEnds \/ ScanClock \/ SmplClock
Spec == Init /\ [][Next]_vars
LiveSpec == Spec /\ WF_vars(ScanClock) /\ WF_vars(SmplClock)

-----------------------------------------------------------------------------
(***************************************************************************)
(* What a search finds, as an algorithm: the phases it visits, the first   *)
(* of them that is good (but for the first two), the last one of that      *)
(* window, and the middle of the two.  If the window does not end among    *)
(* the phases visited, MaxPhase is taken for its end, and the result is    *)
(* one step below the middle, for the step counted last was not made.      *)
(***************************************************************************)
Visited(step) == {p \in Phases : p = 0 \/ (p % step = 0 /\ p < MaxPhase)}
Middle(a, b) == a + (b - a) \div 2

Found(step, good) ==
  LET opens == {p \in Visited(step) : p > 2 /\ p \in good} IN
  IF opens = {} THEN Max(Visited(step))
  ELSE LET first  == Min(opens)
           closes == {p \in Visited(step) : p > first /\ p \notin good}
       IN IF closes = {} THEN Middle(first, MaxPhase) - step
          ELSE Middle(first, Min(closes) - step)

-----------------------------------------------------------------------------
(***************************************************************************)
(* Properties.                                                             *)
(***************************************************************************)
FsmStates == {"idle", "rst_pll", "wait_pll_lock", "check_cmp_status", "cmp_smpls",
  "min_found", "max_found", "check_max_steps", "ph_shift", "wait_after_ph_shift",
  "prep_phase", "end_srch"}

\* Every counter stays within its register, and the phase within the range of the search.
TypeOK ==
  /\ fsm.current_state \in FsmStates
  /\ {fsm.step_cnt, fsm.step_cnt_min, fsm.step_cnt_max, fsm.step_cnt_max_reg,
      fsm.step_cnt_diff, fsm.step_cnt_middle, fsm.step_cnt_reverse, fsm.ps_ctrl_phase_reg,
      fsm.ps_step_size_reg, ps.current_phase_step_cnt, ps.phase_reg} \subseteq Phases
  /\ fsm.prep_phase_cnt \in 0 .. 4 /\ fsm.wait_after_ph_shift_cnt \in 0 .. SettleCnt + 2
  /\ {ps.phase_step_cnt, ps.check_phase_done_cnt} \subseteq 0 .. Timeout + 2
  /\ pll.phase \in -MaxPhase .. MaxPhase
  /\ cmp.wait_cnt \in 0 .. 5 /\ cmp.compare_cnt \in 0 .. CmpLength + 2

\* When pll_ps_fsm acts on the comparator's verdict, the verdict is of samples all
\* taken at the present phase, none of them before the PLL was at rest: it says
\* error exactly if the phase is a bad one.  It is the comparator of another
\* clock, whose done flag of the phase before may take any time to fall.
VerdictIsOfThisPhase ==
  fsm.current_state = "cmp_smpls" /\ smpl_cmp_done =>
    AtRest /\ (smpl_cmp_error <=> Distance \notin pll.good)

\* With a PLL that works, when ps_done is up: in manual mode the phase is the one
\* it was and the steps asked for; in auto mode it is the one that the search as
\* an algorithm finds, and ps_status tells whether samples are wrong there.
ShiftResult ==
  host.ps_en /\ ps_done /\ pll.kind = "live" =>
    IF AutoMode
    THEN LET found == Found(host.ps_step_size, pll.good) IN
         /\ pll.phase = Direction(host.ps_updwn) * found
         /\ ps_status <=> found \notin pll.good
    ELSE pll.phase = host.origin + Direction(host.ps_updwn) * host.ps_phase /\ ~ps_status

\* Whatever is asked for is done, even if the PLL never answers on phasedone.
EveryShiftEnds == host.ps_en ~> ps_done
=============================================================================
