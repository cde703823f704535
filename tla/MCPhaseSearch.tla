---------------------------- MODULE MCPhaseSearch ----------------------------
(* Bounds of the instance of PhaseSearch: no good phase, only good ones, a     *)
(* window, and a phase too early to count before a window.                     *)
EXTENDS PhaseSearch

MCWindows == {{}, 0 .. 7, 3 .. 5, {1, 4, 5}}
=============================================================================
