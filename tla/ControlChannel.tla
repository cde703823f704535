---------------------------- MODULE ControlChannel ----------------------------
(***************************************************************************)
(* What the control endpoints promise the host: a command packet gets one  *)
(* reply, a whole one, made for that command, before the host sends the    *)
(* next; and it does get it.                                               *)
(***************************************************************************)
CONSTANTS
  Commands,
  None,
  Answers(_, _)   \* is the second a reply to the first?

VARIABLES
  asked,          \* the command that waits for its reply, or None
  answer          \* the last reply, until the host asks again, or None

Init == asked = None /\ answer = None

Ask ==
  /\ asked = None
  /\ asked' \in Commands
  /\ answer' = None

Answer ==
  /\ asked # None
  /\ Answers(asked, answer')
  /\ asked' = None

Next == Ask \/ Answer
Safety == Init /\ [][Next]_<<asked, answer>>

\* Liveness is stated without ENABLED: Answers may leave the choice of a reply
\* out of an infinite set.
Spec == Safety /\ (asked # None ~> asked = None)
=============================================================================
