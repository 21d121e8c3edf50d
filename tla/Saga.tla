-------------------------------- MODULE Saga --------------------------------
(***************************************************************************)
(* What an LDM pipeline promises, without its exceptions, its lists and    *)
(* its exit handling: a sequence of steps that are applied one on top of   *)
(* the other, and that are compensated from the top down as soon as one of *)
(* them cannot be applied.  A saga closes with all its steps applied, with *)
(* none of its steps standing, or -- when somebody interrupts it -- as it  *)
(* happens to be.                                                          *)
(***************************************************************************)
EXTENDS Naturals

CONSTANT N          \* number of steps

VARIABLES
  mode,             \* "forward", "backward" or "closed"
  height            \* steps standing: 1..height are applied

vars == <<mode, height>>

TypeOK == mode \in {"forward", "backward", "closed"} /\ height \in 0..N

Init == mode = "forward" /\ height = 0

\* The next step is applied on top of the ones that stand.
Apply ==
  /\ mode = "forward"
  /\ height < N
  /\ height' = height + 1
  /\ UNCHANGED mode

\* Nothing more is to be applied: finished, stopped, found nothing to do, or
\* interrupted.
Close ==
  /\ mode = "forward"
  /\ mode' = "closed"
  /\ UNCHANGED height

\* A step cannot be applied.  There must have been one left to apply.
Abort ==
  /\ mode = "forward"
  /\ height < N
  /\ mode' = "backward"
  /\ UNCHANGED height

\* The topmost step is compensated.
Compensate ==
  /\ mode = "backward"
  /\ height > 0
  /\ height' = height - 1
  /\ UNCHANGED mode

\* Everything has been compensated, or an interrupt abandons the rest.
GiveUp ==
  /\ mode = "backward"
  /\ mode' = "closed"
  /\ UNCHANGED height

Next == Apply \/ Close \/ Abort \/ Compensate \/ GiveUp

Spec == Init /\ [][Next]_vars
=============================================================================
