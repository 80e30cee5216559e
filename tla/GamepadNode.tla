---------------------------- MODULE GamepadNode ----------------------------
(***************************************************************************)
(* The gamepad node (gamepad.py): a Joy message in, a normalized command    *)
(* out, no state in between but a warning that is given once.               *)
(*                                                                          *)
(* Stick positions lie on a grid of One steps to full deflection, outputs   *)
(* on a grid of Full steps, so that the division by 1.0 - dz is exact.      *)
(***************************************************************************)
EXTENDS Integers

CONSTANTS
  One,       \* full deflection of a stick
  DeadBand,  \* joystick_dead_zone, on the same grid
  MinAxes,   \* _min_axes: the largest stick index plus one
  ExpAxes,   \* the expected number of axes, None to skip the test
  None

ASSUME GamepadAssumption ==
  /\ One \in Nat
  /\ DeadBand \in Nat
  /\ DeadBand < One
  /\ MinAxes \in Nat

Stick == {"left_x", "left_y", "right_x", "right_y"}
Position == -One .. One
Full == One - DeadBand   \* 1.0 at the output

(* _dead_zone: sign * (|v| - dz) / (1.0 - dz), in steps of 1 / Full. *)
DeadZone(v) ==
  IF v < DeadBand /\ -v < DeadBand THEN 0
  ELSE IF v > 0 THEN v - DeadBand ELSE v + DeadBand

(* Which stick drives which component; x of both sticks grows to the left. *)
Normalized(sticks) ==
  [c \in {"linear.x", "linear.y", "linear.z", "angular.z"} |->
     CASE c = "linear.x"  -> DeadZone(sticks["right_y"])
       [] c = "linear.y"  -> DeadZone(-sticks["right_x"])
       [] c = "linear.z"  -> DeadZone(sticks["left_y"])
       [] c = "angular.z" -> DeadZone(-sticks["left_x"])]

(* The early return of _joy_cb.  Unlike the mux it does not count buttons. *)
Rejects(axes) == axes < MinAxes \/ (ExpAxes # None /\ axes # ExpAxes)
=============================================================================
