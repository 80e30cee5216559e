--------------------------- MODULE MCVelocityMux ---------------------------
(***************************************************************************)
(* Small instances of VelocityMux for TLC: one linear and one angular      *)
(* component, two commands, five frames.                                   *)
(***************************************************************************)
EXTENDS VelocityMux

MCLinear == {"linear.x"}
MCAngular == {"angular.z"}

Twist(x, yaw) == [c \in MCLinear \union MCAngular |-> IF c \in MCAngular THEN yaw ELSE x]

(* Past both limits at once; neutral but for a component that is no number. *)
MCRawCommands == {Twist(2, -3), Twist(NaN, 0)}

JoyFrame(buttons, axes, pressed) ==
  [buttons |-> buttons, axes |-> axes, pressed |-> pressed]

(* The standardized pad with every combination of the bumpers, and a pad in
   another mode that reports LB. *)
MCFrames ==
  {JoyFrame(11, 8, bumpers) : bumpers \in SUBSET {4, 5}}
    \union {JoyFrame(14, 6, {4})}
=============================================================================
