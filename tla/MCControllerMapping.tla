------------------------ MODULE MCControllerMapping ------------------------
(* A small instance of ControllerMapping for TLC. *)
EXTENDS ControllerMapping, TLC

Num(n) == [kind |-> "int", n |-> n]
Float(n) == [kind |-> "float", n |-> n]
Text == [kind |-> "text", n |-> 0]

MCDefault ==
  [report |-> [buttons |-> Num(11), axes |-> Num(8)],
   buttons |-> [lb |-> Num(4), rb |-> Num(5)],
   axes |-> [left_x |-> Num(0), right_y |-> Num(4), dpad_x |-> Num(6)]]

Holding(report, buttons, axes) == [report |-> report, buttons |-> buttons, axes |-> axes]

(* The installed file, whose groups are all there and say what the default says. *)
Installed == Holding(MCDefault.report, MCDefault.buttons, MCDefault.axes)

(* A mapping of a controller with fewer axes. *)
Other == Holding("axes" :> Num(6), "rb" :> Num(6), "right_y" :> Num(3))

(* One spoilt or unusual group at a time: absent, partly there, null, a text, a float,
   past the end, from the end, further back than the beginning, both bumpers alike. *)
MCFiles ==
  {Missing, Broken, Installed, Other}
    \union {Holding(r, Absent, Absent) :
              r \in {Absent, "axes" :> NullValue, "axes" :> Text, "buttons" :> Num(14)}}
    \union {Holding(Absent, "lb" :> v, Absent) :
              v \in {Num(5), Num(20), NullValue, Text, Float(20), Float(4), Num(-1), Num(-12)}}
    \union {Holding(Absent, Absent, "left_x" :> v) :
              v \in {Num(9), NullValue, Float(0), Num(-1), Num(-9)}}
    \union {Holding(Absent, Absent, "dpad_x" :> Text)}

MCOwn == {Missing, Other}

JoyFrame(buttons, axes, pressed) ==
  [buttons |-> buttons, axes |-> axes, pressed |-> pressed]

(* The standardized pad with either bumper, and two pads in other modes. *)
MCFrames ==
  {JoyFrame(11, 8, {4}), JoyFrame(11, 8, {5, 10}), JoyFrame(14, 6, {4}), JoyFrame(11, 6, {5})}
=============================================================================
