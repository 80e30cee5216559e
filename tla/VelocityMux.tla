---------------------------- MODULE VelocityMux ----------------------------
(***************************************************************************)
(* The velocity command mux (mux_node.py).  It holds the latest joystick   *)
(* frame, the latest student command and the latest gamepad command, and a *)
(* timer turns them into the setpoint MAVROS forwards to the autopilot.    *)
(*                                                                         *)
(* rclpy.spin runs one callback at a time, so every callback is one        *)
(* action.  time.monotonic() stamps are kept as ages: the code only ever   *)
(* compares now - stamp with _JOY_TIMEOUT, so an age beyond AgeCap behaves *)
(* like AgeCap and the state space is finite.                              *)
(***************************************************************************)
EXTENDS Integers

CONSTANTS
  Linear,       \* the linear components of a twist the mux copies
  Angular,      \* its angular components (angular.z in the code)
  MaxSpeed,     \* parameter max_speed
  MaxYawRate,   \* parameter max_yaw_rate
  Unit,         \* how many steps of the number grid make 1.0
  NaN,          \* the float that compares false with everything
  RawCommands,  \* the commands other nodes may send, before clamping
  Frames,       \* the Joy messages that may arrive
  LB, RB,       \* button indices from the controller mapping
  ExpButtons, ExpAxes,  \* the expected report shape, None to skip the test
  None,
  JoyTimeout,   \* _JOY_TIMEOUT, in clock ticks
  Period,       \* 1 / publish_rate, in clock ticks
  MaxGap        \* bound on the time between two firings of the timer

Component == Linear \union Angular
Limit == [c \in Component |-> IF c \in Angular THEN MaxYawRate ELSE MaxSpeed]
Raw == Int \union {NaN}
Command == [Component -> Int]
Frame == [buttons : Nat, axes : Nat, pressed : SUBSET Nat]
Zero == [c \in Component |-> 0]
Source == {"idle", "manual", "auto"}

ASSUME LimitAssumption ==
  /\ MaxSpeed \in Nat
  /\ MaxYawRate \in Nat
  /\ Unit \in Nat \ {0}
ASSUME InputAssumption ==
  /\ NaN \notin Int
  /\ RawCommands \subseteq [Component -> Raw]
  /\ Frames \subseteq Frame
  /\ LB \in Nat
  /\ RB \in Nat
  /\ ExpButtons \in Nat \union {None}
  /\ ExpAxes \in Nat \union {None}
  /\ None \notin Frame
ASSUME TimeAssumption ==
  /\ JoyTimeout \in Nat \ {0}
  /\ Period \in Nat \ {0}
  /\ MaxGap \in Nat
  /\ Period =< MaxGap

VARIABLES
  latestJoy,     \* _latest_joy
  joyAge,        \* now - _joy_stamp
  joyConnected,  \* _joy_connected
  warnedMode,    \* _warned_mode
  autoCmd,       \* _auto_cmd.twist, clamped and scaled
  gamepadCmd,    \* _gamepad_cmd.twist, clamped and scaled
  gamepadAge,    \* now - _gamepad_stamp
  timerAge,      \* time since the publish timer last fired
  setpoint,      \* the last twist published to MAVROS
  setpointAge,   \* time since it was published
  via,           \* history: the source that twist was copied from
  autoAge,       \* history: time since a student command arrived
  gripAge        \* history: time since what the pilot grips last changed

inputVars == <<latestJoy, joyAge, joyConnected, autoCmd, gamepadCmd,
               gamepadAge, autoAge, gripAge>>
outputVars == <<timerAge, setpoint, setpointAge, via>>
vars == <<inputVars, outputVars, warnedMode>>

-----------------------------------------------------------------------------
(* Data. *)

(* Mutant: the lower bound is forgotten. *)
ClampAboveOnly(v) == IF v = NaN \/ v > Unit THEN Unit ELSE v

(* max(-1.0, min(1.0, v)): Python's min keeps its first argument when the
   comparison with the second is false, so NaN comes out as 1.0. *)
Clamp(v) ==
  IF v = NaN \/ v > Unit THEN Unit ELSE IF v < -Unit THEN -Unit ELSE v

(* Mutant: a callback that forgets angular.z. *)
ScaledLinearOnly(raw) == [c \in Linear |-> Clamp(raw[c]) * Limit[c]]

Scaled(raw) == [c \in Component |-> Clamp(raw[c]) * Limit[c]]

(* Mutant: the one-time warning is taken for the verdict. *)
WrongModeLatched(joy) ==
  warnedMode \/ (ExpButtons # None /\ joy.buttons # ExpButtons)

(* Only evaluated on a received frame. *)
WrongMode(joy) ==
  \/ ExpButtons # None /\ joy.buttons # ExpButtons
  \/ ExpAxes # None /\ joy.axes # ExpAxes

Held(joy, button) == joy.buttons > button /\ button \in joy.pressed

(* Mutant: a frame counts forever once received. *)
NeverConnected == latestJoy = None

Disconnected == latestJoy = None \/ joyAge > JoyTimeout

(* The policy of config/mux.yaml, against which the timer is checked: what
   the pilot grips, as a frame of this age shows it. *)
Grips(joy, age, bumper, other) ==
  /\ joy # None
  /\ age =< JoyTimeout
  /\ ExpButtons \in {None, joy.buttons}
  /\ ExpAxes \in {None, joy.axes}
  /\ bumper < joy.buttons /\ bumper \in joy.pressed
  /\ ~(other < joy.buttons /\ other \in joy.pressed)

GripOf(joy, age) ==
  IF Grips(joy, age, LB, RB) THEN "manual"
  ELSE IF Grips(joy, age, RB, LB) THEN "auto" ELSE "idle"

Grip == GripOf(latestJoy, joyAge)

AgeCap == JoyTimeout + MaxGap + 1
Age == 0 .. AgeCap
Older(age) == IF age < AgeCap THEN age + 1 ELSE AgeCap

TypeOK ==
  /\ latestJoy \in Frame \union {None}
  /\ joyAge \in Age
  /\ joyConnected \in BOOLEAN
  /\ warnedMode \in BOOLEAN
  /\ autoCmd \in Command
  /\ gamepadCmd \in Command
  /\ gamepadAge \in Age
  /\ timerAge \in 0 .. MaxGap
  /\ setpoint \in Command
  /\ setpointAge \in Age
  /\ via \in Source
  /\ autoAge \in Age
  /\ gripAge \in Age

(* The stamps start at 0.0 on the monotonic clock, long before the node. *)
Init ==
  /\ latestJoy = None
  /\ joyAge = AgeCap
  /\ joyConnected = FALSE
  /\ warnedMode = FALSE
  /\ autoCmd = Zero
  /\ gamepadCmd = Zero
  /\ gamepadAge = AgeCap
  /\ timerAge = 0
  /\ setpoint = Zero
  /\ setpointAge = 0
  /\ via = "idle"
  /\ autoAge = AgeCap
  /\ gripAge = 0

-----------------------------------------------------------------------------
(* Subscriptions. *)

JoyCb(joy) ==
  /\ latestJoy' = joy
  /\ joyAge' = 0
  /\ joyConnected' = TRUE
  /\ gripAge' = IF GripOf(joy, 0) = Grip THEN gripAge ELSE 0
  /\ UNCHANGED <<warnedMode, autoCmd, gamepadCmd, gamepadAge, autoAge, outputVars>>

AutoCb(raw) ==
  /\ autoCmd' = Scaled(raw)
  /\ autoAge' = 0
  /\ UNCHANGED <<latestJoy, joyAge, joyConnected, warnedMode, gamepadCmd,
                 gamepadAge, gripAge, outputVars>>

GamepadCb(raw) ==
  /\ gamepadCmd' = Scaled(raw)
  /\ gamepadAge' = 0
  /\ UNCHANGED <<latestJoy, joyAge, joyConnected, warnedMode, autoCmd,
                 autoAge, gripAge, outputVars>>

-----------------------------------------------------------------------------
(* The publish timer: one action per path through _publish. *)

Due == timerAge >= Period

Emit(twist, source) ==
  /\ setpoint' = twist
  /\ via' = source
  /\ setpointAge' = 0
  /\ timerAge' = 0

(* Mutant: the early return comes before the publish. *)
PublishDisconnectedSilently ==
  /\ Due
  /\ Disconnected
  /\ joyConnected' = (joyConnected /\ latestJoy = None)
  /\ timerAge' = 0
  /\ UNCHANGED <<latestJoy, joyAge, warnedMode, autoCmd, gamepadCmd,
                 gamepadAge, autoAge, gripAge, setpoint, setpointAge, via>>

(* Mutant: the flag is never lowered. *)
PublishDisconnectedUnseen ==
  /\ Due
  /\ Disconnected
  /\ Emit(Zero, "idle")
  /\ UNCHANGED <<inputVars, warnedMode>>

PublishDisconnected ==
  /\ Due
  /\ Disconnected
  /\ joyConnected' = (joyConnected /\ latestJoy = None)
  /\ Emit(Zero, "idle")
  /\ UNCHANGED <<latestJoy, joyAge, warnedMode, autoCmd, gamepadCmd,
                 gamepadAge, autoAge, gripAge>>

PublishWrongMode ==
  /\ Due
  /\ ~Disconnected
  /\ WrongMode(latestJoy)
  /\ warnedMode' = TRUE
  /\ Emit(Zero, "idle")
  /\ UNCHANGED inputVars

(* The bumpers of a connected joystick in the right mode. *)
Bumpers(lb_held, rb_held) ==
  /\ Due
  /\ ~Disconnected
  /\ ~WrongMode(latestJoy)
  /\ Held(latestJoy, LB) = lb_held
  /\ Held(latestJoy, RB) = rb_held

(* Mutant: the command is flown whatever its age. *)
ManualAnyAge == TRUE

ManualFresh == gamepadAge =< JoyTimeout

PublishManual ==
  /\ Bumpers(TRUE, FALSE)
  /\ ManualFresh
  /\ Emit(gamepadCmd, "manual")
  /\ UNCHANGED <<inputVars, warnedMode>>

PublishManualStale ==
  /\ Bumpers(TRUE, FALSE)
  /\ ~ManualFresh
  /\ Emit(Zero, "idle")
  /\ UNCHANGED <<inputVars, warnedMode>>

PublishAuto ==
  /\ Bumpers(FALSE, TRUE)
  /\ Emit(autoCmd, "auto")
  /\ UNCHANGED <<inputVars, warnedMode>>

(* Mutant: `elif rb_held` without `and not lb_held`. *)
PublishIdleRbWins ==
  /\ \/ Bumpers(TRUE, TRUE) /\ Emit(autoCmd, "auto")
     \/ Bumpers(FALSE, FALSE) /\ Emit(Zero, "idle")
  /\ UNCHANGED <<inputVars, warnedMode>>

PublishIdle ==
  /\ Bumpers(TRUE, TRUE) \/ Bumpers(FALSE, FALSE)
  /\ Emit(Zero, "idle")
  /\ UNCHANGED <<inputVars, warnedMode>>

Publish ==
  \/ PublishDisconnected
  \/ PublishWrongMode
  \/ PublishManual
  \/ PublishManualStale
  \/ PublishAuto
  \/ PublishIdle

-----------------------------------------------------------------------------
(* The clock.  The timer fires no later than MaxGap after it last fired. *)
Tick ==
  /\ timerAge < MaxGap
  /\ timerAge' = timerAge + 1
  /\ joyAge' = Older(joyAge)
  /\ gamepadAge' = Older(gamepadAge)
  /\ autoAge' = Older(autoAge)
  /\ setpointAge' = Older(setpointAge)
  /\ gripAge' = IF GripOf(latestJoy, Older(joyAge)) = Grip THEN Older(gripAge) ELSE 0
  /\ UNCHANGED <<latestJoy, joyConnected, warnedMode, autoCmd, gamepadCmd,
                 setpoint, via>>

Next ==
  \/ \E joy \in Frames : JoyCb(joy)
  \/ \E raw \in RawCommands : AutoCb(raw)
  \/ \E raw \in RawCommands : GamepadCb(raw)
  \/ Publish
  \/ Tick

Spec == Init /\ [][Next]_vars

(* The executor keeps spinning and the monotonic clock keeps running; nothing
   is assumed of the nodes that send. *)
Fairness == WF_vars(Tick) /\ WF_vars(Publish)
FairSpec == Spec /\ Fairness

-----------------------------------------------------------------------------
(* Safety. *)

(* No setpoint exceeds max_speed or max_yaw_rate, whatever the student code
   or the gamepad node sent, infinities and NaN included. *)
SpeedLimit ==
  \A c \in Component :
    /\ setpoint[c] =< Unit * Limit[c]
    /\ setpoint[c] >= -(Unit * Limit[c])

(* The dead-man switch: a setpoint that moves the vehicle comes from the
   source the pilot grips now, or the grip changed after the timer last fired
   and the next firing corrects it.  A pilot who lets go, grips both bumpers,
   unplugs the controller or switches its mode is obeyed within one period. *)
DeadMan ==
  setpoint # Zero => via # "idle" /\ (via = Grip \/ gripAge =< timerAge)

(* A manual setpoint is never older than _JOY_TIMEOUT when it is published:
   a dead gamepad node stops moving the vehicle. *)
ManualNotStale == via = "manual" => gamepadAge =< JoyTimeout + timerAge

(* _joy_connected, which the next disconnect warning depends on, agrees with
   the frames up to one timer period, and while it is FALSE nothing moves. *)
ConnectionHonest ==
  /\ joyConnected => latestJoy # None /\ joyAge =< JoyTimeout + timerAge
  /\ ~joyConnected => setpoint = Zero /\ Disconnected

(* Every path through the timer publishes, so the stream PX4 needs to stay in
   OFFBOARD mode never pauses for longer than the timer does. *)
StreamKept == setpointAge =< MaxGap

(* README.md:846 and the module docstring (mux_node.py:26-28): a student
   command older than the timeout holds zero.  The code does not do this. *)
AutoNotStale == setpoint # Zero /\ via = "auto" => autoAge =< JoyTimeout + timerAge

(* Liveness. *)

ManualLive == Grip = "manual" /\ ManualFresh /\ gamepadCmd # Zero

(* Whatever happened before (unplugged, wrong mode, dead gamepad), a pilot
   who keeps LB held with the stick deflected gets the vehicle to move. *)
ControlReturns == <>[]ManualLive => <>[](setpoint # Zero)

-----------------------------------------------------------------------------
(* The mux implements the dead-man switch it promises: what the grip and the
   motion are is read off the latest frame and the last setpoint. *)
Switch == INSTANCE DeadManSwitch WITH
  grip <- Grip,
  motion <- IF setpoint = Zero THEN "idle" ELSE via,
  lag <- timerAge

ImplementsSwitch == Switch!Spec
=============================================================================
