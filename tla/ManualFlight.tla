---------------------------- MODULE ManualFlight ----------------------------
(***************************************************************************)
(* The manual path from the pilot's hands to the setpoint: joy_node repeats *)
(* the state of the controller on /joy, gamepad_node and mux_node each      *)
(* receive it through a queue of their own, and the gamepad's commands      *)
(* reach the mux through a third.  The mux is the module VelocityMux.       *)
(*                                                                          *)
(* joy_node, the DDS queues and the pilot are not in the repository: they   *)
(* are modelled from how teleop.launch.py and the nodes use them.           *)
(***************************************************************************)
EXTENDS GamepadNode, Sequences

CONSTANTS
  MaxSpeed, MaxYawRate, JoyTimeout,  \* of mux_node
  LB, RB, ExpButtons, NaN,
  MaxGap,      \* bound on the lateness of the mux's timer
  MaxDelay,    \* bound on how long a message waits in a queue
  QueueDepth,  \* the depth of the subscriptions
  Presses,     \* the sets of bumpers the pilot may press
  Sticks,      \* the stick positions the pilot may choose
  Pads         \* the reports the controller may send, as [buttons, axes]

VARIABLES
  latestJoy, joyAge, joyConnected, warnedMode, autoCmd, gamepadCmd, gamepadAge,
  timerAge, setpoint, setpointAge, via, autoAge, gripAge   \* of the mux

VARIABLES
  bumpers,     \* what the pilot presses
  sticks,      \* where the pilot holds the sticks
  pad,         \* the report shape of the controller joy_node reads, None for none
  gamepadUp,   \* the process gamepad_node runs
  muxUp,       \* the process mux_node runs
  toMux, toGamepad,  \* /joy as queued for either subscriber
  commands,    \* /gamepad/cmd_vel as queued for the mux
  timed,       \* history: what this behaviour times, the grip or the stick
  endedFor     \* history: time since it ended

muxVars == <<latestJoy, joyAge, joyConnected, warnedMode, autoCmd, gamepadCmd,
             gamepadAge, timerAge, setpoint, setpointAge, via, autoAge, gripAge>>
pilotVars == <<bumpers, sticks, pad>>
queueVars == <<toMux, toGamepad, commands>>
processVars == <<gamepadUp, muxUp>>
historyVars == <<timed, endedFor>>
vars == <<muxVars, pilotVars, queueVars, processVars, historyVars>>

Mux == INSTANCE VelocityMux WITH
  Linear <- {"linear.x", "linear.y", "linear.z"},
  Angular <- {"angular.z"},
  Unit <- Full,
  RawCommands <- {Normalized(s) : s \in Sticks},
  Frames <- {[buttons |-> p.buttons, axes |-> p.axes, pressed |-> b] :
               p \in Pads, b \in Presses},
  Period <- 1

(* The longest the vehicle may follow a grip, and a deflection, that ended:
   the queues on the way, the timeout and the timer. *)
GripBound == MaxDelay + JoyTimeout + MaxGap
StickBound == GripBound + MaxDelay
Bound == IF timed = "grip" THEN GripBound ELSE StickBound
Later(age) == IF age =< Bound THEN age + 1 ELSE age

Neutral == [s \in Stick |-> 0]

ASSUME ManualAssumption ==
  /\ MaxSpeed \in Nat /\ MaxYawRate \in Nat /\ NaN \notin Int
  /\ LB \in Nat /\ RB \in Nat
  /\ ExpButtons \in Nat \union {None} /\ ExpAxes \in Nat \union {None}
  /\ None \notin Mux!Frame
  /\ JoyTimeout \in Nat \ {0} /\ MaxGap \in Nat \ {0}
  /\ MaxDelay \in Nat /\ QueueDepth \in Nat \ {0}
  /\ Presses \subseteq SUBSET Nat /\ {} \in Presses
  /\ Sticks \subseteq [Stick -> Position] /\ Neutral \in Sticks
  /\ Pads \subseteq [buttons : Nat, axes : Nat] /\ None \notin Pads

(* What the controller shows of the bumpers, and whether config/mux.yaml calls
   it a grip for manual flight. *)
Shown == [buttons |-> pad.buttons, axes |-> pad.axes, pressed |-> bumpers]
GripsManual == pad # None /\ Mux!Grips(Shown, 0, LB, RB)
Deflected == Normalized(sticks) # Mux!Zero
Engaged == IF timed = "grip" THEN GripsManual ELSE Deflected

TypeOK ==
  /\ Mux!TypeOK
  /\ bumpers \in Presses
  /\ sticks \in Sticks
  /\ pad \in Pads \union {None}
  /\ gamepadUp \in BOOLEAN
  /\ muxUp \in BOOLEAN
  /\ ~muxUp => toMux = <<>> /\ commands = <<>>
  /\ \A q \in {toMux, toGamepad, commands} :
       Len(q) =< QueueDepth /\ \A i \in DOMAIN q : q[i].age \in 0 .. MaxDelay
  /\ timed \in {"grip", "stick"}
  /\ endedFor \in 0 .. StickBound + 1

Init ==
  /\ Mux!Init
  /\ bumpers = {}
  /\ sticks = Neutral
  /\ pad = None
  /\ gamepadUp = TRUE
  /\ muxUp = TRUE
  /\ toMux = <<>>
  /\ toGamepad = <<>>
  /\ commands = <<>>
  /\ timed \in {"grip", "stick"}
  /\ endedFor = Bound + 1

(* Mutant: nothing is ever dropped. *)
PutForever(queue, message) == Append(queue, message)

(* KEEP_LAST: a full queue loses its oldest message. *)
Put(queue, message) ==
  LET kept == IF Len(queue) < QueueDepth THEN queue ELSE Tail(queue)
  IN Append(kept, message)

-----------------------------------------------------------------------------
(* The pilot and the controller. *)

(* A grip or a deflection lasts until the change that ends it. *)
Remember ==
  /\ endedFor' = IF Engaged THEN 0 ELSE endedFor
  /\ UNCHANGED timed

PilotActs ==
  /\ pad # None
  /\ bumpers' \in Presses
  /\ sticks' \in Sticks
  /\ Remember
  /\ UNCHANGED <<muxVars, pad, queueVars, processVars>>

(* Plugged in, unplugged, or switched to another mode; that joy_node dies is
   to the other nodes the same as an unplugged controller. *)
PadChanges ==
  /\ pad' \in (Pads \union {None}) \ {pad}
  /\ bumpers' \in IF pad' = None THEN {{}} ELSE Presses
  /\ sticks' \in IF pad' = None THEN {Neutral} ELSE Sticks
  /\ Remember
  /\ UNCHANGED <<muxVars, queueVars, processVars>>

(* The watchdog does not look after the gamepad node: it stays dead. *)
GamepadDies ==
  /\ gamepadUp
  /\ gamepadUp' = FALSE
  /\ Remember
  /\ UNCHANGED <<muxVars, pilotVars, queueVars, muxUp>>

-----------------------------------------------------------------------------
(* The nodes. *)

(* gamepad_node's _joy_cb. *)
GamepadJoyCb ==
  /\ gamepadUp
  /\ toGamepad # <<>>
  /\ LET message == Head(toGamepad)
         command == [twist |-> Normalized(message.sticks), age |-> 0]
     IN commands' = IF Rejects(message.axes) \/ ~muxUp THEN commands
                    ELSE Put(commands, command)
  /\ toGamepad' = Tail(toGamepad)
  /\ UNCHANGED <<muxVars, pilotVars, processVars, toMux, historyVars>>

MuxJoyCb ==
  /\ toMux # <<>>
  /\ Mux!JoyCb(Head(toMux).frame)
  /\ toMux' = Tail(toMux)
  /\ UNCHANGED <<pilotVars, processVars, toGamepad, commands, historyVars>>

MuxGamepadCb ==
  /\ commands # <<>>
  /\ Mux!GamepadCb(Head(commands).twist)
  /\ commands' = Tail(commands)
  /\ UNCHANGED <<pilotVars, processVars, toMux, toGamepad, historyVars>>

MuxPublish ==
  /\ muxUp
  /\ Mux!Publish
  /\ UNCHANGED <<pilotVars, processVars, queueVars, historyVars>>

(* The fields as __init__ of the next mux_node finds them. *)
MuxForgets ==
  /\ latestJoy' = None
  /\ joyAge' = Mux!AgeCap
  /\ autoCmd' = Mux!Zero
  /\ gamepadCmd' = Mux!Zero
  /\ gamepadAge' = Mux!AgeCap
  /\ timerAge' = 0
  /\ joyConnected' = FALSE
  /\ warnedMode' = FALSE
  /\ setpoint' = Mux!Zero
  /\ setpointAge' = 0
  /\ via' = "idle"
  /\ autoAge' = Mux!AgeCap
  /\ gripAge' = 0

(* mux_node crashes: what it knew and what waits for it are gone.  From here
   on setpoint is that of the next process, which has sent none. *)
MuxDies ==
  /\ muxUp
  /\ muxUp' = FALSE
  /\ MuxForgets
  /\ toMux' = <<>>
  /\ commands' = <<>>
  /\ UNCHANGED <<pilotVars, gamepadUp, toGamepad, historyVars>>

(* The watchdog relaunches it, sooner or later. *)
MuxRestarts ==
  /\ ~muxUp
  /\ muxUp' = TRUE
  /\ UNCHANGED <<muxVars, pilotVars, gamepadUp, queueVars, historyVars>>

Aged(queue) == [i \in DOMAIN queue |-> [queue[i] EXCEPT !.age = @ + 1]]

(* joy_node's autorepeat: what the controller reports, once a tick.  A queue
   keeps the part of the message its subscriber reads. *)
Repeat(queue, part) == IF pad = None THEN queue ELSE Put(queue, part)
ForMux == [frame |-> Shown, age |-> 0]
ForGamepad == [axes |-> pad.axes, sticks |-> sticks, age |-> 0]

(* A tick passes when no message would overstay. *)
Tick ==
  /\ \A q \in {toMux, commands} : \A i \in DOMAIN q : q[i].age < MaxDelay
  /\ gamepadUp => \A i \in DOMAIN toGamepad : toGamepad[i].age < MaxDelay
  /\ IF muxUp THEN Mux!Tick ELSE UNCHANGED muxVars
  /\ toMux' = IF muxUp THEN Repeat(Aged(toMux), ForMux) ELSE <<>>
  /\ toGamepad' = IF gamepadUp THEN Repeat(Aged(toGamepad), ForGamepad) ELSE <<>>
  /\ commands' = Aged(commands)
  /\ endedFor' = IF Engaged THEN 0 ELSE Later(endedFor)
  /\ UNCHANGED <<pilotVars, processVars, timed>>

Next ==
  \/ PilotActs \/ PadChanges \/ GamepadDies
  \/ GamepadJoyCb \/ MuxJoyCb \/ MuxGamepadCb \/ MuxPublish
  \/ MuxDies \/ MuxRestarts
  \/ Tick

Spec == Init /\ [][Next]_vars

-----------------------------------------------------------------------------
(* Safety. *)

(* From hand to setpoint: the vehicle moves only if the pilot gripped LB, and
   LB alone, on a live controller in the right mode within GripBound. *)
EndToEndDeadMan ==
  setpoint # Mux!Zero /\ timed = "grip" => GripsManual \/ endedFor =< GripBound

(* and only if the pilot deflected a stick within StickBound, even when the
   gamepad node died in between. *)
EndToEndStick ==
  setpoint # Mux!Zero /\ timed = "stick" => Deflected \/ endedFor =< StickBound
=============================================================================
