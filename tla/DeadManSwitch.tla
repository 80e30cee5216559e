--------------------------- MODULE DeadManSwitch ---------------------------
(***************************************************************************)
(* What the velocity mux promises, without joysticks, commands or limits:  *)
(* the pilot grips one of the sources or nothing, a sampler looks at the   *)
(* grip at bounded intervals, and between two samples the vehicle follows  *)
(* the source that was gripped at the first, or stands still.              *)
(***************************************************************************)
EXTENDS Integers

CONSTANTS
  Source,   \* "idle" and the sources of motion
  Period,   \* a sample is taken no sooner than this after the last
  MaxGap,   \* and no later than this
  AgeCap    \* ages beyond this are not told apart

VARIABLES
  grip,     \* the source the pilot grips, "idle" for none
  motion,   \* the source the vehicle follows, "idle" for none
  lag,      \* time since the last sample
  gripAge   \* time since the grip last changed

vars == <<grip, motion, lag, gripAge>>

Init ==
  /\ grip = "idle"
  /\ motion = "idle"
  /\ lag = 0
  /\ gripAge = 0

Regrip ==
  /\ grip' \in Source \ {grip}
  /\ gripAge' = 0
  /\ UNCHANGED <<motion, lag>>

(* The sampler may always choose to stand still. *)
Sample ==
  /\ lag >= Period
  /\ motion' \in {"idle", grip}
  /\ lag' = 0
  /\ UNCHANGED <<grip, gripAge>>

(* Time passes; a grip may expire with it. *)
Tick ==
  /\ lag < MaxGap
  /\ lag' = lag + 1
  /\ \/ /\ grip' = grip
        /\ gripAge' = IF gripAge < AgeCap THEN gripAge + 1 ELSE AgeCap
     \/ /\ grip # "idle"
        /\ grip' = "idle"
        /\ gripAge' = 0
  /\ UNCHANGED motion

Next == Regrip \/ Sample \/ Tick

Spec == Init /\ [][Next]_vars

(* The vehicle follows the present grip, or the grip is younger than the last
   sample. *)
Obeyed == motion \in {"idle", grip} \/ gripAge =< lag
=============================================================================
