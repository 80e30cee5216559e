--------------------------- MODULE MCManualFlight ---------------------------
(***************************************************************************)
(* A small instance of ManualFlight for TLC.                               *)
(***************************************************************************)
EXTENDS ManualFlight

Held(y) == [s \in Stick |-> IF s = "right_y" THEN y ELSE 0]

(* Neutral, and full forward. *)
MCSticks == {Held(0), Held(4)}
MCPresses == {{}, {LB}}
MCPads == {[buttons |-> 11, axes |-> 8]}

(* States that differ only in what no action reads and neither end-to-end
   property mentions (flags for the log, history of the mux) are one state. *)
MCView ==
  <<latestJoy, joyAge, autoCmd, gamepadCmd, gamepadAge, timerAge, setpoint,
    pilotVars, queueVars, processVars, historyVars>>
=============================================================================
