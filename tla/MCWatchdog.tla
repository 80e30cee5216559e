---------------------------- MODULE MCWatchdog ----------------------------
(***************************************************************************)
(* Small instances of Watchdog for TLC.  Times are scaled: one tick stands *)
(* for several seconds.                                                    *)
(***************************************************************************)
EXTENDS Watchdog

(* A camera with a restart delay. *)
MCCamera == {"arducam"}
MCCameraOrder == <<"arducam">>
MCCameraDelay == [n \in MCCamera |-> 1]

(* A process-authoritative node, and a camera whose restart delay the next
   poll of the other has to wait for. *)
MCPair == {"mavros", "arducam"}
MCPairOrder == <<"mavros", "arducam">>
MCPairDelay == [n \in MCPair |-> IF n = "arducam" THEN 1 ELSE 0]
MCMavros == {"mavros"}

MCJumps == {-2, 2}
=============================================================================
