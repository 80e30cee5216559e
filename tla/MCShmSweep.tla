----------------------------- MODULE MCShmSweep -----------------------------
(* A small instance of ShmSweep for TLC: one port, since a sweep deals with
   ports one by one, and one sweep of each kind. *)
EXTENDS ShmSweep

MCPort == {"port"}
MCWatchdog == {"watchdog"}
MCShell == {"launch_teleop"}
=============================================================================
