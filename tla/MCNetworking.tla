---------------------------- MODULE MCNetworking ----------------------------
(* A small instance of Networking for TLC: two client connections, of which
   either order of deletion is tried. *)
EXTENDS Networking

MCClient == {"duck", "lab"}
=============================================================================
