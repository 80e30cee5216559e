---------------------------- MODULE MCDashboard ----------------------------
(* A small instance of Dashboard for TLC.  A tick stands for five seconds. *)
EXTENDS Dashboard

MCTopic == {"state", "image"}
MCRateTopics == <<"state", "image">>
=============================================================================
