---------------------------- MODULE MCDashboard ----------------------------
(* The dashboard on a small instance. *)
EXTENDS Dashboard
=============================================================================
