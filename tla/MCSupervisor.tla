------------------------------ MODULE MCSupervisor ------------------------------
(* Supervisor for TLC: the configuration gives the bounds.                   *)
EXTENDS Supervisor
=============================================================================
