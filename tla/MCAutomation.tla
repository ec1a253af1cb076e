---------------------------- MODULE MCAutomation ----------------------------
(* Automation for TLC; all constants are given by the configurations. *)
EXTENDS Automation
=============================================================================
