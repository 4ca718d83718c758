----------------------------- MODULE MCMonitor -----------------------------
(***************************************************************************)
(* The program with two channels, for TLC.                                 *)
(***************************************************************************)
EXTENDS Monitor
=============================================================================
