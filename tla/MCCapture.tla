----------------------------- MODULE MCCapture -----------------------------
(***************************************************************************)
(* Capture with any client, for TLC: up to three sessions, so that one can *)
(* fail half way, the next one can run and the last one find what those    *)
(* left behind.                                                            *)
(***************************************************************************)
EXTENDS Capture
=============================================================================
