---------------------------- MODULE MCChromium ----------------------------
(* Model-checking instance of Chromium. *)
EXTENDS Chromium
=============================================================================
