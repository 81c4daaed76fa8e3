----------------------------- MODULE MCRipSession -----------------------------
(* RipSession for TLC; the constants are given in the configurations. *)
EXTENDS RipSession
===============================================================================
