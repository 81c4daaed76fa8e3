---------------------------- MODULE MCTelnetParser ----------------------------
(* TelnetParser for TLC; the constants are given in the configurations. *)
EXTENDS TelnetParser
===============================================================================
