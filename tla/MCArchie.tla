------------------------------- MODULE MCArchie -------------------------------
(* Archie for TLC: two searches, with replies of two datagrams. *)
EXTENDS Archie

SizesVal == <<2, 2>>
===============================================================================
