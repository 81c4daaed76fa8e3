----------------------------- MODULE MCZmodemRing -----------------------------
(* ZmodemRing on a ring of three bytes and six delivered bytes: enough to *)
(* wrap, to fill, to drop a remainder and to carry on behind the gap.      *)
EXTENDS ZmodemRing
===============================================================================
