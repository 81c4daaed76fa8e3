----------------------------- MODULE MCZmodemLink -----------------------------
(* One file of a few blocks over a wire that holds four items. *)
EXTENDS ZmodemLink
===============================================================================
