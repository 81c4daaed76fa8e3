---------------------------- MODULE MCZmodemSession ----------------------------
(* ZmodemSession with two file names, a ceiling of two blocks and two      *)
(* tolerated errors, against a sender that may present anything.           *)
EXTENDS ZmodemSession
===============================================================================
