---------------------------- MODULE MCSuiteUpdate ----------------------------
(* SuiteUpdate for TLC: three releases in the order of publication, whose     *)
(* versions differ in a pre-release number and in having a pre-release.       *)
EXTENDS SuiteUpdate

ReleasesVal == <<[n |-> 5, pre |-> <<Word(1), Number(2)>>],
                 [n |-> 5, pre |-> <<Word(1), Number(10)>>],
                 [n |-> 5, pre |-> <<>>]>>
===============================================================================
