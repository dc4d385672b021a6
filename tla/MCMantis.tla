------------------------------ MODULE MCMantis ------------------------------
(* Instances of Mantis for TLC. *)
EXTENDS Mantis

TwoJobs == {1, 2}
OneJob == {1}
==============================================================================
