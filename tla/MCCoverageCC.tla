---------------------------- MODULE MCCoverageCC ----------------------------
(* Three calls on one work directory, local and remote in any order.       *)
EXTENDS CoverageCC
=============================================================================
