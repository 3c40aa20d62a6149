--------------------------- MODULE MCTestHarness ---------------------------
(* A test of three cases and the runs of it in three iterations: the cases *)
(* crash, time out and end late beside each other.                         *)
EXTENDS TestHarness
=============================================================================
