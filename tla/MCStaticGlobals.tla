-------------------------- MODULE MCStaticGlobals --------------------------
(* All files of three functions, main perhaps one of them, and three       *)
(* variables: chains of two functions from the target, in every order.     *)
EXTENDS StaticGlobals
=============================================================================
