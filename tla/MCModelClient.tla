--------------------------- MODULE MCModelClient ---------------------------
(* ModelClient with the defaults of GetModel.__init__.                     *)
EXTENDS ModelClient
=============================================================================
