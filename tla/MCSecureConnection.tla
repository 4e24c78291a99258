------------------------- MODULE MCSecureConnection -------------------------
(* The secure connection needs no model values; this module exists so that *)
(* its configuration instantiates it like the others.                      *)
EXTENDS SecureConnection
=============================================================================
