--------------------------- MODULE MCUpdateFlash ---------------------------
(* The flash layer needs no model values; its versions are numbers.        *)
EXTENDS UpdateFlash
=============================================================================
