--------------------------- MODULE MCRteController ---------------------------
(* Small instances of RteController for TLC. *)
EXTENDS RteController

MCError == -22
=============================================================================
