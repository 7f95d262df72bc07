--------------------------- MODULE MCReadPosition ---------------------------
(***************************************************************************)
(* A preroll of two grains from a flow with four readable ones, started    *)
(* early enough that the first start is cut off at grain zero.             *)
(***************************************************************************)
EXTENDS ReadPosition
=============================================================================
