---------------------------- MODULE MCRouteState ----------------------------
(***************************************************************************)
(* Instance of RouteState for TLC.  Inodes, legs and routes are            *)
(* interchangeable: no action and no property names one of them.           *)
(***************************************************************************)
EXTENDS RouteState, TLC

Symmetry == Permutations(Inodes) \cup Permutations(Legs) \cup Permutations(Routes)
=============================================================================
