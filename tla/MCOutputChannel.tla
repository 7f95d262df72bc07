-------------------------- MODULE MCOutputChannel --------------------------
(***************************************************************************)
(* Instances of OutputChannel for TLC.                                     *)
(***************************************************************************)
EXTENDS OutputChannel

\* Flow 1 is the video flow; every audio slot reads flow 2.
SharedAudio == [s \in 0..NAudio |-> IF s = 0 THEN 1 ELSE 2]
=============================================================================
