--------------------------- MODULE MCInputChannel ---------------------------
(***************************************************************************)
(* Instances of InputChannel for TLC.                                      *)
(***************************************************************************)
EXTENDS InputChannel

\* Two modes: the one the channel starts with, and another.
TwoModes == {"HD1080p50", "HD1080i50"}

\* _cfg.isAutoMode() in each life of the channel.
AutoThenFixed == <<TRUE, FALSE>>
=============================================================================
