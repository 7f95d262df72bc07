------------------------- MODULE MCPlaybackSession -------------------------
(***************************************************************************)
(* One frame more than the preroll needs, so that a frame too many can be  *)
(* seen; a second session after the first.                                 *)
(***************************************************************************)
EXTENDS PlaybackSession
=============================================================================
