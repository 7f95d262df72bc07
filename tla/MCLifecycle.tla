---------------------------- MODULE MCLifecycle ----------------------------
(***************************************************************************)
(* Instance of Lifecycle for TLC.                                          *)
(***************************************************************************)
EXTENDS Lifecycle

\* Everything on; each setting that changes the way out off in turn; a card
\* with two profile managers.
Full == [id |-> "a", chans |-> TRUE, nmos |-> TRUE, registry |-> TRUE, profile |-> TRUE,
         cleanup |-> TRUE, root |-> FALSE, managers |-> 1]
SomeSettings ==
  {Full, [Full EXCEPT !.id = None, !.nmos = FALSE],
   [Full EXCEPT !.chans = FALSE, !.registry = FALSE],
   [Full EXCEPT !.root = TRUE, !.profile = FALSE],
   [Full EXCEPT !.cleanup = FALSE, !.managers = 2]}
=============================================================================
