----------------------------- MODULE RouteStore -----------------------------
(***************************************************************************)
(* What the route state (nmos/route_state.hpp) promises the NMOS node: the *)
(* saved activations are one map that is replaced as a whole.  A process   *)
(* that dies loses only its memory; a power loss takes the map back to a   *)
(* value it had, never to a mixture of two values and never to nothing.    *)
(* Files, temporary files and flushing do not appear here: RouteState has  *)
(* them, and implements this specification.                                *)
(***************************************************************************)
CONSTANTS
  Legs,         \* the sender and receiver ids
  Routes,       \* the saved activations a leg may have
  NoRoute       \* a leg that no activation was saved for

VARIABLES
  entries,      \* the map in memory (RouteState::_entries)
  file,         \* the map a load would return now
  durable       \* the map a load would return after a power loss

storeVars == <<entries, file, durable>>

Maps == [Legs -> Routes \cup {NoRoute}]
Empty == [l \in Legs |-> NoRoute]

StoreInit == entries = Empty /\ file \in Maps /\ durable = file

\* The node starts: memory is what the file says.
Loads == entries' = file /\ UNCHANGED <<file, durable>>

\* An activation is accepted into memory; its save has begun.
Accepts ==
  \E l \in Legs, r \in Routes :
    entries' = [entries EXCEPT ![l] = r] /\ UNCHANGED <<file, durable>>

\* The file is replaced by the whole of memory, at once.
Publishes == file' = entries /\ UNCHANGED <<entries, durable>>

\* The last published map becomes the one that survives a power loss.
Settles == durable' = file /\ UNCHANGED <<entries, file>>

\* The process dies; the machine stays up.
Dies == entries' = Empty /\ UNCHANGED <<file, durable>>

\* The machine loses power.
LosesPower == entries' = Empty /\ file' = durable /\ UNCHANGED durable

StoreNext == Loads \/ Accepts \/ Publishes \/ Settles \/ Dies \/ LosesPower

StoreSpec == StoreInit /\ [][StoreNext]_storeVars
=============================================================================
