--------------------------- MODULE MCControlPlane ---------------------------
(***************************************************************************)
(* Instances of ControlPlane for TLC: an input and two outputs on a card   *)
(* with two sub-devices.                                                   *)
(***************************************************************************)
EXTENDS ControlPlane, TLC

InAndOuts == 1 :> "input" @@ 2 :> "output" @@ 3 :> "output"

\* Channel 2's flow is set by the environment.
EnvOfTwo == 2 :> "f"

File(sub, flow, active) == [sub |-> sub, flow |-> flow, active |-> active]

\* The input writes f; output 2 reads it; output 3 waits for a route.
ThreeChannels ==
  [chan |-> 1 :> File(0, "f", TRUE) @@ 2 :> File(0, "f", TRUE) @@ 3 :> File(1, "nil", TRUE),
   glob |-> "g0"]

\* An edit to another sub-device, two of flow and activity, and one off the
\* card.  Some of them collide with another channel.
SomeEdits ==
  {File(1, "f", TRUE), File(0, "g", FALSE), File(0, "f", FALSE), File(2, "nil", FALSE)}
=============================================================================
