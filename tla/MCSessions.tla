----------------------------- MODULE MCSessions -----------------------------
(* A home for TLC: a plug reached over its own socket or through a gateway. *)
EXTENDS Sessions, TLC

CONSTANTS gateway, plug, lan, socket, member

Listed    == <<gateway, plug>>
WhoseWay  == (lan :> gateway) @@ (socket :> plug) @@ (member :> plug)
ThroughIt == (lan :> NoWay) @@ (socket :> NoWay) @@ (member :> gateway)
InOrder   == (lan :> 1) @@ (socket :> 1) @@ (member :> 2)

ASSUME SteadyHome == BridgesNeverAstray /\ LastingBridges /\ SteadyWays
=============================================================================
