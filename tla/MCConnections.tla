--------------------------- MODULE MCConnections ---------------------------
(* Machines for model-checking Connections. *)
EXTENDS Connections
CONSTANTS m1, m2, h1, h2

MCPlacements == {m1 :> h1 @@ m2 :> h1, m1 :> h1 @@ m2 :> h2}
=============================================================================
