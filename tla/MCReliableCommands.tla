------------------------- MODULE MCReliableCommands -------------------------
(* Bounds for model-checking ReliableCommands. *)
EXTENDS ReliableCommands

MCOneSize == {1}

MCTwoSizes == {1, 2}
=============================================================================
