---------------------------- MODULE MCMatchStart ----------------------------
(* Players and gametypes for model-checking MatchStart. *)
EXTENDS MatchStart, TLC

CONSTANTS p1, p2

MCGametypes ==
  {[teamBased |-> t, matchAbortDisabled |-> a, timed |-> TRUE] : t, a \in BOOLEAN}

MCSymmetry == Permutations(Players)
=============================================================================
