\* Two players, enough for a match of either kind; a match, its fetches and the next one.
CONSTANTS
  p1 = p1
  p2 = p2
  Players = {p1, p2}
  Gametypes <- MCGametypes
  Refusable = {"countdown", "playtime"}
  MaxStarted = 3
SPECIFICATION MatchSpec
SYMMETRY MCSymmetry
INVARIANTS MatchTypeOK Agreed IdsKept
PROPERTIES FreshIds
