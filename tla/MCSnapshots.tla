---------------------------- MODULE MCSnapshots ----------------------------
EXTENDS Snapshots
CONSTANTS a, b

\* A player that moves, and an item that comes and goes with it.
MCWorlds == {<<a, Gone>>, <<b, a>>}
MCOneWorld == {<<a, Gone>>}
=============================================================================
