------------------------ MODULE MCWatchedCollection -------------------------
(* Small instances of WatchedCollection for TLC.                           *)
EXTENDS ObjectTimeline, TLC

CONSTANTS k1, k2

MCKeys == {k1, k2}
OneKey == {k1}

KeySymmetry == Permutations(MCKeys)
=============================================================================
