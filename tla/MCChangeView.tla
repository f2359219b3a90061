---------------------------- MODULE MCChangeView ----------------------------
(* Small instances of ChangeView for TLC.                                  *)
EXTENDS ChangeView, TLC

CONSTANTS k1, k2, r1, r2

MCKeys  == {k1, k2}
OneKey  == {k1}
NoKeys  == {}
OneReader  == {r1}
TwoReaders == {r1, r2}

KeySymmetry == Permutations(MCKeys)
=============================================================================
