------------------------------ MODULE MCSurface -----------------------------
(* Small instances of Surface for TLC.                                     *)
EXTENDS Surface, TLC

CONSTANTS v1, v2, c1, c2, key, uid

OneVersion  == {v1}
TwoVersions == {v1, v2}
TwoClusters == {c1, c2}

(* A diagnostic that obtains the same signal every time, and one that may  *)
(* obtain nothing but the origin.                                          *)
Always    == {{uid}}
Sometimes == {{}, {uid}}

OneSignal  == {uid}
LegacyOnly == {FALSE}
EitherForm == BOOLEAN

NameSymmetry == Permutations(TwoVersions) \cup Permutations(TwoClusters)
=============================================================================
