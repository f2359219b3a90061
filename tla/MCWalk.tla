-------------------------------- MODULE MCWalk -------------------------------
(* Small instances of Walk for TLC: a subject and three objects around it. *)
EXTENDS Walk, TLC

CONSTANTS s, a, b, c, plain, other, one, two

MCObjects == {s, a, b, c}

ByUid(o)  == [object |-> o, uid |-> TRUE, spelling |-> plain, asserted |-> TRUE]
ByName(o) == [object |-> o, uid |-> FALSE, spelling |-> plain, asserted |-> TRUE]
Respelled(o) == [object |-> o, uid |-> TRUE, spelling |-> other, asserted |-> TRUE]

(* What each may state: owners by uid, the rest by name, and cycles back.  *)
MCStated ==
  {[o \in MCObjects |-> CASE o = s -> ss \cup {ByUid(a)} [] o = a -> sa
                           [] o = b -> sb \cup {ByName(s)} [] OTHER -> sc] :
     ss \in SUBSET {ByName(b)},
     sa \in SUBSET {ByUid(s), ByName(b), ByName(c)},
     sb \in SUBSET {ByUid(a), ByUid(c)},
     sc \in SUBSET {ByName(a)}}

(* An object that names another twice over, in two spellings.              *)
RespelledStated ==
  {[o \in MCObjects |-> IF o = s THEN {ByUid(a)}
                        ELSE IF o = a THEN {ByName(c), Respelled(c)} ELSE {}]}

OneSpelling  == {plain}
TwoSpellings == {plain, other}

Bounded(hops, reads) == [hops |-> hops, reads |-> reads, pages |-> FALSE]
Paged(hops, reads)   == [hops |-> hops, reads |-> reads, pages |-> TRUE]
MCBounds == {Bounded(1, 3), Bounded(2, 3), Bounded(3, 1), Bounded(3, 3), Paged(2, 3)}

(* No bound on pages, so that only a listing that came back short is one.  *)
Unpaged == {Bounded(2, 3)}

(* The subject has children, and the first object selects.                 *)
MCRule     == [o \in MCObjects |-> CASE o = s -> "owned" [] o = a -> "selected" [] OTHER -> "none"]
Apart      == [o \in MCObjects |-> IF o = s THEN one ELSE two]
Shared     == [o \in MCObjects |-> one]
MCLabelled == one :> {b, c} @@ two :> {c}
MCChildren == [o \in MCObjects |-> IF o = s THEN {b} ELSE {}]
=============================================================================
