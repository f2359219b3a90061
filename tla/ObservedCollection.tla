------------------------- MODULE ObservedCollection -------------------------
(***************************************************************************)
(* What a watched collection promises to whoever reads it, with nothing of *)
(* how: at any moment the provider either claims nothing (§20.3, absence   *)
(* of observation), or it knows the whole collection as it was at one      *)
(* version.  What is known moves forward only, past one change at a time   *)
(* (an observed history) or to a whole later snapshot (a re-acquisition);  *)
(* it never mixes two versions and never goes back.                        *)
(***************************************************************************)
EXTENDS ApiServer

VARIABLE view   \* whether anything is known, at which version, and what

Unknown == [known |-> FALSE, at |-> 0, objects |-> EmptyCache]

Snapshot(v) == [known |-> TRUE, at |-> v, objects |-> history[v]]

Init == ServerInit /\ view = Unknown

(* The whole collection is read, at a version no older than what is known. *)
Acquire ==
  /\ \E v \in 1..Now :
       /\ view.known => view.at <= v
       /\ view' = Snapshot(v)
  /\ UNCHANGED server

(* Knowledge moves past at most one change.                                *)
Advance ==
  /\ view.known
  /\ \E v \in (view.at + 1)..Now :
       /\ QuietBetween(view.at, v - 1)
       /\ view' = Snapshot(v)
  /\ UNCHANGED server

(* Continuity broke: nothing is known until the next acquisition.          *)
Lose ==
  /\ view.known
  /\ view' = Unknown
  /\ UNCHANGED server

Next ==
  \/ ServerNext /\ UNCHANGED view
  \/ Acquire
  \/ Advance
  \/ Lose

Spec == Init /\ [][Next]_<< server, view >>
=============================================================================
