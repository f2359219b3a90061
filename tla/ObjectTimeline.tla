--------------------------- MODULE ObjectTimeline ---------------------------
(***************************************************************************)
(* The timeline of an object (History), of the stream of its collection    *)
(* (WatchedCollection): `include_watch` over whatever a feed has made of   *)
(* the stream.                                                             *)
(***************************************************************************)
EXTENDS WatchedCollection

H == INSTANCE History

(* The lifetimes an object of that key has had.                            *)
Lifetimes(k) == {history[v][k].uid : v \in {v \in 1..Now : history[v][k] # None}}

TimelineOf(k, uid) ==
  H!IncludeWatch(H!Opened(0), [key |-> k, uid |-> uid], stream, 0)

(* The versions within a period at which that lifetime changed.            *)
ChangesOfLifetime(segment, k, uid) ==
  {v \in ChangesWithin(segment) :
     Changed(v, k) /\ uid = (IF history[v][k] = None THEN history[v - 1][k].uid
                             ELSE history[v][k].uid)}

-----------------------------------------------------------------------------
(* §17.4, §18.2, §63.11: what a timeline says was witnessed in a period is *)
(* what happened to that lifetime of the object in it, and not to another  *)
(* of its name, in order and once; whatever is missing from it, the        *)
(* timeline reports a gap for; and a timeline with a gap, or of two        *)
(* periods, is not called continuous.                                      *)
TimelineIsTheLifetime ==
  \A k \in Keys : \A uid \in Lifetimes(k) :
    LET t == TimelineOf(k, uid) IN
    /\ Len(t.periods) = Len(stream.segments)
    /\ Len(t.periods) > 1 => ~ H!IsContinuous(t)
    /\ \A i \in 1..Len(t.periods) :
         LET segment   == stream.segments[i]
             witnessed == H!WitnessedIn(t, t.periods[i])
             told      == {witnessed[j].detail.position : j \in 1..Len(witnessed)}
             happened  == ChangesOfLifetime(segment, k, uid)
         IN  /\ told \subseteq happened
             /\ \A j \in 1..Len(witnessed) - 1 :
                  witnessed[j].detail.position < witnessed[j + 1].detail.position
             /\ \A v \in happened \ told : \E g \in 1..Len(t.gaps) :
                  /\ t.gaps[g].reason = "trimmed"
                  /\ t.gaps[g].after = segment.started_at
                  /\ v < t.gaps[g].resumed
=============================================================================
