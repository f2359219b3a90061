------------------------------- MODULE Screen -------------------------------
(***************************************************************************)
(* A live view of a watched collection (live.rs) and the emitter that      *)
(* refreshes it when a record of the stream is delivered (changes.rs): the *)
(* bounded rows, each with the moment it was last seen to change, what the *)
(* bound leaves out, and whether a reader may take them for current.       *)
(*                                                                         *)
(* A stream is what the view reads of one: its state, its gaps, and its    *)
(* objects as a sequence in the order of their keys.  Times are instants   *)
(* of the caller's clock; a view never reads it on its own.                *)
(***************************************************************************)
EXTENDS Integers, Sequences, SequencesExt, FiniteSets

CONSTANTS
  Capacity,      \* how many rows a view holds (VIEW_CAPACITY)
  StaleAfter,    \* the staleness window (STALE_AFTER)
  RowsEvery      \* how seldom the rows are rebuilt (VIEW_ROWS_EVERY)

Never == -1    \* no instant, and no count

NewView ==
  [rows |-> << >>, withheld |-> << >>, sync |-> "syncing", gaps |-> {},
   last_live_at |-> Never, rebuilt |-> 0]

KeyOf(object) == object.key

(* The row of that key, as a sequence of none or one.                      *)
HeldRow(rows, key) == SelectSeq(rows, LAMBDA r : KeyOf(r.object) = key)

UnchangedOfTheLifetime(row, object) == row.object.uid = object.uid

Unchanged(row, object) ==
  row.object.uid = object.uid /\ row.object.version = object.version

Project(held, object, now) ==
  [object |-> object, observed_at |-> now,
   change |-> IF held # << >> /\ held[1].object.uid = object.uid THEN "modified" ELSE "added"]

RowOf(held, object, now) ==
  IF held # << >> /\ Unchanged(held[1], object) THEN held[1] ELSE Project(held, object, now)

NamesTheSameObject(identity, object) ==
  identity.uid = object.uid /\ identity.key = object.key

IdentityOf(object) == [uid |-> object.uid, key |-> object.key]

(* The objects there is room for, in the order of their keys.              *)
Fitting(objects) ==
  SubSeq(objects, 1, IF Len(objects) < Capacity THEN Len(objects) ELSE Capacity)

Rebuild(view, stream, now) ==
  LET fits     == Fitting(stream.objects)
      overflow == SubSeq(stream.objects, Len(fits) + 1, Len(stream.objects))
      held(i)  == HeldRow(view.rows, KeyOf(fits[i]))
      same     == /\ Len(view.withheld) = Len(overflow)
                  /\ \A i \in 1..Len(overflow) :
                       NamesTheSameObject(view.withheld[i], overflow[i])
  IN  [view EXCEPT
        !.rows     = [i \in 1..Len(fits) |-> RowOf(held(i), fits[i], now)],
        !.rebuilt  = Cardinality({i \in 1..Len(fits) :
                       held(i) = << >> \/ ~ Unchanged(held(i)[1], fits[i])}),
        !.withheld = IF same THEN @ ELSE [i \in 1..Len(overflow) |-> IdentityOf(overflow[i])]]

TakeState(view, stream, now) ==
  [view EXCEPT !.sync = stream.state, !.gaps = stream.gaps,
               !.last_live_at = IF stream.state = "live" THEN now ELSE @]

Refreshed(view, stream, now) == Rebuild(TakeState(view, stream, now), stream, now)
Observed(view, stream, now) == TakeState(view, stream, now)

IsStale(view, now) == view.last_live_at # Never /\ now - view.last_live_at > StaleAfter

State(view, now) ==
  IF view.sync = "live" /\ IsStale(view, now) THEN "stale" ELSE view.sync

Notice(view, now) ==
  [state |-> State(view, now), stale |-> IsStale(view, now),
   since_live |-> IF view.last_live_at = Never THEN Never ELSE now - view.last_live_at,
   gaps |-> view.gaps, withheld |-> Len(view.withheld), rows |-> Len(view.rows)]

IsCurrent(view, now) ==
  State(view, now) = "live" /\ view.gaps = {} /\ view.withheld = << >>

(* What a reader is given: the rows, and the notice unless they are        *)
(* current.                                                                *)
Shown(view, now) ==
  [rows   |-> view.rows,
   notice |-> IF IsCurrent(view, now) THEN {} ELSE {Notice(view, now)}]

-----------------------------------------------------------------------------
(* The emitter of one invocation.                                          *)

NewEmitter == [view |-> {}, rows_refreshed_at |-> Never]

ViewOf(emitter) == IF emitter.view = {} THEN NewView ELSE CHOOSE v \in emitter.view : TRUE

IsDue(emitter, now) ==
  emitter.rows_refreshed_at = Never \/ now - emitter.rows_refreshed_at >= RowsEvery

(* At every record it delivers: the state always, the rows when due.       *)
EmitterRefresh(emitter, stream, now) ==
  IF IsDue(emitter, now)
  THEN [view |-> {Refreshed(ViewOf(emitter), stream, now)}, rows_refreshed_at |-> now]
  ELSE [emitter EXCEPT !.view = {Observed(ViewOf(emitter), stream, now)}]

(* Between records, when nothing arrived to carry a state on.              *)
ObservedState(emitter, now) ==
  IF emitter.view = {} THEN "syncing" ELSE State(ViewOf(emitter), now)

(* Before each read of a live watch: what was announced, and what is now.  *)
Announcement(emitter, announced, now) ==
  IF ObservedState(emitter, now) # announced
  THEN [announced |-> ObservedState(emitter, now),
        notice    |-> {[Notice(ViewOf(emitter), now) EXCEPT
                          !.state = ObservedState(emitter, now)]}]
  ELSE [announced |-> announced, notice |-> {}]

-----------------------------------------------------------------------------
(* The tallies of a neighbourhood that is watched.                         *)

NoTally == [previous |-> Never, current |-> Never]

NewNeighbourhood(labels) ==
  [tallies |-> [l \in labels |-> NoTally], crossed_gap |-> FALSE]

Observe(n, label, value) ==
  [n EXCEPT !.tallies[label] = [previous |-> @.current, current |-> value]]

RecordGap(n) ==
  [tallies |-> [l \in DOMAIN n.tallies |-> NoTally], crossed_gap |-> TRUE]

(* An arrow from the count before to the count now, or the count alone.    *)
DescribeTally(t) ==
  IF t.previous # Never /\ t.current # Never /\ t.previous # t.current
  THEN << t.previous, t.current >>
  ELSE IF t.current # Never THEN << t.current >> ELSE << >>
=============================================================================
