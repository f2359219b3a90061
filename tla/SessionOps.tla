----------------------------- MODULE SessionOps -----------------------------
(***************************************************************************)
(* What a session keeps of one collection it watches (session.rs): the     *)
(* stream, and the relationship index over the stream's cache (index.rs).  *)
(* A registry slot holds such an entry or `None`, and every operator here  *)
(* is one method of `Session`, entered with the session's lock held.       *)
(***************************************************************************)
EXTENDS WatchOps, FiniteSets

CONSTANT IndexCapacity      \* INDEX_CAPACITY

ASSUME IndexAssumption == IndexCapacity \in Nat

(* What the index has posted of each object, and whether it gave up.       *)
Index == [posted : Cache, over_capacity : BOOLEAN]

Watched == [stream : WatchStream, index : Index]

(* Nor is `None` an entry.                                                 *)
ASSUME EntryAssumption == None \notin Watched

Posted(cache) == {k \in Keys : cache[k] # None}

EmptyIndex   == [posted |-> EmptyCache, over_capacity |-> FALSE]
OverCapacity == [posted |-> EmptyCache, over_capacity |-> TRUE]

(* A partial index would be a complete-looking incomplete graph, so past   *)
(* the bound everything is forgotten until the next rebuild.               *)
Rebuilt(objects) ==
  IF Cardinality(Posted(objects)) > IndexCapacity
  THEN OverCapacity
  ELSE [posted |-> objects, over_capacity |-> FALSE]

Retracted(index, k) == [index EXCEPT !.posted[k] = None]

Inserted(index, k, object) ==
  IF index.over_capacity
  THEN index
  ELSE IF Cardinality(Posted(index.posted) \ {k}) >= IndexCapacity
       THEN OverCapacity
       ELSE [index EXCEPT !.posted[k] = object]

-----------------------------------------------------------------------------
NewWatched == [stream |-> NewStream, index |-> EmptyIndex]

(* A use of a collection nobody watches opens an entry for it.             *)
EntryFor(slot) == IF slot = None THEN NewWatched ELSE slot

(* `synchronise`, of a listing that is complete.                           *)
Synchronised(slot, objects, version) ==
  [stream |-> Listed(EntryFor(slot).stream, objects, version),
   index  |-> Rebuilt(objects)]

(* A mutated form of the next: the index is not rebuilt from a streamed    *)
(* list.                                                                   *)
ObserveEventUnindexed(slot, e) ==
  LET before == EntryFor(slot)
      stream == Observe(before.stream, e)
  IN  [stream |-> stream,
       index  |-> IF Reception(before.stream, e) # "applied"
                  THEN before.index
                  ELSE IF Find(stream, e.key) = None
                       THEN Retracted(before.index, e.key)
                       ELSE Inserted(before.index, e.key, Find(stream, e.key))]

(* `observe_event`: the one door to the stream, and with it to the index.  *)
ReceptionOf(slot, e) == Reception(EntryFor(slot).stream, e)

ObserveEvent(slot, e) ==
  LET before == EntryFor(slot)
      stream == Observe(before.stream, e)
  IN  [stream |-> stream,
       index  |-> CASE ReceptionOf(slot, e) = "synchronised" -> Rebuilt(stream.objects)
                    [] ReceptionOf(slot, e) = "applied" ->
                         IF Find(stream, e.key) = None
                         THEN Retracted(before.index, e.key)
                         ELSE Inserted(before.index, e.key, Find(stream, e.key))
                    [] OTHER -> before.index]

OnStream(slot, stream) == [EntryFor(slot) EXCEPT !.stream = stream]

(* `mutated`: a live stream quarantines what the session wrote, and a      *)
(* stream that will not receive the event is dropped with its cache.       *)
Mutated(slot, k) ==
  IF slot = None \/ ~ AbsenceIsConclusive(slot.stream)
  THEN None
  ELSE [stream |-> Written(slot.stream, k), index |-> Retracted(slot.index, k)]

(* A mutated form of the next: no cache outlives its view.                 *)
ViewReleased(slot) == None

(* `close_view`: the entry stays while its cache may still answer.         *)
ViewClosed(slot) ==
  IF slot # None /\ AbsenceIsConclusive(slot.stream) THEN slot ELSE None

-----------------------------------------------------------------------------
(* The two reads that answer from a cache.                                 *)

(* `lookup` of one name.                                                   *)
Lookup(slot, k) ==
  IF slot = None THEN "not_watched"
  ELSE IF ~ AbsenceIsConclusive(slot.stream) THEN "not_synced"
  ELSE IF IsPendingWrite(slot.stream, k) THEN "not_watched"
  ELSE IF Find(slot.stream, k) = None THEN "confirmed_absent"
  ELSE "cached"

(* `indexed`: whether the index may answer for the whole collection.       *)
Usable(slot) ==
  /\ slot # None
  /\ ~ slot.index.over_capacity
  /\ AbsenceIsConclusive(slot.stream)
  /\ slot.stream.pending_writes = {}
=============================================================================
