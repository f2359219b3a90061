--------------------------- MODULE ChangeViewProofs --------------------------
(***************************************************************************)
(* Proofs about ChangeView: about the index for any number of invocations, *)
(* about the cache and the records for an invocation that is alone with    *)
(* the session, which is how far the code keeps them true.                 *)
(***************************************************************************)
EXTENDS ChangeView, ApiServerProofs

(* The stream the session has, or would open on the next use.              *)
Stream == EntryFor(slot).stream

Existed(v) == {k \in Keys : history[v][k] # None}

(* What any number of invocations keep true, whatever they do to the       *)
(* stream they share: every version, and every object a body still owes,   *)
(* is one there was.                                                       *)
ObjectsArePast ==
  \A v \in 1..Now, k \in Keys : history[v][k] # None => history[v][k].rv \in 1..v

BodyIsReal(body) ==
  /\ body.at \in 1..Now
  /\ body.todo \subseteq Existed(body.at)
  /\ body.phase = "changes" => body.todo = {}

VersionsAreReal(x) ==
  /\ x.listing # None => x.listing \in 1..Now
  /\ x.from # None => x.from \in 1..Now
  /\ x.body.phase # "closed" => BodyIsReal(x.body)
  /\ x.pc = "synchronise" => x.listing # None
  /\ x.pc = "acquisition" /\ x.body.phase = "closed" => x.listing # None

(* The index of an entry posts what its cache holds, but for what is       *)
(* quarantined, unless it gave up.                                         *)
Posts(entry) ==
  ~ entry.index.over_capacity =>
    \A k \in Keys \ entry.stream.pending_writes :
      entry.index.posted[k] = entry.stream.objects[k]

EntryIsSound(entry) ==
  /\ entry \in Watched
  /\ entry.stream.checkpoint # None => entry.stream.checkpoint \in 1..Now
  /\ Posts(entry)

XInv ==
  /\ TypeOK
  /\ OneChangePerVersion
  /\ ObjectsArePast
  /\ EntryIsSound(EntryFor(slot))
  /\ \A r \in Readers : VersionsAreReal(reader[r])

-----------------------------------------------------------------------------
(* The index (index.rs), one step at a time.                               *)

(* An entry that is there is the entry itself.                             *)
LEMMA EntryType ==
  ASSUME NEW w \in Watched
  PROVE  /\ w # None /\ EntryFor(w) = w
         /\ w.stream \in WatchStream /\ w.index \in Index
         /\ w.stream.objects \in Cache /\ w.index.posted \in Cache
BY EntryAssumption DEF EntryFor, Watched, WatchStream, Index

(* The methods of the index keep its type.                                 *)
LEMMA IndexTypes ==
  ASSUME NEW objects \in Cache, NEW index \in Index, NEW k \in Keys, NEW o \in Object
  PROVE  /\ Rebuilt(objects) \in Index
         /\ Retracted(index, k) \in Index
         /\ Inserted(index, k, o) \in Index
<1>1. OverCapacity \in Index
  BY DEF OverCapacity, Index, EmptyCache, Cache
<1>2. Rebuilt(objects) \in Index
  BY <1>1 DEF Rebuilt, Index
<1>3. [index.posted EXCEPT ![k] = None] \in Cache /\ [index.posted EXCEPT ![k] = o] \in Cache
  BY DEF Index, Cache
<1>4. Retracted(index, k) \in Index
  BY <1>3 DEF Retracted, Index
<1>5. Inserted(index, k, o) \in Index
  BY <1>1, <1>3 DEF Inserted, Index
<1> QED BY <1>2, <1>4, <1>5

(* A rebuilt index posts every object it was rebuilt from, or gives up.    *)
LEMMA RebuiltPosts ==
  ASSUME NEW objects, ~ Rebuilt(objects).over_capacity
  PROVE  Rebuilt(objects).posted = objects
BY DEF Rebuilt, OverCapacity

(* A retraction empties one posting and an insertion fills one; every      *)
(* other posting is as it was, unless the index gives up.                  *)
LEMMA OtherPostings ==
  ASSUME NEW index \in Index, NEW k \in Keys, NEW o \in Object
  PROVE  /\ Retracted(index, k).over_capacity = index.over_capacity
         /\ Retracted(index, k).posted = [index.posted EXCEPT ![k] = None]
         /\ ~ Inserted(index, k, o).over_capacity =>
              /\ ~ index.over_capacity
              /\ Inserted(index, k, o).posted = [index.posted EXCEPT ![k] = o]
<1>1. /\ Retracted(index, k).over_capacity = index.over_capacity
      /\ Retracted(index, k).posted = [index.posted EXCEPT ![k] = None]
  BY DEF Retracted, Index
<1>2. ~ Inserted(index, k, o).over_capacity =>
              /\ ~ index.over_capacity
              /\ Inserted(index, k, o).posted = [index.posted EXCEPT ![k] = o]
  BY DEF Inserted, Index, OverCapacity
<1> QED BY <1>1, <1>2

-----------------------------------------------------------------------------
(* The entry: each door to the stream keeps the index true to it.          *)

(* A new entry claims nothing and posts nothing.                           *)
LEMMA NewEntry == EntryIsSound(NewWatched)
<1>1. NewWatched \in Watched
  BY NewStreamType DEF NewWatched, Watched, EmptyIndex, Index, EmptyCache, Cache
<1> QED BY <1>1 DEF EntryIsSound, Posts, NewWatched, NewStream, EmptyIndex

(* A step that leaves the cache and its quarantine alone.                  *)
LEMMA SameCache ==
  ASSUME NEW before, EntryIsSound(before), NEW s \in WatchStream,
         s.objects = before.stream.objects,
         s.pending_writes = before.stream.pending_writes,
         s.checkpoint # None => s.checkpoint \in 1..Now,
         NEW w, w.stream = s, w.index = before.index, w \in Watched
  PROVE  EntryIsSound(w)
BY DEF EntryIsSound, Posts

(* A method that leaves the cache alone keeps an entry sound.              *)
LEMMA OnStreamIsSound ==
  ASSUME NEW w, EntryIsSound(EntryFor(w)), NEW s \in WatchStream,
         s.objects = EntryFor(w).stream.objects,
         s.pending_writes = EntryFor(w).stream.pending_writes,
         s.checkpoint # None => s.checkpoint \in 1..Now
  PROVE  /\ OnStream(w, s) \in Watched /\ OnStream(w, s).stream = s
         /\ EntryIsSound(OnStream(w, s))
<1>1. EntryFor(w) \in Watched
  BY DEF EntryIsSound
<1>2. /\ OnStream(w, s) \in Watched
      /\ OnStream(w, s).stream = s /\ OnStream(w, s).index = EntryFor(w).index
  BY <1>1 DEF OnStream, Watched
<1> QED BY <1>2, SameCache

(* An acquisition: the index is rebuilt from the cache.                    *)
LEMMA AcquiredIsSound ==
  ASSUME NEW s \in WatchStream, NEW objects \in Cache, NEW v \in 1..Now, Now \in Nat
  PROVE  /\ [stream |-> Listed(s, objects, v), index |-> Rebuilt(objects)] \in Watched
         /\ EntryIsSound([stream |-> Listed(s, objects, v), index |-> Rebuilt(objects)])
<1>1. v \in Version
  BY DEF Version
<1>2. Listed(s, objects, v) \in WatchStream
  BY <1>1, ListedType
<1>3. /\ Listed(s, objects, v).objects = objects
      /\ Listed(s, objects, v).checkpoint = v
  BY DEF Listed
<1>4. Rebuilt(objects) \in Index
  BY DEF Rebuilt, OverCapacity, Index, EmptyCache, Cache
<1>5. [stream |-> Listed(s, objects, v), index |-> Rebuilt(objects)] \in Watched
  BY <1>2, <1>4 DEF Watched
<1> QED BY <1>3, <1>5, RebuiltPosts DEF EntryIsSound, Posts

(* What an event makes of an entry, in terms of its stream.                *)
LEMMA EntryObserves ==
  ASSUME NEW w, NEW e
  PROVE  LET s == EntryFor(w).stream
             t == Observe(s, e)
         IN  /\ ReceptionOf(w, e) = Reception(s, e)
             /\ ObserveEvent(w, e).stream = t
             /\ Reception(s, e) \notin {"synchronised", "applied"} =>
                  ObserveEvent(w, e) = [stream |-> t, index |-> EntryFor(w).index]
             /\ Reception(s, e) = "synchronised" =>
                  ObserveEvent(w, e) = [stream |-> t, index |-> Rebuilt(t.objects)]
             /\ Reception(s, e) = "applied" =>
                  ObserveEvent(w, e) =
                    [stream |-> t,
                     index  |-> IF Find(t, e.key) = None
                                THEN Retracted(EntryFor(w).index, e.key)
                                ELSE Inserted(EntryFor(w).index, e.key, Find(t, e.key))]
BY DEF ObserveEvent, ReceptionOf

(* An error leaves the cache and the index of an entry in step.            *)
LEMMA ErrorIsSound ==
  ASSUME NEW w, EntryIsSound(EntryFor(w)),
         NEW failure \in {"interrupted", "expired", "denied"}
  PROVE  EntryIsSound(ObserveEvent(w, Error(failure)))
<1> DEFINE s == EntryFor(w).stream
           e == Error(failure)
           t == Observe(s, e)
<1>1. s \in WatchStream /\ EntryFor(w).index \in Index
  BY DEF EntryIsSound, Watched
<1>2. /\ t \in WatchStream
      /\ t.objects = s.objects /\ t.pending_writes = s.pending_writes
      /\ Reception(s, e) \in {"suspended", "continuity_broken"}
      /\ t.checkpoint \in {s.checkpoint, None}
  <2> HIDE DEF s
  <2>1. CASE failure = "interrupted"
    BY <1>1, <2>1, ErrorEffect
  <2>2. CASE failure # "interrupted"
    BY <1>1, <2>2, ErrorEffect
  <2> QED BY <2>1, <2>2
<1>3. t.checkpoint # None => t.checkpoint \in 1..Now
  BY <1>2 DEF EntryIsSound
<1> HIDE DEF e
<1>4. ObserveEvent(w, e) = [stream |-> t, index |-> EntryFor(w).index]
  BY <1>2, EntryObserves
<1> HIDE DEF t, s
<1>5. /\ ObserveEvent(w, e).stream = t /\ ObserveEvent(w, e).index = EntryFor(w).index
      /\ ObserveEvent(w, e) \in Watched
  BY <1>1, <1>2, <1>4 DEF Watched
<1>6. EntryIsSound(ObserveEvent(w, e))
  BY <1>2, <1>3, <1>5, SameCache DEF s
<1> QED BY <1>6 DEF e

(* So does a bookmark.                                                     *)
LEMMA BookmarkIsSound ==
  ASSUME NEW w, EntryIsSound(EntryFor(w)), Now \in Nat, NEW v \in 1..Now
  PROVE  EntryIsSound(ObserveEvent(w, Bookmark(v)))
<1> DEFINE s == EntryFor(w).stream
           e == Bookmark(v)
           t == Observe(s, e)
<1>1. s \in WatchStream /\ EntryFor(w).index \in Index /\ v \in Version
  BY DEF EntryIsSound, Watched, Version
<1>2. /\ t \in WatchStream
      /\ t.objects = s.objects /\ t.pending_writes = s.pending_writes
      /\ Reception(s, e) \in {"checkpointed", "discarded"}
      /\ t.checkpoint \in {s.checkpoint, v}
  <2> HIDE DEF s
  <2> QED BY <1>1, BookmarkEffect, CheckpointedEffect
<1>3. t.checkpoint # None => t.checkpoint \in 1..Now
  BY <1>2 DEF EntryIsSound
<1> HIDE DEF e
<1>4. ObserveEvent(w, e) = [stream |-> t, index |-> EntryFor(w).index]
  BY <1>2, EntryObserves
<1> HIDE DEF t, s
<1>5. /\ ObserveEvent(w, e).stream = t /\ ObserveEvent(w, e).index = EntryFor(w).index
      /\ ObserveEvent(w, e) \in Watched
  BY <1>1, <1>2, <1>4 DEF Watched
<1>6. EntryIsSound(ObserveEvent(w, e))
  BY <1>2, <1>3, <1>5, SameCache DEF s
<1> QED BY <1>6 DEF e

(* The end of a streaming list posts what it made the cache.               *)
LEMMA EndIsSound ==
  ASSUME NEW w, EntryIsSound(EntryFor(w)), Now \in Nat, NEW v \in 1..Now
  PROVE  EntryIsSound(ObserveEvent(w, InitialEventsEnd(v)))
<1> DEFINE s == EntryFor(w).stream
           e == InitialEventsEnd(v)
           t == Observe(s, e)
<1>1. s \in WatchStream /\ EntryFor(w).index \in Index /\ v \in Version
  BY DEF EntryIsSound, Watched, Version
<1>2. CASE s.staging # None
  <2>1. s.staging \in Cache
    BY <1>1, <1>2 DEF WatchStream
  <2>2. t = Listed(s, s.staging, v) /\ Reception(s, e) = "synchronised"
    <3> HIDE DEF s
    <3> QED BY <1>1, <1>2, EndEffect
  <2>3. t.objects = s.staging
    BY <2>2 DEF Listed
  <2>4. ObserveEvent(w, e) = [stream |-> t, index |-> Rebuilt(t.objects)]
    <3> HIDE DEF e
    <3> QED BY <2>2, EntryObserves
  <2>5. EntryIsSound([stream |-> Listed(s, s.staging, v), index |-> Rebuilt(s.staging)])
    <3> HIDE DEF s
    <3> QED BY <1>1, <2>1, AcquiredIsSound
  <2>6. ObserveEvent(w, e) = [stream |-> Listed(s, s.staging, v), index |-> Rebuilt(s.staging)]
    <3> HIDE DEF e, t
    <3> QED BY <2>2, <2>3, <2>4
  <2> QED BY <2>5, <2>6
<1>3. CASE s.staging = None
  <2>1. t = Checkpointed(s, v) /\ Reception(s, e) \in {"checkpointed", "discarded"}
    <3> HIDE DEF s
    <3> QED BY <1>1, <1>3, EndEffect
  <2>2. /\ t \in WatchStream
        /\ t.objects = s.objects /\ t.pending_writes = s.pending_writes
        /\ t.checkpoint \in {s.checkpoint, v}
    <3> HIDE DEF s
    <3> QED BY <1>1, <2>1, CheckpointedEffect
  <2>3. t.checkpoint # None => t.checkpoint \in 1..Now
    BY <2>2 DEF EntryIsSound
  <2> HIDE DEF e
  <2>4. ObserveEvent(w, e) = [stream |-> t, index |-> EntryFor(w).index]
    BY <2>1, EntryObserves
  <2> HIDE DEF t, s
  <2>5. /\ ObserveEvent(w, e).stream = t /\ ObserveEvent(w, e).index = EntryFor(w).index
        /\ ObserveEvent(w, e) \in Watched
    BY <1>1, <2>2, <2>4 DEF Watched
  <2>6. EntryIsSound(ObserveEvent(w, e))
    BY <2>2, <2>3, <2>5, SameCache DEF s
  <2> QED BY <2>6 DEF e
<1> QED BY <1>2, <1>3

(* A change that is applied moves the cache and the index alike.           *)
LEMMA ChangeIsSound ==
  ASSUME NEW w, EntryIsSound(EntryFor(w)),
         NEW class \in ChangeClass, NEW k \in Keys, NEW o \in Object, o.rv \in 1..Now
  PROVE  EntryIsSound(ObserveEvent(w, Change(class, k, o)))
<1> DEFINE s == EntryFor(w).stream
           index == EntryFor(w).index
           e == Change(class, k, o)
           t == Observe(s, e)
<1>1. s \in WatchStream /\ index \in Index
  BY DEF EntryIsSound, Watched
<1>2. /\ t \in WatchStream
      /\ Reception(s, e) \in {"staged", "discarded", "applied"}
      /\ Reception(s, e) # "applied" =>
           /\ t.objects = s.objects /\ t.pending_writes = s.pending_writes
           /\ t.checkpoint = s.checkpoint
      /\ Reception(s, e) = "applied" =>
           /\ t.checkpoint = o.rv
           /\ t.pending_writes = s.pending_writes \ {k}
           /\ t.objects = [s.objects EXCEPT ![k] = IF class = "deleted" THEN None ELSE o]
  <2> HIDE DEF s
  <2>1. /\ t \in WatchStream
        /\ Reception(s, e) = IF class = "added" /\ s.staging # None THEN "staged"
                             ELSE IF s.state = "live" THEN "applied" ELSE "discarded"
        /\ Reception(s, e) = "staged" =>
             /\ t.state = s.state /\ t.checkpoint = s.checkpoint
             /\ t.objects = s.objects /\ t.pending_writes = s.pending_writes
             /\ t.staging = [s.staging EXCEPT ![k] = o]
        /\ Reception(s, e) = "discarded" => t = s
        /\ Reception(s, e) = "applied" =>
             /\ t.state = s.state /\ t.checkpoint = o.rv
             /\ t.staging = s.staging
             /\ t.pending_writes = s.pending_writes \ {k}
             /\ t.objects = [s.objects EXCEPT ![k] = IF class = "deleted" THEN None ELSE o]
    BY <1>1, ChangeEffect
  <2> HIDE DEF t, e
  <2> QED BY <2>1
<1>3. t.checkpoint # None => t.checkpoint \in 1..Now
  BY <1>2 DEF EntryIsSound
<1>k. e.key = k
  BY DEF Change
<1> HIDE DEF e
<1>4. CASE Reception(s, e) # "applied"
  <2>1. ObserveEvent(w, e) = [stream |-> t, index |-> index]
    BY <1>2, <1>4, EntryObserves
  <2> HIDE DEF t, s, index
  <2>2. /\ ObserveEvent(w, e).stream = t /\ ObserveEvent(w, e).index = index
        /\ ObserveEvent(w, e) \in Watched
    BY <1>1, <1>2, <2>1 DEF Watched
  <2>3. EntryIsSound(ObserveEvent(w, e))
    BY <1>2, <1>3, <1>4, <2>2, SameCache DEF s, index
  <2> QED BY <2>3 DEF e
<1>5. CASE Reception(s, e) = "applied"
  <2> DEFINE x == IF class = "deleted" THEN None ELSE o
             next == IF Find(t, k) = None THEN Retracted(index, k)
                     ELSE Inserted(index, k, Find(t, k))
  <2>1. ObserveEvent(w, e) = [stream |-> t, index |-> next]
    BY <1>5, <1>k, EntryObserves
  <2>2. s.objects \in Cache /\ x \in Object \cup {None} /\ o # None
    BY <1>1, NoneAssumption DEF WatchStream
  <2>3. t.objects = [s.objects EXCEPT ![k] = x] /\ t.pending_writes = s.pending_writes \ {k}
    BY <1>2, <1>5
  <2> HIDE DEF t, s, index
  <2>4. Find(t, k) = x /\ t.objects[k] = x
    BY <2>2, <2>3 DEF Find, IsPendingWrite, Cache
  <2>5. next = IF x = None THEN Retracted(index, k) ELSE Inserted(index, k, x)
    BY <2>4
  <2>6. next \in Index
    BY <1>1, <2>2, <2>5, IndexTypes
  <2>7. ~ next.over_capacity =>
          /\ ~ index.over_capacity
          /\ next.posted = [index.posted EXCEPT ![k] = x]
    <3>1. CASE x = None
      BY <1>1, <2>5, <3>1, OtherPostings
    <3>2. CASE x # None
      <4>1. x \in Object
        BY <2>2, <3>2
      <4> HIDE DEF x, next
      <4> QED BY <1>1, <2>5, <3>2, <4>1, OtherPostings
    <3> QED BY <3>1, <3>2
  <2>8. /\ ObserveEvent(w, e).stream = t /\ ObserveEvent(w, e).index = next
        /\ ObserveEvent(w, e) \in Watched
    <3> HIDE DEF next, x
    <3> QED BY <1>2, <2>1, <2>6 DEF Watched
  <2>9. index.posted \in Cache
    BY <1>1 DEF Index
  <2> HIDE DEF next, x
  <2>10. ASSUME ~ next.over_capacity, NEW j \in Keys \ t.pending_writes
         PROVE  next.posted[j] = t.objects[j]
    <3>1. CASE j = k
      BY <2>2, <2>3, <2>7, <2>9, <2>10, <3>1 DEF Cache
    <3>2. CASE j # k
      <4>1. j \in Keys \ s.pending_writes
        BY <2>3, <3>2
      <4>2. index.posted[j] = s.objects[j]
        BY <2>7, <2>10, <4>1 DEF EntryIsSound, Posts, s, index
      <4> QED BY <2>2, <2>3, <2>7, <2>9, <2>10, <3>2, <4>2 DEF Cache
    <3> QED BY <3>1, <3>2
  <2>11. Posts(ObserveEvent(w, e))
    BY <2>8, <2>10 DEF Posts
  <2>12. EntryIsSound(ObserveEvent(w, e))
    BY <1>3, <2>8, <2>11 DEF EntryIsSound
  <2> QED BY <2>12 DEF e
<1> QED BY <1>4, <1>5

(* A write is quarantined in the cache and taken out of the index, or the  *)
(* entry is dropped; so it is when its view is closed.                     *)
LEMMA MutatedIsSound ==
  ASSUME NEW w \in Watched \cup {None}, EntryIsSound(EntryFor(w)), NEW k \in Keys
  PROVE  Mutated(w, k) \in Watched \cup {None} /\ EntryIsSound(EntryFor(Mutated(w, k)))
<1>1. CASE w = None \/ ~ AbsenceIsConclusive(w.stream)
  BY <1>1, NewEntry DEF Mutated, EntryFor
<1>2. CASE ~ (w = None \/ ~ AbsenceIsConclusive(w.stream))
  <2>1. w \in Watched /\ EntryFor(w) = w
    BY <1>2 DEF EntryFor
  <2>2. w.stream \in WatchStream /\ w.index \in Index
    BY <2>1 DEF Watched
  <2> DEFINE t == Written(w.stream, k)
             index == Retracted(w.index, k)
  <2>3. /\ t \in WatchStream
        /\ t.objects = w.stream.objects /\ t.checkpoint = w.stream.checkpoint
        /\ t.pending_writes = w.stream.pending_writes \cup {k}
    BY <1>2, <2>2 DEF Written, WatchStream
  <2>4. Mutated(w, k) = [stream |-> t, index |-> index]
    BY <1>2 DEF Mutated
  <2>5. /\ index \in Index
        /\ index.over_capacity = w.index.over_capacity
        /\ index.posted = [w.index.posted EXCEPT ![k] = None]
    BY <2>2 DEF Retracted, Index, Cache
  <2> HIDE DEF t, index
  <2>6. /\ Mutated(w, k) \in Watched
        /\ Mutated(w, k).stream = t /\ Mutated(w, k).index = index
    BY <2>3, <2>4, <2>5 DEF Watched
  <2>7. EntryFor(Mutated(w, k)) = Mutated(w, k)
    BY <2>6, EntryType
  <2>8. Posts(Mutated(w, k))
    <3> SUFFICES ASSUME ~ index.over_capacity, NEW j \in Keys \ t.pending_writes
                 PROVE  index.posted[j] = t.objects[j]
      BY <2>6 DEF Posts
    <3>1. j # k /\ j \in Keys \ w.stream.pending_writes
      BY <2>3
    <3>2. w.index.posted[j] = w.stream.objects[j]
      BY <2>1, <2>5, <3>1 DEF EntryIsSound, Posts
    <3>3. w.index.posted \in Cache
      BY <2>2 DEF Index
    <3> QED BY <2>3, <2>5, <3>1, <3>2, <3>3 DEF Cache
  <2> QED BY <2>1, <2>3, <2>6, <2>7, <2>8 DEF EntryIsSound
<1> QED BY <1>1, <1>2

(* A view that closes forgets the cache and the index together.            *)
LEMMA ClosedIsSound ==
  ASSUME NEW w \in Watched \cup {None}, EntryIsSound(EntryFor(w))
  PROVE  ViewClosed(w) \in Watched \cup {None} /\ EntryIsSound(EntryFor(ViewClosed(w)))
BY NewEntry DEF ViewClosed, EntryFor

-----------------------------------------------------------------------------
(* The index, for any number of invocations.                               *)

(* A step of the server appends at most one snapshot.                      *)
LEMMA ServerGrowsByOne ==
  ASSUME ServerTypeOK, ServerNext
  PROVE  Now' \in {Now, Now + 1}
<1>1. history \in Seq(Cache)
  BY DEF ServerTypeOK
<1>2. ASSUME NEW snapshot, history' = Append(history, snapshot)
      PROVE  Now' \in {Now, Now + 1}
  BY <1>1, <1>2 DEF Now
<1>3. \/ history' = history
      \/ history' = Append(history, history[Now])
      \/ \E k \in Keys : \/ history' = Append(history, Put(history[Now], k, Now + 1))
                        \/ history' = Append(history, [history[Now] EXCEPT ![k] = None])
  BY DEF ServerNext, Write, Delete, WriteElsewhere, Compact
<1> QED BY <1>2, <1>3 DEF Now

(* What was in the past of the server stays there.                         *)
LEMMA ServerKeepsPast ==
  ASSUME ServerTypeOK, OneChangePerVersion, ObjectsArePast, ServerNext
  PROVE  /\ ObjectsArePast'
         /\ \A v \in 1..Now : v \in 1..Now' /\ Existed(v)' = Existed(v)
         /\ \A x : VersionsAreReal(x) => VersionsAreReal(x)'
         /\ \A entry : EntryIsSound(entry) => EntryIsSound(entry)'
<1>1. /\ ServerTypeOK' /\ OneChangePerVersion'
      /\ Now' >= Now
      /\ \A v \in 1..Now : history'[v] = history[v]
  BY ServerGrows
<1>2. Now \in Nat /\ Now >= 1 /\ Now' \in {Now, Now + 1}
  BY ServerGrowsByOne DEF ServerTypeOK, Now
<1>3. \A v \in 1..Now : v \in 1..Now' /\ Existed(v)' = Existed(v)
  BY <1>1, <1>2 DEF Existed
<1>4. ASSUME NEW v \in 1..Now', NEW k \in Keys, history'[v][k] # None
      PROVE  history'[v][k].rv \in 1..v
  <2>1. CASE v \in 1..Now
    BY <1>1, <1>4, <2>1 DEF ObjectsArePast
  <2>2. CASE v \notin 1..Now
    <3>1. v = Now + 1 /\ v - 1 = Now /\ v \in 2..Now'
      BY <1>2, <2>2
    <3>2. history'[v - 1] = history[Now]
      BY <1>1, <1>2, <3>1
    <3>3. CASE history'[v][k] = history'[v - 1][k]
      <4>1. history[Now][k].rv \in 1..Now
        BY <1>2, <1>4, <3>2, <3>3 DEF ObjectsArePast
      <4> QED BY <1>2, <3>1, <3>2, <3>3, <4>1
    <3>4. CASE history'[v][k] # history'[v - 1][k]
      <4>1. history'[v][k].rv = v
        BY <1>1, <1>4, <3>1, <3>4 DEF OneChangePerVersion, Changed
      <4> QED BY <1>2, <3>1, <4>1
    <3> QED BY <3>3, <3>4
  <2> QED BY <2>1, <2>2
<1>5. ObjectsArePast'
  BY <1>4 DEF ObjectsArePast
<1>6. \A x : VersionsAreReal(x) => VersionsAreReal(x)'
  BY <1>3 DEF VersionsAreReal, BodyIsReal
<1>7. \A entry : EntryIsSound(entry) => EntryIsSound(entry)'
  BY <1>3 DEF EntryIsSound, Posts
<1> QED BY <1>3, <1>5, <1>6, <1>7

(* The types of what an invocation holds, and of what there is to send.    *)
LEMMA ReaderType ==
  ASSUME XInv, NEW r \in Readers
  PROVE  /\ reader[r] \in Reader /\ VersionsAreReal(reader[r])
         /\ Now \in Nat /\ Now >= 1
         /\ history \in Seq(Cache) /\ \A v \in 1..Now : v \in Version /\ history[v] \in Cache
         /\ NoBody \in Body /\ NothingSeen \in Seen
         /\ slot \in Watched \cup {None} /\ EntryIsSound(EntryFor(slot))
         /\ EntryFor(slot).stream \in WatchStream
         /\ refused \in BOOLEAN /\ breaks \in 0..MaxBreaks
<1>1. /\ Now \in Nat /\ Now >= 1 /\ history \in Seq(Cache)
      /\ \A v \in 1..Now : v \in Version /\ history[v] \in Cache
  BY DEF XInv, TypeOK, ServerTypeOK, Now, Version
<1>2. NoBody \in Body /\ NothingSeen \in Seen
  BY DEF NoBody, Body, NothingSeen, Seen, Version, EmptyCache, Cache
<1>3. EntryFor(slot).stream \in WatchStream
  BY DEF XInv, EntryIsSound, Watched
<1> QED BY <1>1, <1>2, <1>3 DEF XInv, TypeOK

(* A step of one invocation: what it becomes and what it makes of the      *)
(* entry is all there is to show.                                          *)
LEMMA ReaderMoves ==
  ASSUME XInv, NEW r \in Readers, NEW x \in Reader,
         reader' = [reader EXCEPT ![r] = x], VersionsAreReal(x),
         UNCHANGED server,
         slot' \in Watched \cup {None}, EntryIsSound(EntryFor(slot')),
         refused' \in BOOLEAN, breaks' \in 0..MaxBreaks
  PROVE  XInv'
<1>1. /\ Now' = Now /\ ServerTypeOK' /\ OneChangePerVersion' /\ ObjectsArePast'
      /\ \A v : Existed(v)' = Existed(v)
  BY DEF XInv, TypeOK, server, ServerTypeOK, OneChangePerVersion, Changed, ObjectsArePast, Existed, Now
<1>2. reader \in [Readers -> Reader]
  BY DEF XInv, TypeOK
<1>3. reader' \in [Readers -> Reader]
  BY <1>2
<1>4. \A q \in Readers : VersionsAreReal(reader'[q])
  BY <1>2 DEF XInv
<1>5. \A q \in Readers : VersionsAreReal(reader[q])'
  BY <1>1, <1>4 DEF VersionsAreReal, BodyIsReal
<1>6. EntryIsSound(EntryFor(slot))'
  BY <1>1 DEF EntryIsSound, Posts, EntryFor
<1> QED BY <1>1, <1>3, <1>5, <1>6 DEF XInv, TypeOK

(* Steps that leave the session as it is.                                  *)
LEMMA SessionStands ==
  ASSUME XInv, NEW r \in Readers,
         \/ Acquire(r) \/ SyncRefused(r) \/ Acquisition(r) \/ Round(r) \/ Open(r)
         \/ OpenDeclined(r) \/ EndBody(r) \/ Relist(r) \/ Stop(r)
  PROVE  XInv'
<1> DEFINE a == reader[r]
<1>1. /\ a \in Reader /\ VersionsAreReal(a)
      /\ Now \in Nat /\ Now >= 1
      /\ history \in Seq(Cache) /\ \A v \in 1..Now : v \in Version /\ history[v] \in Cache
      /\ NoBody \in Body /\ NothingSeen \in Seen
      /\ slot \in Watched \cup {None} /\ EntryIsSound(EntryFor(slot))
      /\ EntryFor(slot).stream \in WatchStream
      /\ refused \in BOOLEAN /\ breaks \in 0..MaxBreaks
  BY ReaderType
<1>2. ASSUME NEW x \in Reader, reader' = [reader EXCEPT ![r] = x], VersionsAreReal(x),
             UNCHANGED << server, session, breaks >>
      PROVE  XInv'
  <2>1. UNCHANGED server /\ slot' = slot /\ refused' = refused /\ breaks' = breaks
    BY <1>2 DEF session
  <2> HIDE DEF a
  <2> QED BY <1>1, <1>2, <2>1, ReaderMoves
<1>3. reader \in [Readers -> Reader]
  BY DEF XInv, TypeOK
<1>4. CASE Acquire(r)
  <2> DEFINE x == [a EXCEPT !.pc = IF refused THEN "synchronise" ELSE "begin",
                            !.listing = IF refused THEN Now ELSE None,
                            !.left = a.left - 1,
                            !.seen = NothingSeen]
  <2>1. reader' = [reader EXCEPT ![r] = x] /\ UNCHANGED << server, session, breaks >>
    BY <1>3, <1>4 DEF Acquire
  <2>2. a.left - 1 \in Nat
    <3>1. a.left \in Nat /\ a.left > 0
      BY <1>1, <1>4 DEF Acquire, Reader
    <3> QED BY <3>1
  <2>m. Now \in Version /\ Now \in 1..Now /\ Now # None
    BY <1>1, NoneAssumption DEF Version
  <2>3. x \in Reader
    <3> HIDE DEF a
    <3> QED BY <1>1, <2>2, <2>m DEF Reader, Place
  <2>4. VersionsAreReal(x)
    <3> HIDE DEF a
    <3>1. /\ x.pc = (IF refused THEN "synchronise" ELSE "begin")
          /\ x.listing = (IF refused THEN Now ELSE None)
          /\ x.from = a.from /\ x.body = a.body
      BY <1>1 DEF Reader
    <3> HIDE DEF x
    <3> QED BY <1>1, <2>m, <3>1 DEF VersionsAreReal
  <2> HIDE DEF x
  <2> QED BY <1>2, <2>1, <2>3, <2>4
<1>5. CASE SyncRefused(r)
  <2> DEFINE x == [a EXCEPT !.pc = "close", !.listing = None]
  <2>1. reader' = [reader EXCEPT ![r] = x] /\ UNCHANGED << server, session, breaks >>
    BY <1>3, <1>5 DEF SyncRefused
  <2>2. x \in Reader /\ VersionsAreReal(x)
    <3> HIDE DEF a
    <3> QED BY <1>1 DEF Reader, Place, VersionsAreReal
  <2> HIDE DEF x
  <2> QED BY <1>2, <2>1, <2>2
<1>6. CASE Acquisition(r)
  <2> DEFINE objects == IF slot = None THEN EmptyCache ELSE slot.stream.objects
             reading == a.body.phase # "closed"
             seen == IF objects = EmptyCache THEN a.seen
                     ELSE [at |-> IF reading THEN a.body.at ELSE a.listing, objects |-> objects]
             x == [a EXCEPT !.pc = IF reading THEN "reading" ELSE "round",
                            !.listing = None, !.seen = seen]
  <2>1. reader' = [reader EXCEPT ![r] = x] /\ UNCHANGED << server, session, breaks >>
    BY <1>3, <1>6 DEF Acquisition
  <2>2. objects \in Cache
    BY <1>1, EntryAssumption DEF EmptyCache, Cache, EntryFor, WatchStream
  <2>3. (IF reading THEN a.body.at ELSE a.listing) \in Version
    <3>1. a.pc = "acquisition"
      BY <1>6 DEF Acquisition, At
    <3> HIDE DEF a
    <3> QED BY <1>1, <3>1 DEF Reader, Body, VersionsAreReal
  <2>4. seen \in Seen
    <3> HIDE DEF objects, a
    <3> QED BY <1>1, <2>2, <2>3 DEF Seen, Reader
  <2>5. x \in Reader /\ VersionsAreReal(x)
    <3> HIDE DEF a, seen
    <3> QED BY <1>1, <2>4 DEF Reader, Place, VersionsAreReal
  <2> HIDE DEF x
  <2> QED BY <1>2, <2>1, <2>5
<1>7. CASE Round(r)
  <2> DEFINE from == IF slot = None THEN None ELSE slot.stream.checkpoint
             streaming == slot # None /\ IsStreamingList(slot.stream)
             x == [a EXCEPT !.pc = "open", !.from = from, !.streaming = streaming]
  <2>1. reader' = [reader EXCEPT ![r] = x] /\ UNCHANGED << server, session, breaks >>
    BY <1>3, <1>7 DEF Round
  <2>2. from \in Version \cup {None} /\ (from # None => from \in 1..Now)
    BY <1>1 DEF EntryIsSound, EntryFor, WatchStream
  <2>3. streaming \in BOOLEAN
    OBVIOUS
  <2>4. x \in Reader /\ VersionsAreReal(x)
    <3> HIDE DEF a, from, streaming
    <3> QED BY <1>1, <2>2, <2>3 DEF Reader, Place, VersionsAreReal
  <2> HIDE DEF x
  <2> QED BY <1>2, <2>1, <2>4
<1>8. ASSUME NEW phase \in {"initial", "unversioned", "changes"}, NEW at \in 1..Now,
             NEW todo \in SUBSET Existed(at), phase = "changes" => todo = {}, Opened(r, phase, at, todo),
             UNCHANGED << server, session, breaks >>
      PROVE  XInv'
  <2> DEFINE body == [phase |-> phase, at |-> at, todo |-> todo]
             x == [a EXCEPT !.pc = "reading", !.body = body]
  <2>1. reader' = [reader EXCEPT ![r] = x]
    BY <1>3, <1>8 DEF Opened
  <2>2. body \in Body /\ body.phase = phase /\ BodyIsReal(body)
    BY <1>1, <1>8 DEF Body, Existed, BodyIsReal
  <2>3. x \in Reader /\ VersionsAreReal(x)
    <3> HIDE DEF a, body
    <3> QED BY <1>1, <2>2 DEF Reader, Place, VersionsAreReal
  <2> HIDE DEF x
  <2> QED BY <1>2, <1>8, <2>1, <2>3
<1>9. CASE Open(r)
  <2>1. Existing = Existed(Now) /\ Now \in 1..Now
    BY <1>1 DEF Existing, Existed
  <2>2. a.from # None => a.from \in 1..Now
    BY <1>1 DEF VersionsAreReal
  <2> QED BY <1>8, <1>9, <2>1, <2>2 DEF Open
<1>10. ASSUME NEW place \in Place, place \notin {"synchronise", "acquisition"}, NEW body \in {a.body, NoBody},
              reader' = [reader EXCEPT ![r].pc = place, ![r].body = body],
              UNCHANGED << server, session, breaks >>
       PROVE  XInv'
  <2> DEFINE x == [a EXCEPT !.pc = place, !.body = body]
  <2>1. reader' = [reader EXCEPT ![r] = x]
    BY <1>3, <1>10
  <2>2. x \in Reader /\ VersionsAreReal(x)
    <3> HIDE DEF a
    <3>1. /\ body \in Body
          /\ body.phase # "closed" => BodyIsReal(body)
      <4>1. CASE body = a.body
        BY <1>1, <4>1 DEF Reader, VersionsAreReal
      <4>2. CASE body = NoBody
        <5>1. NoBody.phase = "closed"
          BY DEF NoBody
        <5> QED BY <1>1, <4>2, <5>1
      <4> QED BY <1>10, <4>1, <4>2
    <3>2. x \in Reader /\ x.pc = place /\ x.body = body /\ x.listing = a.listing /\ x.from = a.from
      BY <1>1, <1>10, <3>1 DEF Reader
    <3> HIDE DEF x
    <3> QED BY <1>1, <1>10, <3>1, <3>2 DEF VersionsAreReal
  <2> HIDE DEF x
  <2> QED BY <1>2, <1>10, <2>1, <2>2
<1>11. CASE OpenDeclined(r)
  <2>1. reader' = [reader EXCEPT ![r].pc = "abandon", ![r].body = a.body]
    BY <1>1, <1>3, <1>11 DEF OpenDeclined, Goto, Reader
  <2> QED BY <1>10, <1>11, <2>1 DEF OpenDeclined, Place
<1>12. CASE EndBody(r)
  BY <1>10, <1>12 DEF EndBody, Place
<1>13. CASE Stop(r)
  BY <1>10, <1>13 DEF Stop, Place
<1>14. CASE Relist(r)
  <2> DEFINE x == [a EXCEPT !.pc = "synchronise", !.listing = Now]
  <2>1. reader' = [reader EXCEPT ![r] = x] /\ UNCHANGED << server, session, breaks >>
    BY <1>3, <1>14 DEF Relist
  <2>2. x \in Reader /\ VersionsAreReal(x)
    <3> HIDE DEF a
    <3>1. Now \in Version /\ Now \in 1..Now /\ Now # None
      BY <1>1, NoneAssumption DEF Version
    <3> QED BY <1>1, <3>1 DEF Reader, Place, VersionsAreReal
  <2> HIDE DEF x
  <2> QED BY <1>2, <2>1, <2>2
<1> QED BY <1>4, <1>5, <1>6, <1>7, <1>9, <1>11, <1>12, <1>13, <1>14

(* An event that an invocation hands to the stream.                        *)
LEMMA ApplyKeeps ==
  ASSUME XInv, NEW r \in Readers, NEW e, NEW body \in Body,
         body.phase # "closed", BodyIsReal(body),
         Apply(r, e, body), EntryIsSound(ObserveEvent(slot, e)),
         ReceptionOf(slot, e) = "applied" => e.key \in Keys /\ e.object \in Object
  PROVE  XInv'
<1> DEFINE a == reader[r]
           reception == ReceptionOf(slot, e)
           seen == IF reception = "applied" THEN Told(a.seen, e) ELSE a.seen
           x == [a EXCEPT !.pc = IF reception = "synchronised" THEN "acquisition" ELSE "reading",
                          !.body = body, !.seen = seen]
<1>1. a \in Reader /\ VersionsAreReal(a) /\ breaks \in 0..MaxBreaks
  BY ReaderType
<1>2. reader \in [Readers -> Reader]
  BY DEF XInv, TypeOK
<1>3. /\ reader' = [reader EXCEPT ![r] = x]
      /\ UNCHANGED server /\ breaks' = breaks /\ slot' = ObserveEvent(slot, e)
      /\ refused' \in BOOLEAN
  BY <1>2 DEF Apply
<1>4. seen \in Seen
  <2>1. a.seen \in Seen
    BY <1>1 DEF Reader
  <2>2. CASE reception = "applied"
    <3> DEFINE o == IF e.class = "deleted" THEN None ELSE e.object
    <3>1. o \in Object \cup {None} /\ e.key \in Keys /\ e.object.rv \in Version
      BY <2>2 DEF Object
    <3>2. a.seen.objects \in Cache
      BY <2>1 DEF Seen
    <3> HIDE DEF o, a
    <3>3. [a.seen.objects EXCEPT ![e.key] = o] \in Cache
      BY <3>1, <3>2 DEF Cache
    <3>4. Told(a.seen, e) = [at |-> e.object.rv, objects |-> [a.seen.objects EXCEPT ![e.key] = o]]
      BY DEF Told, o
    <3> QED BY <2>2, <3>1, <3>3, <3>4 DEF Seen
  <2> QED BY <2>1, <2>2
<1>5. x \in Reader
  <2> HIDE DEF a, seen, reception
  <2> QED BY <1>1, <1>4 DEF Reader, Place
<1>6. x.pc # "synchronise" /\ x.body = body /\ x.listing = a.listing /\ x.from = a.from
  <2> HIDE DEF a, seen, reception
  <2> QED BY <1>1 DEF Reader
<1> HIDE DEF x, seen, reception, a
<1>7. VersionsAreReal(x)
  BY <1>1, <1>6 DEF VersionsAreReal
<1>8. slot' \in Watched \cup {None} /\ EntryIsSound(EntryFor(slot'))
  BY <1>3, EntryType DEF EntryIsSound
<1> QED BY <1>1, <1>3, <1>5, <1>7, <1>8, ReaderMoves

(* The body that is read is a body, at a version there was.                *)
LEMMA BodyType ==
  ASSUME XInv, NEW r \in Readers, At(r, "reading"), reader[r].body.phase # "closed"
  PROVE  /\ reader[r].body \in Body
         /\ BodyIsReal(reader[r].body)
         /\ reader[r].body.at \in 1..Now
<1>1. reader[r] \in Reader /\ VersionsAreReal(reader[r])
  BY ReaderType
<1>2. reader[r].body \in Body
  BY <1>1 DEF Reader
<1> QED BY <1>1, <1>2 DEF VersionsAreReal, BodyIsReal

(* The events a body delivers, and what each carries.                      *)
LEMMA SendInitialEvent ==
  ASSUME XInv, NEW r \in Readers, SendInitial(r)
  PROVE  \E k \in Keys :
           LET body == reader[r].body
               o    == history[body.at][k]
               next == [body EXCEPT !.todo = body.todo \ {k}]
           IN  /\ k \in body.todo /\ o \in Object /\ o.rv \in 1..Now
               /\ next \in Body /\ next.phase = body.phase /\ next.at = body.at
               /\ next.todo = body.todo \ {k} /\ BodyIsReal(next)
               /\ EntryIsSound(ObserveEvent(slot, Change("added", k, o)))
               /\ Apply(r, Change("added", k, o), next)
<1> DEFINE body == reader[r].body
<1>1. /\ body \in Body /\ body.phase \in {"initial", "unversioned"}
      /\ BodyIsReal(body) /\ body.at \in 1..Now
  BY BodyType DEF SendInitial, Reading
<1>2. PICK k \in body.todo :
        Apply(r, Change("added", k, history[body.at][k]), [body EXCEPT !.todo = @ \ {k}])
  BY DEF SendInitial
<1> DEFINE o == history[body.at][k]
           next == [body EXCEPT !.todo = body.todo \ {k}]
<1>3. /\ next \in Body /\ next.phase = body.phase /\ next.at = body.at
      /\ next.todo = body.todo \ {k} /\ BodyIsReal(next)
  <2> HIDE DEF body
  <2> QED BY <1>1 DEF Body, BodyIsReal
<1>4. k \in Keys /\ o \in Object /\ o.rv \in 1..Now
  <2>1. k \in Keys /\ o # None
    BY <1>1, <1>2 DEF Existed, BodyIsReal
  <2>2. history[body.at] \in Cache /\ Now \in Nat
    BY <1>1, ReaderType
  <2>3. o.rv \in 1..body.at
    BY <1>1, <2>1 DEF XInv, ObjectsArePast
  <2> HIDE DEF body
  <2> QED BY <1>1, <2>1, <2>2, <2>3 DEF Cache
<1>5. EntryIsSound(ObserveEvent(slot, Change("added", k, o)))
  <2> HIDE DEF o
  <2> QED BY <1>4, ReaderType, ChangeIsSound DEF ChangeClass
<1>6. k \in body.todo /\ Apply(r, Change("added", k, o), next)
  BY <1>2
<1> QED BY <1>3, <1>4, <1>5, <1>6

(* An object of the initial state keeps the invariant.                     *)
LEMMA SendInitialKeeps == ASSUME XInv, NEW r \in Readers, SendInitial(r) PROVE XInv'
<1> DEFINE body == reader[r].body
<1>1. body.phase # "closed"
  BY DEF SendInitial, Reading
<1>2. PICK k \in Keys :
        LET o    == history[body.at][k]
            next == [body EXCEPT !.todo = body.todo \ {k}]
        IN  /\ k \in body.todo /\ o \in Object /\ o.rv \in 1..Now
            /\ next \in Body /\ next.phase = body.phase /\ next.at = body.at
            /\ next.todo = body.todo \ {k} /\ BodyIsReal(next)
            /\ EntryIsSound(ObserveEvent(slot, Change("added", k, o)))
            /\ Apply(r, Change("added", k, o), next)
  BY SendInitialEvent
<1> DEFINE o == history[body.at][k]
           next == [body EXCEPT !.todo = body.todo \ {k}]
<1>3. Change("added", k, o).key = k /\ Change("added", k, o).object = o
  BY DEF Change
<1>4. /\ o \in Object /\ next \in Body /\ next.phase # "closed" /\ BodyIsReal(next)
      /\ EntryIsSound(ObserveEvent(slot, Change("added", k, o)))
      /\ Apply(r, Change("added", k, o), next)
  BY <1>1, <1>2
<1> HIDE DEF o, next, body
<1> QED BY <1>3, <1>4, ApplyKeeps

(* The closing bookmark, and what it makes of the entry.                   *)
LEMMA EndInitialEvent ==
  ASSUME XInv, NEW r \in Readers, EndInitial(r)
  PROVE  LET body == reader[r].body
             next == [body EXCEPT !.phase = "changes"]
         IN  /\ body.at \in 1..Now /\ body.at \in Version /\ body.todo = {}
             /\ next \in Body /\ next.phase = "changes" /\ next.at = body.at /\ BodyIsReal(next)
             /\ EntryIsSound(ObserveEvent(slot, InitialEventsEnd(body.at)))
             /\ Apply(r, InitialEventsEnd(body.at), next)
<1> DEFINE body == reader[r].body
           next == [body EXCEPT !.phase = "changes"]
           e == InitialEventsEnd(body.at)
<1>1. /\ body \in Body /\ BodyIsReal(body) /\ body.at \in 1..Now /\ body.todo = {}
      /\ body.at \in Version
  BY BodyType, ReaderType DEF EndInitial, Reading
<1>2. Apply(r, e, next)
  BY DEF EndInitial
<1>3. next \in Body /\ next.phase = "changes" /\ next.at = body.at /\ BodyIsReal(next)
  <2> HIDE DEF body
  <2> QED BY <1>1 DEF Body, BodyIsReal
<1>4. EntryIsSound(ObserveEvent(slot, e))
  <2> HIDE DEF body
  <2> QED BY <1>1, ReaderType, EndIsSound
<1> QED BY <1>1, <1>2, <1>3, <1>4

(* The closing bookmark keeps the invariant.                               *)
LEMMA EndInitialKeeps == ASSUME XInv, NEW r \in Readers, EndInitial(r) PROVE XInv'
<1> DEFINE body == reader[r].body
           next == [body EXCEPT !.phase = "changes"]
           e == InitialEventsEnd(body.at)
<1>1. /\ body.at \in Version
      /\ next \in Body /\ next.phase # "closed" /\ BodyIsReal(next)
      /\ EntryIsSound(ObserveEvent(slot, e)) /\ Apply(r, e, next)
  BY EndInitialEvent
<1>2. ReceptionOf(slot, e) # "applied"
  <2>1. EntryFor(slot).stream \in WatchStream
    BY ReaderType
  <2> HIDE DEF body
  <2> QED BY <1>1, <2>1, EndEffect DEF ReceptionOf
<1> HIDE DEF e, next, body
<1> QED BY <1>1, <1>2, ApplyKeeps

(* The next change, and what it makes of the entry.                        *)
LEMMA DeliverEvent ==
  ASSUME XInv, NEW r \in Readers, Deliver(r)
  PROVE  \E v \in 1..Now, k \in Keys, class \in ChangeClass, o \in Object :
           LET body == reader[r].body
               next == [body EXCEPT !.at = v]
           IN  /\ o.rv = v
               /\ history[v] = [history[body.at] EXCEPT ![k] = IF class = "deleted"
                                                              THEN None ELSE o]
               /\ next \in Body /\ next.phase = body.phase /\ next.at = v /\ BodyIsReal(next)
               /\ EntryIsSound(ObserveEvent(slot, Change(class, k, o)))
               /\ Apply(r, Change(class, k, o), next)
<1> DEFINE body == reader[r].body
<1>1. /\ body \in Body /\ body.phase \in {"changes", "unversioned"}
      /\ BodyIsReal(body) /\ body.at \in 1..Now /\ body.todo = {}
  BY BodyType DEF Deliver, SendsChanges, Reading, BodyIsReal
<1>2. PICK v \in 1..Now, k \in Keys :
        IsNext(body.at, v, k) /\ Apply(r, EventAt(v, k), [body EXCEPT !.at = v])
  BY DEF Deliver
<1> DEFINE e == EventAt(v, k)
           next == [body EXCEPT !.at = v]
<1>3. /\ e.class \in ChangeClass /\ e.object \in Object /\ e.object.rv = v
      /\ history[v] = [history[body.at] EXCEPT ![k] = IF e.class = "deleted"
                                                     THEN None ELSE e.object]
  <2>1. ServerTypeOK /\ OneChangePerVersion
    BY DEF XInv, TypeOK
  <2>n. body.at \in 1..Now /\ v \in 1..Now /\ IsNext(body.at, v, k)
    BY <1>1, <1>2
  <2> HIDE DEF body
  <2>2. /\ e.type = "change" /\ e.key = k
        /\ e.class \in ChangeClass
        /\ e.object \in Object /\ e.object.rv = v
        /\ history[v] = [history[body.at] EXCEPT ![k] = IF e.class = "deleted"
                                                        THEN None ELSE e.object]
    BY <2>1, <2>n, NextEvent
  <2> QED BY <2>2
<1>4. e = Change(e.class, k, e.object)
  BY DEF EventAt, Change
<1>5. next \in Body /\ next.phase = body.phase /\ next.at = v /\ BodyIsReal(next)
  <2>1. v \in Version
    BY ReaderType
  <2> HIDE DEF body
  <2> QED BY <1>1, <2>1 DEF Body, BodyIsReal
<1> HIDE DEF e
<1>6. EntryIsSound(ObserveEvent(slot, Change(e.class, k, e.object)))
  BY <1>3, ReaderType, ChangeIsSound
<1>7. Apply(r, Change(e.class, k, e.object), next)
  BY <1>2, <1>4 DEF e
<1> QED BY <1>3, <1>5, <1>6, <1>7

(* The next change keeps the invariant.                                    *)
LEMMA DeliverKeeps == ASSUME XInv, NEW r \in Readers, Deliver(r) PROVE XInv'
<1> DEFINE body == reader[r].body
<1>1. body.phase # "closed"
  BY DEF Deliver, SendsChanges, Reading
<1>2. PICK v \in 1..Now, k \in Keys, class \in ChangeClass, o \in Object :
        LET next == [body EXCEPT !.at = v]
        IN  /\ o.rv = v
            /\ history[v] = [history[body.at] EXCEPT ![k] = IF class = "deleted"
                                                           THEN None ELSE o]
            /\ next \in Body /\ next.phase = body.phase /\ next.at = v /\ BodyIsReal(next)
            /\ EntryIsSound(ObserveEvent(slot, Change(class, k, o)))
            /\ Apply(r, Change(class, k, o), next)
  BY DeliverEvent
<1> DEFINE next == [body EXCEPT !.at = v]
           e == Change(class, k, o)
<1>3. /\ next \in Body /\ next.phase # "closed" /\ BodyIsReal(next)
      /\ EntryIsSound(ObserveEvent(slot, e)) /\ Apply(r, e, next)
  BY <1>1, <1>2
<1>4. e.key = k /\ e.object = o
  BY DEF Change
<1> HIDE DEF e, next, body
<1> QED BY <1>3, <1>4, ApplyKeeps

(* A bookmark, and what it makes of the entry.                             *)
LEMMA SendBookmarkEvent ==
  ASSUME XInv, NEW r \in Readers, SendBookmark(r)
  PROVE  \E v \in 1..Now :
           LET body == reader[r].body
               next == [body EXCEPT !.at = v]
           IN  /\ v \in Version /\ history[v] = history[body.at]
               /\ next \in Body /\ next.phase = body.phase /\ next.at = v /\ BodyIsReal(next)
               /\ EntryIsSound(ObserveEvent(slot, Bookmark(v)))
               /\ Apply(r, Bookmark(v), next)
<1> DEFINE body == reader[r].body
<1>1. /\ body \in Body /\ body.phase \in {"changes", "unversioned"}
      /\ BodyIsReal(body) /\ body.at \in 1..Now /\ body.todo = {}
  BY BodyType DEF SendBookmark, SendsChanges, Reading, BodyIsReal
<1>2. PICK v \in (body.at + 1)..Now :
        QuietBetween(body.at, v) /\ Apply(r, Bookmark(v), [body EXCEPT !.at = v])
  BY DEF SendBookmark
<1> DEFINE next == [body EXCEPT !.at = v]
<1>3. Now \in Nat /\ v \in 1..Now /\ v \in Version /\ v \in (body.at + 1)..v
  <2>1. Now \in Nat
    BY ReaderType
  <2> HIDE DEF body
  <2> QED BY <1>1, <2>1 DEF Version
<1>4. next \in Body /\ next.phase = body.phase /\ next.at = v /\ BodyIsReal(next)
  <2> HIDE DEF body
  <2> QED BY <1>1, <1>3 DEF Body, BodyIsReal
<1>5. EntryIsSound(ObserveEvent(slot, Bookmark(v)))
  BY <1>3, ReaderType, BookmarkIsSound
<1>6. history[v] = history[body.at]
  BY <1>2, <1>3 DEF QuietBetween
<1> QED BY <1>2, <1>3, <1>4, <1>5, <1>6

(* A bookmark keeps the invariant.                                         *)
LEMMA SendBookmarkKeeps == ASSUME XInv, NEW r \in Readers, SendBookmark(r) PROVE XInv'
<1> DEFINE body == reader[r].body
<1>1. body.phase # "closed"
  BY DEF SendBookmark, SendsChanges, Reading
<1>2. PICK v \in 1..Now :
        LET next == [body EXCEPT !.at = v]
        IN  /\ v \in Version /\ history[v] = history[body.at]
            /\ next \in Body /\ next.phase = body.phase /\ next.at = v /\ BodyIsReal(next)
            /\ EntryIsSound(ObserveEvent(slot, Bookmark(v)))
            /\ Apply(r, Bookmark(v), next)
  BY SendBookmarkEvent
<1> DEFINE next == [body EXCEPT !.at = v]
           e == Bookmark(v)
<1>3. /\ next \in Body /\ next.phase # "closed" /\ BodyIsReal(next)
      /\ EntryIsSound(ObserveEvent(slot, e)) /\ Apply(r, e, next)
  BY <1>1, <1>2
<1>4. ReceptionOf(slot, e) # "applied"
  <2>1. EntryFor(slot).stream \in WatchStream
    BY ReaderType
  <2> QED BY <1>2, <2>1, BookmarkEffect DEF ReceptionOf
<1> HIDE DEF e, next, body
<1> QED BY <1>3, <1>4, ApplyKeeps

(* A step that moves an invocation on and may hand the session an entry.   *)
LEMMA GoingKeeps ==
  ASSUME XInv, NEW r \in Readers, NEW place \in Place \ {"synchronise"},
         reader' = [reader EXCEPT ![r].pc = place],
         place = "acquisition" => reader[r].listing # None,
         UNCHANGED << server, breaks >>, refused' \in BOOLEAN,
         slot' \in Watched \cup {None}, EntryIsSound(EntryFor(slot'))
  PROVE  XInv'
<1> DEFINE a == reader[r]
           x == [a EXCEPT !.pc = place]
<1>1. a \in Reader /\ VersionsAreReal(a) /\ breaks \in 0..MaxBreaks
  BY ReaderType
<1>2. reader' = [reader EXCEPT ![r] = x] /\ UNCHANGED server /\ breaks' \in 0..MaxBreaks
  BY <1>1 DEF XInv, TypeOK
<1>3. /\ x \in Reader /\ x.pc = place
      /\ x.listing = a.listing /\ x.from = a.from /\ x.body = a.body
  <2> HIDE DEF a
  <2> QED BY <1>1 DEF Reader
<1>4. a.listing = reader[r].listing
  OBVIOUS
<1> HIDE DEF x, a
<1>5. VersionsAreReal(x)
  BY <1>1, <1>3, <1>4 DEF VersionsAreReal
<1> QED BY <1>2, <1>3, <1>5, ReaderMoves

(* A listing posts what it made the cache.                                 *)
LEMMA SynchroniseKeeps == ASSUME XInv, NEW r \in Readers, Synchronise(r) PROVE XInv'
<1> DEFINE v == reader[r].listing
           s == EntryFor(slot).stream
<1>1. v \in 1..Now /\ v # None
  BY ReaderType DEF Synchronise, At, VersionsAreReal
<1>2. s \in WatchStream /\ history[v] \in Cache /\ Now \in Nat
  BY <1>1, ReaderType
<1>3. slot' = [stream |-> Listed(s, history[v], v), index |-> Rebuilt(history[v])]
  BY DEF Synchronise, Synchronised
<1>4. slot' \in Watched /\ EntryIsSound(slot')
  <2> HIDE DEF v, s
  <2> QED BY <1>1, <1>2, <1>3, AcquiredIsSound
<1>5. EntryFor(slot') = slot'
  BY <1>4, EntryType
<1> QED BY <1>1, <1>4, <1>5, ReaderType, GoingKeeps DEF Synchronise, Goto, Place

(* A method that changes neither the cache nor its quarantine.             *)
LEMMA MethodKeeps ==
  ASSUME XInv, NEW r \in Readers, NEW place \in Place \ {"synchronise", "acquisition"},
         NEW s \in WatchStream, slot' = OnStream(slot, s),
         s.objects = EntryFor(slot).stream.objects,
         s.pending_writes = EntryFor(slot).stream.pending_writes,
         s.checkpoint = EntryFor(slot).stream.checkpoint,
         reader' = [reader EXCEPT ![r].pc = place], UNCHANGED << server, refused, breaks >>
  PROVE  XInv'
<1>1. /\ EntryIsSound(EntryFor(slot)) /\ refused \in BOOLEAN
      /\ EntryFor(slot).stream.checkpoint # None => EntryFor(slot).stream.checkpoint \in 1..Now
  BY ReaderType DEF EntryIsSound
<1>2. slot' \in Watched /\ EntryIsSound(slot')
  BY <1>1, OnStreamIsSound
<1>3. EntryFor(slot') = slot'
  BY <1>2, EntryType
<1> QED BY <1>1, <1>2, <1>3, GoingKeeps

(* The methods of the stream keep its type and its cache.                  *)
LEMMA MethodEffects ==
  ASSUME NEW s \in WatchStream, NEW t,
         t \in {BeginStreamingList(s), AbandonStreamingList(s), Reconnected(s)}
  PROVE  /\ t \in WatchStream
         /\ t.objects = s.objects /\ t.pending_writes = s.pending_writes
         /\ t.checkpoint = s.checkpoint
<1>1. EmptyCache \in Cache
  BY DEF EmptyCache, Cache
<1> QED BY <1>1 DEF BeginStreamingList, AbandonStreamingList, Reconnected, WatchStream, SyncState

(* The methods between the rounds keep the invariant.                      *)
LEMMA SessionMoves ==
  ASSUME XInv, NEW r \in Readers,
         \/ Begin(r) \/ Abandon(r) \/ Refuse(r) \/ MatchState(r) \/ Reconnect(r)
  PROVE  XInv'
<1> DEFINE s == EntryFor(slot).stream
<1>1. /\ s \in WatchStream /\ EntryIsSound(EntryFor(slot)) /\ refused \in BOOLEAN
      /\ slot \in Watched \cup {None}
  BY ReaderType
<1>2. ASSUME NEW place \in Place \ {"synchronise", "acquisition"}, NEW t,
             t \in {BeginStreamingList(s), AbandonStreamingList(s), Reconnected(s)},
             slot' = OnStream(slot, t), Goto(r, place), UNCHANGED << server, refused, breaks >>
      PROVE  XInv'
  <2>1. /\ t \in WatchStream
        /\ t.objects = s.objects /\ t.pending_writes = s.pending_writes
        /\ t.checkpoint = s.checkpoint
    <3> HIDE DEF s
    <3> QED BY <1>1, <1>2, MethodEffects
  <2> QED BY <1>2, <2>1, MethodKeeps DEF Goto
<1>3. ASSUME NEW place \in Place \ {"synchronise", "acquisition"}, Goto(r, place),
             slot' \in {slot, EntryFor(slot)}, UNCHANGED << server, breaks >>, refused' \in BOOLEAN
      PROVE  XInv'
  <2>1. slot' \in Watched \cup {None} /\ EntryFor(slot') = EntryFor(slot)
    BY <1>1, <1>3, EntryType DEF EntryIsSound, EntryFor
  <2> QED BY <1>1, <1>3, <2>1, GoingKeeps DEF Goto
<1>4. CASE Begin(r)
  <2> DEFINE place == IF s.state = "denied" THEN "close" ELSE "round"
  <2>1. place \in Place \ {"synchronise", "acquisition"}
    BY DEF Place
  <2>2. /\ slot' = OnStream(slot, BeginStreamingList(s)) /\ Goto(r, place)
        /\ UNCHANGED << server, refused, breaks >>
    BY <1>4 DEF Begin
  <2> HIDE DEF place, s
  <2> QED BY <1>2, <2>1, <2>2
<1>5. CASE Abandon(r)
  <2>1. CASE slot # None /\ IsStreamingList(slot.stream)
    <3>1. s = slot.stream
      BY <2>1 DEF EntryFor
    <3>2. /\ slot' = OnStream(slot, AbandonStreamingList(s)) /\ Goto(r, "refuse")
          /\ UNCHANGED << server, refused, breaks >>
      BY <1>5, <2>1, <3>1 DEF Abandon
    <3> HIDE DEF s
    <3> QED BY <1>2, <3>2 DEF Place
  <2>2. CASE ~ (slot # None /\ IsStreamingList(slot.stream))
    <3>1. Goto(r, "state") /\ slot' = slot /\ UNCHANGED << server, refused, breaks >>
      BY <1>5, <2>2 DEF Abandon
    <3> QED BY <1>1, <1>3, <3>1 DEF Place
  <2> QED BY <2>1, <2>2
<1>6. CASE Refuse(r)
  BY <1>3, <1>6 DEF Refuse, Place
<1>7. CASE MatchState(r)
  BY <1>1, <1>3, <1>7 DEF MatchState, Place
<1>8. CASE Reconnect(r)
  <2> DEFINE place == IF CanReconnect(s) THEN "round" ELSE "close"
  <2>1. place \in Place \ {"synchronise", "acquisition"}
    BY DEF Place
  <2>2. /\ slot' = OnStream(slot, Reconnected(s)) /\ Goto(r, place)
        /\ UNCHANGED << server, refused, breaks >>
    BY <1>8 DEF Reconnect
  <2> HIDE DEF place, s
  <2> QED BY <1>2, <2>1, <2>2
<1> QED BY <1>4, <1>5, <1>6, <1>7, <1>8

(* A body that ends with an error, or a view that is closed.               *)
LEMMA EndingKeeps ==
  ASSUME XInv, NEW r \in Readers,
         \/ OpenExpired(r) \/ OpenDenied(r) \/ Interrupt(r) \/ BreakBody(r) \/ Close(r)
  PROVE  XInv'
<1> DEFINE a == reader[r]
<1>1. /\ a \in Reader /\ VersionsAreReal(a) /\ NoBody \in Body /\ NothingSeen \in Seen
      /\ EntryIsSound(EntryFor(slot)) /\ slot \in Watched \cup {None}
      /\ refused \in BOOLEAN /\ breaks \in 0..MaxBreaks /\ MaxBreaks \in Nat
  BY ReaderType, ViewAssumption
<1>2. reader \in [Readers -> Reader]
  BY DEF XInv, TypeOK
<1>3. ASSUME NEW place \in {"abandon", "idle"}, NEW body \in {a.body, NoBody},
             NEW seen \in {a.seen, NothingSeen},
             reader' = [reader EXCEPT ![r].pc = place, ![r].body = body, ![r].seen = seen],
             UNCHANGED server, refused' = refused, breaks' \in 0..MaxBreaks,
             slot' \in Watched \cup {None}, EntryIsSound(EntryFor(slot'))
      PROVE  XInv'
  <2> DEFINE x == [a EXCEPT !.pc = place, !.body = body, !.seen = seen]
  <2>1. reader' = [reader EXCEPT ![r] = x]
    BY <1>2, <1>3
  <2>2. body \in Body /\ seen \in Seen /\ (body.phase # "closed" => BodyIsReal(body))
    <3>1. NoBody.phase = "closed"
      BY DEF NoBody
    <3>2. a.body \in Body /\ a.seen \in Seen
      BY <1>1 DEF Reader
    <3>3. a.body.phase # "closed" => BodyIsReal(a.body)
      BY <1>1 DEF VersionsAreReal
    <3> HIDE DEF a
    <3> QED BY <1>1, <1>3, <3>1, <3>2, <3>3
  <2>3. /\ x \in Reader /\ x.pc = place /\ x.body = body
        /\ x.listing = a.listing /\ x.from = a.from
    <3> HIDE DEF a
    <3> QED BY <1>1, <1>3, <2>2 DEF Reader, Place
  <2>4. VersionsAreReal(x)
    <3> HIDE DEF x, a
    <3> QED BY <1>1, <1>3, <2>2, <2>3 DEF VersionsAreReal
  <2> HIDE DEF x
  <2> QED BY <1>1, <1>3, <2>1, <2>3, <2>4, ReaderMoves
<1>4. ASSUME NEW failure \in {"interrupted", "expired", "denied"},
             slot' = ObserveEvent(slot, Error(failure))
      PROVE  slot' \in Watched \cup {None} /\ EntryIsSound(EntryFor(slot'))
  <2>1. EntryIsSound(slot')
    BY <1>1, <1>4, ErrorIsSound
  <2> QED BY <2>1, EntryType DEF EntryIsSound
<1>5. ASSUME NEW failure \in {"expired", "denied"}, Break(r, failure), breaks' \in 0..MaxBreaks
      PROVE  XInv'
  <2>1. slot' = ObserveEvent(slot, Error(failure)) /\ UNCHANGED << server, refused >>
    BY <1>5 DEF Break
  <2>2. slot' \in Watched \cup {None} /\ EntryIsSound(EntryFor(slot'))
    BY <1>4, <2>1
  <2>3. reader' = [reader EXCEPT ![r].pc = "abandon", ![r].body = NoBody, ![r].seen = NothingSeen]
    BY <1>5 DEF Break
  <2> QED BY <1>3, <1>5, <2>1, <2>2, <2>3
<1>6. breaks < MaxBreaks /\ breaks' = breaks + 1 => breaks' \in 0..MaxBreaks
  BY <1>1
<1>7. CASE OpenExpired(r)
  BY <1>1, <1>5, <1>7 DEF OpenExpired
<1>8. CASE OpenDenied(r)
  BY <1>5, <1>6, <1>8 DEF OpenDenied
<1>9. CASE BreakBody(r)
  BY <1>5, <1>6, <1>9 DEF BreakBody
<1>10. CASE Interrupt(r)
  <2>1. slot' = ObserveEvent(slot, Error("interrupted")) /\ UNCHANGED << server, refused, breaks >>
    BY <1>10 DEF Interrupt
  <2>2. slot' \in Watched \cup {None} /\ EntryIsSound(EntryFor(slot'))
    BY <1>4, <2>1
  <2>3. reader' = [reader EXCEPT ![r].pc = "abandon", ![r].body = NoBody, ![r].seen = a.seen]
    BY <1>1, <1>2, <1>10 DEF Interrupt, Reader
  <2> QED BY <1>1, <1>3, <2>1, <2>2, <2>3
<1>11. CASE Close(r)
  <2>1. slot' = ViewClosed(slot) /\ UNCHANGED << server, refused, breaks >>
    BY <1>11 DEF Close
  <2>2. slot' \in Watched \cup {None} /\ EntryIsSound(EntryFor(slot'))
    BY <1>1, <2>1, ClosedIsSound
  <2>3. reader' = [reader EXCEPT ![r].pc = "idle", ![r].body = a.body, ![r].seen = NothingSeen]
    BY <1>1, <1>2, <1>11 DEF Close, Reader
  <2> QED BY <1>1, <1>3, <2>1, <2>2, <2>3
<1> QED BY <1>7, <1>8, <1>9, <1>10, <1>11

(* A step of the server, and a write of this session with it.              *)
LEMMA ServerKeeps ==
  ASSUME XInv, ServerNext, UNCHANGED << refused, reader, breaks >>,
         slot' \in Watched \cup {None}, EntryIsSound(EntryFor(slot'))
  PROVE  XInv'
<1>1. /\ ServerTypeOK' /\ OneChangePerVersion' /\ ObjectsArePast'
      /\ \A x : VersionsAreReal(x) => VersionsAreReal(x)'
      /\ \A entry : EntryIsSound(entry) => EntryIsSound(entry)'
  BY ServerGrows, ServerKeepsPast DEF XInv, TypeOK
<1>2. /\ reader' = reader /\ refused' = refused /\ breaks' = breaks
      /\ \A r \in Readers : VersionsAreReal(reader[r])
      /\ reader \in [Readers -> Reader] /\ refused \in BOOLEAN /\ breaks \in 0..MaxBreaks
  BY DEF XInv, TypeOK
<1>3. \A r \in Readers : VersionsAreReal(reader[r])'
  BY <1>1, <1>2 DEF VersionsAreReal, BodyIsReal
<1>4. EntryIsSound(EntryFor(slot))'
  BY <1>1
<1>5. TypeOK'
  BY <1>1, <1>2 DEF TypeOK
<1> QED BY <1>1, <1>3, <1>4, <1>5 DEF XInv

(* The invariant holds at first.                                           *)
LEMMA InitXInv == Init => XInv
<1> SUFFICES ASSUME Init PROVE XInv
  OBVIOUS
<1>1. PICK existing \in SUBSET Keys :
        history = << [k \in Keys |-> IF k \in existing
                                     THEN [uid |-> 1, rv |-> 1] ELSE None] >>
  BY DEF Init, ServerInit
<1> DEFINE first == [k \in Keys |-> IF k \in existing THEN [uid |-> 1, rv |-> 1] ELSE None]
<1>2. first \in Cache /\ \A k \in Keys : first[k] # None => first[k].rv = 1
  BY DEF Cache, Object, Version
<1>3. history = << first >>
  BY <1>1
<1> HIDE DEF first
<1>4. ServerTypeOK /\ Now = 1 /\ history[1] = first
  BY <1>2, <1>3 DEF Init, ServerInit, ServerTypeOK, Now
<1>5. OneChangePerVersion /\ ObjectsArePast
  <2>1. OneChangePerVersion
    BY <1>4 DEF OneChangePerVersion
  <2>2. \A v \in 1..Now : v = 1
    BY <1>4
  <2>3. ObjectsArePast
    BY <1>2, <1>4, <2>2 DEF ObjectsArePast
  <2> QED BY <2>1, <2>3
<1> DEFINE x == [pc |-> "idle", left |-> Invocations, listing |-> None, from |-> None,
                 streaming |-> FALSE, body |-> NoBody, seen |-> NothingSeen]
<1>6. NoBody \in Body /\ NothingSeen \in Seen /\ NoBody.phase = "closed"
  BY DEF NoBody, Body, NothingSeen, Seen, Version, EmptyCache, Cache
<1>7. x \in Reader /\ VersionsAreReal(x)
  BY <1>6, ViewAssumption DEF Reader, Place, VersionsAreReal
<1>8. /\ reader = [r \in Readers |-> x] /\ slot = None /\ refused = FALSE /\ breaks = 0
  BY DEF Init
<1> HIDE DEF x
<1>9. reader \in [Readers -> Reader] /\ \A r \in Readers : VersionsAreReal(reader[r])
  BY <1>7, <1>8
<1>10. EntryIsSound(EntryFor(slot))
  BY <1>8, NewEntry DEF EntryFor
<1>11. TypeOK
  <2>1. 0 \in 0..MaxBreaks
    BY ViewAssumption
  <2>2. slot \in Watched \cup {None} /\ refused \in BOOLEAN /\ breaks \in 0..MaxBreaks
    BY <1>8, <2>1
  <2> QED BY <1>4, <1>9, <2>2 DEF TypeOK
<1> QED BY <1>5, <1>9, <1>10, <1>11 DEF XInv

(* Every step keeps it.                                                    *)
LEMMA XInvStep == XInv /\ [Next]_vars => XInv'
<1> SUFFICES ASSUME XInv, [Next]_vars PROVE XInv'
  OBVIOUS
<1>1. /\ slot \in Watched \cup {None} /\ EntryIsSound(EntryFor(slot))
  BY DEF XInv, TypeOK
<1>2. CASE ServerStep
  BY <1>1, <1>2, ServerKeeps DEF ServerStep, session
<1>3. ASSUME NEW r \in Readers, ReaderStep(r) PROVE XInv'
  BY <1>3, SessionStands, SendInitialKeeps, EndInitialKeeps, DeliverKeeps, SendBookmarkKeeps,
     SynchroniseKeeps, SessionMoves, EndingKeeps DEF ReaderStep
<1>4. ASSUME NEW k \in Keys, OwnWrite(k) PROVE XInv'
  <2>1. ServerNext /\ UNCHANGED << refused, reader, breaks >> /\ slot' = Mutated(slot, k)
    BY <1>4 DEF OwnWrite, ServerNext
  <2>2. slot' \in Watched \cup {None} /\ EntryIsSound(EntryFor(slot'))
    BY <1>1, <2>1, MutatedIsSound
  <2> QED BY <2>1, <2>2, ServerKeeps
<1>5. CASE UNCHANGED vars
  <2>1. /\ Now' = Now /\ slot' = slot /\ reader' = reader /\ refused' = refused /\ breaks' = breaks
        /\ history' = history /\ oldest' = oldest
    BY <1>5 DEF vars, server, session, Now
  <2> QED BY <2>1 DEF XInv, TypeOK, ServerTypeOK, OneChangePerVersion, Changed, ObjectsArePast,
       EntryIsSound, Posts, VersionsAreReal, BodyIsReal, Existed, Now
<1> QED BY <1>2, <1>3, <1>4, <1>5 DEF Next

(* Versions, entries and bodies are real, and the index posts what the     *)
(* cache holds outside the quarantine, for any number of invocations that  *)
(* share the stream.                                                       *)
THEOREM SharedInvariant == Spec => []XInv
<1> QED BY InitXInv, XInvStep, PTL DEF Spec

(* §50.4: an index that may answer posts exactly what the cache holds,     *)
(* however many invocations feed the stream and whatever is written.       *)
THEOREM IndexPostsTheCache == Spec => []IndexIsTheCache
<1>1. XInv => IndexIsTheCache
  <2> SUFFICES ASSUME XInv, Usable(slot) PROVE slot.index.posted = slot.stream.objects
    BY DEF IndexIsTheCache
  <2>1. slot \in Watched /\ EntryFor(slot) = slot
    BY DEF XInv, TypeOK, Usable, EntryFor
  <2>2. slot.index.posted \in Cache /\ slot.stream.objects \in Cache
    BY <2>1, EntryType
  <2>3. \A k \in Keys : slot.index.posted[k] = slot.stream.objects[k]
    BY <2>1 DEF XInv, EntryIsSound, Posts, Usable
  <2> QED BY <2>2, <2>3 DEF Cache
<1> QED BY <1>1, SharedInvariant, PTL

-----------------------------------------------------------------------------
(* One invocation alone: where it is says where the stream stands.         *)

CacheStands(s) ==
  HasSynced(s) => /\ s.checkpoint # None
                  /\ s.objects = history[s.checkpoint]
                  /\ s.staging = None

(* A body is open while it is read and while a streamed list is reported,  *)
(* and stands where a synchronised stream does.                            *)
BodyStands(x, s) ==
  /\ x.pc = "reading" => x.body.phase # "closed"
  /\ x.body.phase # "closed" => x.pc \in {"reading", "acquisition"}
  /\ x.body.phase = "changes" /\ HasSynced(s) => x.body.at = s.checkpoint
  /\ x.body.phase \in {"initial", "unversioned"} => ~ HasSynced(s)

(* What a streaming list has sent of its objects.                          *)
Sent(body) ==
  [k \in Keys |-> IF k \in body.todo THEN None ELSE history[body.at][k]]

(* What is staged is what a streaming list has sent, from its start.       *)
StagingStands(x, s) ==
  s.staging # None =>
    /\ x.pc \in {"round", "open", "reading", "abandon", "close"}
    /\ x.pc \in {"round", "open"} => s.staging = EmptyCache
    /\ x.pc = "open" => x.streaming
    /\ x.pc = "reading" => x.body.phase = "initial" /\ s.staging = Sent(x.body)

(* A request that is open asks for what the stream needs, and a suspended  *)
(* stream is resumed before the next.                                      *)
RequestStands(x, s) ==
  /\ s.state = "reconnecting" => x.pc \in {"abandon", "state", "reconnect"}
  /\ x.pc = "open" /\ HasSynced(s) => ~ x.streaming /\ x.from = s.checkpoint
  /\ x.pc = "acquisition" =>
       /\ s.state = "live"
       /\ x.body.phase = "closed" => x.listing = s.checkpoint

Stands(x, s) ==
  CacheStands(s) /\ BodyStands(x, s) /\ StagingStands(x, s) /\ RequestStands(x, s)

SInv == XInv /\ Stands(reader[Alone], Stream)

(* The types, for an invocation that is alone.                             *)
LEMMA AloneType ==
  ASSUME SInv, Readers = {Alone}
  PROVE  /\ Alone \in Readers /\ reader \in [Readers -> Reader]
         /\ reader[Alone] \in Reader /\ VersionsAreReal(reader[Alone])
         /\ Now \in Nat /\ Now >= 1
         /\ history \in Seq(Cache) /\ \A v \in 1..Now : v \in Version /\ history[v] \in Cache
         /\ slot \in Watched \cup {None} /\ EntryIsSound(EntryFor(slot))
         /\ Stream \in WatchStream
         /\ Stream.checkpoint # None => Stream.checkpoint \in 1..Now
<1>1. Alone \in Readers
  OBVIOUS
<1>2. XInv /\ reader \in [Readers -> Reader]
  BY DEF SInv, XInv, TypeOK
<1> QED BY <1>1, <1>2, ReaderType DEF Stream, EntryIsSound

(* Steps that leave the session, and so the stream, as it is.              *)
LEMMA StreamStands ==
  ASSUME SInv, Readers = {Alone},
         \/ Acquire(Alone) \/ SyncRefused(Alone) \/ Acquisition(Alone) \/ Round(Alone)
         \/ Open(Alone) \/ OpenDeclined(Alone) \/ EndBody(Alone) \/ Relist(Alone)
         \/ Stop(Alone) \/ Refuse(Alone) \/ MatchState(Alone)
  PROVE  Stands(reader'[Alone], EntryFor(slot').stream)
<1> DEFINE a == reader[Alone]
           s == Stream
           x == reader'[Alone]
<1>1. /\ Alone \in Readers /\ reader \in [Readers -> Reader]
      /\ a \in Reader /\ VersionsAreReal(a)
      /\ Now \in Nat /\ Now >= 1
      /\ slot \in Watched \cup {None} /\ s \in WatchStream
      /\ s.checkpoint # None => s.checkpoint \in 1..Now
  BY AloneType
<1>2. Stands(a, s)
  BY DEF SInv
<1>3. NoBody.phase = "closed" /\ a.body \in Body
  BY <1>1 DEF NoBody, Reader
<1>4. slot' \in {slot, EntryFor(slot)} => EntryFor(slot').stream = s
  BY <1>1, EntryType, NewEntry DEF EntryFor, EntryIsSound, Stream
<1>5. slot' \in {slot, EntryFor(slot)}
  BY DEF Acquire, SyncRefused, Acquisition, Round, Open, Opened, OpenDeclined, EndBody, Relist,
         Stop, Refuse, MatchState, session
<1>6. SUFFICES Stands(x, s)
  BY <1>4, <1>5
<1>7. CASE Acquire(Alone)
  <2>1. x.pc \in {"synchronise", "begin"} /\ x.body = a.body
    BY <1>1, <1>7 DEF Acquire, Reader
  <2>2. a.pc = "idle"
    BY <1>7 DEF Acquire, At
  <2> HIDE DEF x, a, s
  <2> QED BY <1>2, <2>1, <2>2 DEF Stands, CacheStands, BodyStands, StagingStands, RequestStands
<1>8. CASE SyncRefused(Alone)
  <2>1. x.pc = "close" /\ x.body = a.body
    BY <1>1, <1>8 DEF SyncRefused, Reader
  <2>2. a.pc = "synchronise"
    BY <1>8 DEF SyncRefused, At
  <2> HIDE DEF x, a, s
  <2> QED BY <1>2, <2>1, <2>2 DEF Stands, CacheStands, BodyStands, StagingStands, RequestStands
<1>9. CASE Acquisition(Alone)
  <2>1. x.pc = (IF a.body.phase # "closed" THEN "reading" ELSE "round") /\ x.body = a.body
    BY <1>1, <1>9 DEF Acquisition, Reader
  <2>2. a.pc = "acquisition"
    BY <1>9 DEF Acquisition, At
  <2> HIDE DEF x, a, s
  <2> QED BY <1>2, <2>1, <2>2
          DEF Stands, CacheStands, BodyStands, StagingStands, RequestStands, HasSynced
<1>10. CASE Round(Alone)
  <2>1. /\ x.pc = "open" /\ x.body = a.body
        /\ x.from = IF slot = None THEN None ELSE slot.stream.checkpoint
        /\ x.streaming = (slot # None /\ IsStreamingList(slot.stream))
    BY <1>1, <1>10 DEF Round, Reader
  <2>2. a.pc = "round"
    BY <1>10 DEF Round, At
  <2>3. CASE slot = None
    <3>1. s = NewStream
      BY <2>3 DEF Stream, EntryFor, NewWatched
    <3>2. ~ HasSynced(s) /\ s.staging = None /\ s.state = "syncing"
      BY <3>1 DEF NewStream, HasSynced
    <3> HIDE DEF x, a, s
    <3> QED BY <1>2, <2>1, <2>2, <3>2
            DEF Stands, CacheStands, BodyStands, StagingStands, RequestStands
  <2>4. CASE slot # None
    <3>1. s = slot.stream
      BY <2>4 DEF Stream, EntryFor
    <3>2. x.from = s.checkpoint /\ x.streaming = (s.staging # None)
      BY <2>1, <2>4, <3>1 DEF IsStreamingList
    <3> HIDE DEF x, a, s
    <3> QED BY <1>2, <2>1, <2>2, <3>2
            DEF Stands, CacheStands, BodyStands, StagingStands, RequestStands
  <2> QED BY <2>3, <2>4
<1>11. CASE Open(Alone)
  <2>1. a.pc = "open"
    BY <1>11 DEF Open, At
  <2>2. ASSUME NEW phase \in {"initial", "unversioned", "changes"}, NEW at, NEW todo,
               Opened(Alone, phase, at, todo)
        PROVE  x.pc = "reading" /\ x.body = [phase |-> phase, at |-> at, todo |-> todo]
    BY <1>1, <2>2 DEF Opened, Reader
  <2>3. CASE a.streaming
    <3>1. x.pc = "reading" /\ x.body = [phase |-> "initial", at |-> Now, todo |-> Existing]
      BY <1>11, <2>2, <2>3 DEF Open
    <3>2. x.body.phase = "initial" /\ x.body.at = Now /\ x.body.todo = Existing
      BY <3>1
    <3>3. Sent(x.body) = EmptyCache
      BY <3>2 DEF Sent, Existing, EmptyCache
    <3> HIDE DEF x, a, s
    <3> QED BY <1>2, <2>1, <2>3, <3>1, <3>2, <3>3
            DEF Stands, CacheStands, BodyStands, StagingStands, RequestStands
  <2>4. CASE ~ a.streaming /\ a.from = None
    <3>1. x.pc = "reading" /\ x.body = [phase |-> "unversioned", at |-> Now, todo |-> Existing]
      BY <1>11, <2>2, <2>4 DEF Open
    <3>2. x.body.phase = "unversioned"
      BY <3>1
    <3> HIDE DEF x, a, s
    <3> QED BY <1>2, <2>1, <2>4, <3>1, <3>2
            DEF Stands, CacheStands, BodyStands, StagingStands, RequestStands
  <2>5. CASE ~ a.streaming /\ a.from # None
    <3>1. x.pc = "reading" /\ x.body = [phase |-> "changes", at |-> a.from, todo |-> {}]
      BY <1>11, <2>2, <2>5 DEF Open
    <3>2. x.body.phase = "changes" /\ x.body.at = a.from
      BY <3>1
    <3> HIDE DEF x, a, s
    <3> QED BY <1>2, <2>1, <2>5, <3>1, <3>2
            DEF Stands, CacheStands, BodyStands, StagingStands, RequestStands
  <2> QED BY <2>3, <2>4, <2>5
<1>12. CASE OpenDeclined(Alone)
  <2>1. x.pc = "abandon" /\ x.body = a.body
    BY <1>1, <1>12 DEF OpenDeclined, Goto, Reader
  <2>2. a.pc = "open"
    BY <1>12 DEF OpenDeclined, At
  <2> HIDE DEF x, a, s
  <2> QED BY <1>2, <2>1, <2>2 DEF Stands, CacheStands, BodyStands, StagingStands, RequestStands
<1>13. CASE EndBody(Alone) \/ Stop(Alone)
  <2>1. x.pc \in {"abandon", "close"} /\ x.body = NoBody
    BY <1>1, <1>13 DEF EndBody, Stop, Reader
  <2>2. a.pc \in {"round", "open", "reading", "relist"}
    BY <1>13 DEF EndBody, Stop, At
  <2> HIDE DEF x, a, s
  <2> QED BY <1>2, <1>3, <2>1, <2>2
          DEF Stands, CacheStands, BodyStands, StagingStands, RequestStands
<1>14. CASE Relist(Alone)
  <2>1. x.pc = "synchronise" /\ x.body = a.body
    BY <1>1, <1>14 DEF Relist, Reader
  <2>2. a.pc = "relist"
    BY <1>14 DEF Relist, At
  <2> HIDE DEF x, a, s
  <2> QED BY <1>2, <2>1, <2>2 DEF Stands, CacheStands, BodyStands, StagingStands, RequestStands
<1>15. CASE Refuse(Alone)
  <2>1. x.pc = "relist" /\ x.body = a.body
    BY <1>1, <1>15 DEF Refuse, Goto, Reader
  <2>2. a.pc = "refuse"
    BY <1>15 DEF Refuse, At
  <2> HIDE DEF x, a, s
  <2> QED BY <1>2, <2>1, <2>2 DEF Stands, CacheStands, BodyStands, StagingStands, RequestStands
<1>16. CASE MatchState(Alone)
  <2>1. a.pc = "state"
    BY <1>16 DEF MatchState, At
  <2>2. slot'.stream = s
    BY <1>16 DEF MatchState, Stream
  <2>3. x.body = a.body /\ \/ s.state = "live" /\ x.pc = "round"
                           \/ s.state = "reconnecting" /\ x.pc = "reconnect"
                           \/ s.state = "gap_detected" /\ x.pc \in {"relist", "close"}
                           \/ s.state \in {"denied", "syncing"} /\ x.pc = "close"
    BY <1>1, <1>16, <2>2 DEF MatchState, Goto, Reader
  <2> HIDE DEF x, a, s
  <2> QED BY <1>2, <2>1, <2>3 DEF Stands, CacheStands, BodyStands, StagingStands, RequestStands
<1> QED BY <1>7, <1>8, <1>9, <1>10, <1>11, <1>12, <1>13, <1>14, <1>15, <1>16

(* The stream after an event is what `observe` makes of it.                *)
LEMMA ApplyMoves ==
  ASSUME SInv, Readers = {Alone}, NEW e, NEW body,
         Apply(Alone, e, body), EntryIsSound(ObserveEvent(slot, e))
  PROVE  /\ reader'[Alone].pc =
              IF Reception(Stream, e) = "synchronised" THEN "acquisition" ELSE "reading"
         /\ reader'[Alone].body = body
         /\ reader'[Alone].seen =
              IF Reception(Stream, e) = "applied" THEN Told(reader[Alone].seen, e)
              ELSE reader[Alone].seen
         /\ EntryFor(slot').stream = Observe(Stream, e)
<1>1. Alone \in Readers /\ reader \in [Readers -> Reader] /\ reader[Alone] \in Reader
  BY AloneType
<1>2. ReceptionOf(slot, e) = Reception(Stream, e)
  BY DEF ReceptionOf, Stream
<1>3. slot' = ObserveEvent(slot, e) /\ slot' \in Watched /\ slot'.stream = Observe(Stream, e)
  BY EntryObserves DEF Apply, EntryIsSound, Stream
<1>4. EntryFor(slot').stream = Observe(Stream, e)
  BY <1>3, EntryType
<1>5. /\ reader'[Alone].pc =
           IF ReceptionOf(slot, e) = "synchronised" THEN "acquisition" ELSE "reading"
      /\ reader'[Alone].body = body
      /\ reader'[Alone].seen =
           IF ReceptionOf(slot, e) = "applied" THEN Told(reader[Alone].seen, e)
           ELSE reader[Alone].seen
  BY <1>1 DEF Apply, Reader
<1> QED BY <1>2, <1>4, <1>5

(* While it is read, a stream is live where the body stands, or stages     *)
(* what the body sent, or takes nothing.                                   *)
LEMMA ReadStands ==
  ASSUME SInv, Readers = {Alone},
         \/ SendInitial(Alone) \/ EndInitial(Alone) \/ Deliver(Alone) \/ SendBookmark(Alone)
  PROVE  LET body == reader[Alone].body
             s    == Stream
         IN  /\ reader[Alone].pc = "reading"
             /\ body \in Body /\ BodyIsReal(body) /\ body.at \in 1..Now
             /\ \/ /\ s.state = "live" /\ s.staging = None /\ body.phase = "changes"
                   /\ s.checkpoint = body.at /\ s.objects = history[body.at]
                \/ /\ ~ HasSynced(s) /\ s.state # "live"
                   /\ s.staging # None => body.phase = "initial" /\ s.staging = Sent(body)
<1> DEFINE a == reader[Alone]
           s == Stream
           body == a.body
<1>1. Alone \in Readers /\ s \in WatchStream
  BY AloneType
<1>2. Stands(a, s) /\ XInv
  BY DEF SInv
<1>3. a.pc = "reading" /\ body.phase # "closed"
  BY DEF SendInitial, EndInitial, Deliver, SendBookmark, SendsChanges, Reading, At
<1>b. body \in Body /\ BodyIsReal(body) /\ body.at \in 1..Now
  BY <1>1, <1>2, <1>3, BodyType DEF At
<1>4. \/ /\ s.state = "live" /\ s.staging = None /\ body.phase = "changes"
         /\ s.checkpoint = body.at /\ s.objects = history[body.at]
      \/ /\ ~ HasSynced(s) /\ s.state # "live"
         /\ s.staging # None => body.phase = "initial" /\ s.staging = Sent(body)
  <2> HIDE DEF a, s
  <2>1. body.phase \in {"initial", "unversioned", "changes"}
    BY <1>3, <1>b DEF Body
  <2>2. CASE HasSynced(s)
    <3>1. s.state = "live"
      BY <1>2, <1>3, <2>2 DEF Stands, RequestStands, HasSynced
    <3>2. s.staging = None /\ s.objects = history[s.checkpoint]
      BY <1>2, <2>2 DEF Stands, CacheStands
    <3>3. body.phase = "changes" /\ body.at = s.checkpoint
      BY <1>2, <2>1, <2>2 DEF Stands, BodyStands
    <3> QED BY <3>1, <3>2, <3>3
  <2>3. CASE ~ HasSynced(s)
    <3>1. s.staging # None => body.phase = "initial" /\ s.staging = Sent(body)
      BY <1>2, <1>3 DEF Stands, StagingStands
    <3> QED BY <2>3, <3>1 DEF HasSynced
  <2> QED BY <2>2, <2>3
<1> QED BY <1>3, <1>4, <1>b

(* An event of the body leaves the stream where the body stands.           *)
LEMMA StreamIsFed ==
  ASSUME SInv, Readers = {Alone},
         \/ SendInitial(Alone) \/ EndInitial(Alone) \/ Deliver(Alone) \/ SendBookmark(Alone)
  PROVE  Stands(reader'[Alone], EntryFor(slot').stream)
<1> DEFINE a == reader[Alone]
           s == Stream
           x == reader'[Alone]
           t == EntryFor(slot').stream
           body == a.body
<1> SUFFICES Stands(x, t)
  OBVIOUS
<1>1. /\ Alone \in Readers /\ s \in WatchStream
      /\ \A v \in 1..Now : v \in Version /\ history[v] \in Cache
  BY AloneType
<1>2. Stands(a, s) /\ XInv
  BY DEF SInv
<1>3. a.pc = "reading" /\ body \in Body /\ BodyIsReal(body) /\ body.at \in 1..Now
  BY ReadStands
<1>4. \/ /\ s.state = "live" /\ s.staging = None /\ body.phase = "changes"
         /\ s.checkpoint = body.at /\ s.objects = history[body.at]
      \/ /\ ~ HasSynced(s) /\ s.state # "live"
         /\ s.staging # None => body.phase = "initial" /\ s.staging = Sent(body)
  BY ReadStands
<1>5. CASE SendInitial(Alone)
  <2>1. body.phase \in {"initial", "unversioned"}
    BY <1>5 DEF SendInitial, Reading
  <2>2. PICK k \in Keys :
          LET o    == history[body.at][k]
              next == [body EXCEPT !.todo = body.todo \ {k}]
          IN  /\ k \in body.todo /\ o \in Object /\ o.rv \in 1..Now
              /\ next \in Body /\ next.phase = body.phase /\ next.at = body.at
              /\ next.todo = body.todo \ {k} /\ BodyIsReal(next)
              /\ EntryIsSound(ObserveEvent(slot, Change("added", k, o)))
              /\ Apply(Alone, Change("added", k, o), next)
    BY <1>1, <1>2, <1>5, SendInitialEvent
  <2> DEFINE o == history[body.at][k]
             next == [body EXCEPT !.todo = body.todo \ {k}]
             e == Change("added", k, o)
  <2>3. /\ k \in body.todo /\ o \in Object
        /\ next.phase = body.phase /\ next.at = body.at /\ next.todo = body.todo \ {k}
        /\ EntryIsSound(ObserveEvent(slot, e)) /\ Apply(Alone, e, next)
    BY <2>2
  <2>4. /\ x.pc = IF Reception(s, e) = "synchronised" THEN "acquisition" ELSE "reading"
        /\ x.body = next /\ t = Observe(s, e)
    <3> HIDE DEF e, next
    <3> QED BY <2>3, ApplyMoves
  <2>5. LET u == Observe(s, e)
        IN  /\ u \in WatchStream
            /\ Reception(s, e) = IF "added" = "added" /\ s.staging # None THEN "staged"
                                  ELSE IF s.state = "live" THEN "applied" ELSE "discarded"
            /\ Reception(s, e) = "staged" =>
                  /\ u.state = s.state /\ u.checkpoint = s.checkpoint
                  /\ u.objects = s.objects /\ u.pending_writes = s.pending_writes
                  /\ u.staging = [s.staging EXCEPT ![k] = o]
            /\ Reception(s, e) = "discarded" => u = s
            /\ Reception(s, e) = "applied" =>
                  /\ u.state = s.state /\ u.checkpoint = o.rv
                  /\ u.staging = s.staging
                  /\ u.pending_writes = s.pending_writes \ {k}
                  /\ u.objects = [s.objects EXCEPT ![k] = IF "added" = "deleted" THEN None ELSE o]
    <3> HIDE DEF o, s
    <3> QED BY <1>1, <2>3, ChangeEffect DEF ChangeClass
  <2>6. s.state # "live" /\ ~ HasSynced(s) /\ (s.staging # None => s.staging = Sent(body))
    BY <1>4, <2>1
  <2> HIDE DEF e
  <2>7. CASE s.staging = None
    <3>1. t = s /\ x.pc = "reading" /\ x.body.phase = body.phase
      BY <2>3, <2>4, <2>5, <2>6, <2>7
    <3> HIDE DEF x, t, next, o, s, body
    <3> QED BY <2>1, <2>6, <2>7, <3>1
            DEF Stands, CacheStands, BodyStands, StagingStands, RequestStands, HasSynced
  <2>8. CASE s.staging # None
    <3>1. /\ x.pc = "reading" /\ x.body = next
          /\ t.state = s.state /\ t.staging = [s.staging EXCEPT ![k] = o]
      BY <2>4, <2>5, <2>6, <2>8
    <3>2. s.staging = Sent(body) /\ body.phase = "initial"
      BY <1>4, <2>6, <2>8
    <3>3. t.staging = Sent(next)
      <4>1. t.staging = [Sent(body) EXCEPT ![k] = history[body.at][k]]
        BY <3>1, <3>2
      <4> HIDE DEF next, body
      <4> QED BY <2>3, <4>1 DEF Sent
    <3> HIDE DEF x, t, next, o, s, body
    <3> QED BY <2>3, <2>6, <3>1, <3>2, <3>3
            DEF Stands, CacheStands, BodyStands, StagingStands, RequestStands, HasSynced
  <2> QED BY <2>7, <2>8
<1>6. CASE EndInitial(Alone)
  <2> DEFINE next == [body EXCEPT !.phase = "changes"]
             e == InitialEventsEnd(body.at)
  <2>1. /\ body.at \in 1..Now /\ body.at \in Version /\ body.todo = {}
        /\ next \in Body /\ next.phase = "changes" /\ next.at = body.at
        /\ EntryIsSound(ObserveEvent(slot, e)) /\ Apply(Alone, e, next)
    BY <1>1, <1>2, <1>6, EndInitialEvent
  <2>2. /\ x.pc = IF Reception(s, e) = "synchronised" THEN "acquisition" ELSE "reading"
        /\ x.body = next /\ t = Observe(s, e)
    <3> HIDE DEF e, next
    <3> QED BY <2>1, ApplyMoves
  <2>3. /\ Observe(s, e) =
              IF s.staging # None THEN Listed(s, s.staging, body.at) ELSE Checkpointed(s, body.at)
        /\ s.staging # None => Reception(s, e) = "synchronised"
        /\ s.staging = None => Reception(s, e) \in {"checkpointed", "discarded"}
    <3> HIDE DEF s, body
    <3> QED BY <1>1, <2>1, EndEffect
  <2>4. s.state # "live" /\ ~ HasSynced(s) /\ (s.staging # None => s.staging = Sent(body))
    <3>1. body.phase = "initial"
      BY <1>6 DEF EndInitial, Reading
    <3> QED BY <1>4, <3>1
  <2> HIDE DEF e
  <2>5. CASE s.staging = None
    <3>1. t = s /\ x.pc = "reading" /\ x.body.phase = "changes"
      BY <2>1, <2>2, <2>3, <2>4, <2>5 DEF Checkpointed
    <3> HIDE DEF x, t, next, s, body
    <3> QED BY <2>4, <2>5, <3>1
            DEF Stands, CacheStands, BodyStands, StagingStands, RequestStands, HasSynced
  <2>6. CASE s.staging # None
    <3>1. /\ x.pc = "acquisition" /\ x.body.phase = "changes" /\ x.body.at = body.at
          /\ t = Listed(s, s.staging, body.at)
      BY <2>1, <2>2, <2>3, <2>6
    <3>2. /\ t.state = "live" /\ t.checkpoint = body.at /\ t.objects = s.staging
          /\ t.staging = None
      BY <3>1 DEF Listed
    <3>3. Sent(body) = history[body.at]
      <4>1. history[body.at] \in Cache
        BY <1>1, <2>1
      <4> HIDE DEF body
      <4> QED BY <2>1, <4>1 DEF Sent, Cache
    <3>4. body.at # None
      BY <2>1, NoneAssumption DEF Version
    <3> HIDE DEF x, t, next, s, body
    <3> QED BY <2>4, <2>6, <3>1, <3>2, <3>3, <3>4
            DEF Stands, CacheStands, BodyStands, StagingStands, RequestStands, HasSynced
  <2> QED BY <2>5, <2>6
<1>7. CASE Deliver(Alone)
  <2>1. body.phase \in {"changes", "unversioned"}
    BY <1>7 DEF Deliver, SendsChanges, Reading
  <2>2. PICK v \in 1..Now, k \in Keys, class \in ChangeClass, o \in Object :
          LET next == [body EXCEPT !.at = v]
          IN  /\ o.rv = v
              /\ history[v] = [history[body.at] EXCEPT ![k] = IF class = "deleted"
                                                             THEN None ELSE o]
              /\ next \in Body /\ next.phase = body.phase /\ next.at = v /\ BodyIsReal(next)
              /\ EntryIsSound(ObserveEvent(slot, Change(class, k, o)))
              /\ Apply(Alone, Change(class, k, o), next)
    BY <1>1, <1>2, <1>7, DeliverEvent
  <2> DEFINE next == [body EXCEPT !.at = v]
             e == Change(class, k, o)
  <2>3. /\ next.phase = body.phase /\ next.at = v /\ o.rv = v
        /\ EntryIsSound(ObserveEvent(slot, e)) /\ Apply(Alone, e, next)
        /\ history[v] = [history[body.at] EXCEPT ![k] = IF class = "deleted" THEN None ELSE o]
    BY <2>2
  <2>4. /\ x.pc = IF Reception(s, e) = "synchronised" THEN "acquisition" ELSE "reading"
        /\ x.body = next /\ t = Observe(s, e)
    <3> HIDE DEF e, next
    <3> QED BY <2>3, ApplyMoves
  <2>5. LET u == Observe(s, e)
        IN  /\ u \in WatchStream
            /\ Reception(s, e) = IF class = "added" /\ s.staging # None THEN "staged"
                                  ELSE IF s.state = "live" THEN "applied" ELSE "discarded"
            /\ Reception(s, e) = "staged" =>
                  /\ u.state = s.state /\ u.checkpoint = s.checkpoint
                  /\ u.objects = s.objects /\ u.pending_writes = s.pending_writes
                  /\ u.staging = [s.staging EXCEPT ![k] = o]
            /\ Reception(s, e) = "discarded" => u = s
            /\ Reception(s, e) = "applied" =>
                  /\ u.state = s.state /\ u.checkpoint = o.rv
                  /\ u.staging = s.staging
                  /\ u.pending_writes = s.pending_writes \ {k}
                  /\ u.objects = [s.objects EXCEPT ![k] = IF class = "deleted" THEN None ELSE o]
    <3> HIDE DEF s
    <3> QED BY <1>1, ChangeEffect
  <2> HIDE DEF e
  <2>6. s.staging = None
    BY <1>4, <2>1
  <2>7. CASE s.state = "live"
    <3>1. body.phase = "changes" /\ s.objects = history[body.at]
      BY <1>4, <2>7 DEF HasSynced
    <3>2. /\ t.state = "live" /\ t.checkpoint = v /\ t.staging = None /\ t.objects = history[v]
          /\ x.pc = "reading" /\ x.body.phase = "changes" /\ x.body.at = v
      BY <2>3, <2>4, <2>5, <2>6, <2>7, <3>1
    <3>3. v # None
      BY <1>1, NoneAssumption DEF Version
    <3> HIDE DEF x, t, next, s, body
    <3> QED BY <3>2, <3>3
            DEF Stands, CacheStands, BodyStands, StagingStands, RequestStands, HasSynced
  <2>8. CASE s.state # "live"
    <3>1. ~ HasSynced(s) /\ t = s /\ x.pc = "reading" /\ x.body.phase = body.phase
      BY <1>4, <2>3, <2>4, <2>5, <2>6, <2>8
    <3> HIDE DEF x, t, next, s, body
    <3> QED BY <2>1, <2>6, <2>8, <3>1
            DEF Stands, CacheStands, BodyStands, StagingStands, RequestStands, HasSynced
  <2> QED BY <2>7, <2>8
<1>8. CASE SendBookmark(Alone)
  <2>1. body.phase \in {"changes", "unversioned"}
    BY <1>8 DEF SendBookmark, SendsChanges, Reading
  <2>2. PICK v \in 1..Now :
          LET next == [body EXCEPT !.at = v]
          IN  /\ v \in Version /\ history[v] = history[body.at]
              /\ next \in Body /\ next.phase = body.phase /\ next.at = v /\ BodyIsReal(next)
              /\ EntryIsSound(ObserveEvent(slot, Bookmark(v)))
              /\ Apply(Alone, Bookmark(v), next)
    BY <1>1, <1>2, <1>8, SendBookmarkEvent
  <2> DEFINE next == [body EXCEPT !.at = v]
             e == Bookmark(v)
  <2>3. /\ v \in Version /\ history[v] = history[body.at]
        /\ next.phase = body.phase /\ next.at = v
        /\ EntryIsSound(ObserveEvent(slot, e)) /\ Apply(Alone, e, next)
    BY <2>2
  <2>4. /\ x.pc = IF Reception(s, e) = "synchronised" THEN "acquisition" ELSE "reading"
        /\ x.body = next /\ t = Observe(s, e)
    <3> HIDE DEF e, next
    <3> QED BY <2>3, ApplyMoves
  <2>5. Observe(s, e) = Checkpointed(s, v) /\ Reception(s, e) \in {"checkpointed", "discarded"}
    <3> HIDE DEF s
    <3> QED BY <1>1, <2>3, BookmarkEffect
  <2> HIDE DEF e
  <2>6. s.staging = None
    BY <1>4, <2>1
  <2>7. CASE s.state = "live"
    <3>1. body.phase = "changes" /\ s.objects = history[body.at]
      BY <1>4, <2>7 DEF HasSynced
    <3>2. t = [s EXCEPT !.checkpoint = v]
      BY <2>4, <2>5, <2>7 DEF Checkpointed
    <3>3. t.state = "live" /\ t.checkpoint = v /\ t.staging = None /\ t.objects = s.objects
      <4> HIDE DEF s, t
      <4> QED BY <1>1, <2>6, <2>7, <3>2 DEF WatchStream
    <3>4. x.pc = "reading" /\ x.body.phase = "changes" /\ x.body.at = v
      BY <2>3, <2>4, <2>5, <3>1
    <3>5. v # None
      BY <2>3, NoneAssumption DEF Version
    <3> HIDE DEF x, t, next, s, body
    <3> QED BY <2>3, <3>1, <3>3, <3>4, <3>5
            DEF Stands, CacheStands, BodyStands, StagingStands, RequestStands, HasSynced
  <2>8. CASE s.state # "live"
    <3>1. ~ HasSynced(s) /\ t = s /\ x.pc = "reading" /\ x.body.phase = body.phase
      BY <1>4, <2>3, <2>4, <2>5, <2>8 DEF Checkpointed
    <3> HIDE DEF x, t, next, s, body
    <3> QED BY <2>1, <2>6, <2>8, <3>1
            DEF Stands, CacheStands, BodyStands, StagingStands, RequestStands, HasSynced
  <2> QED BY <2>7, <2>8
<1> QED BY <1>5, <1>6, <1>7, <1>8

(* An error takes the stream's word for its cache, or suspends it.         *)
LEMMA StreamBreaks ==
  ASSUME SInv, Readers = {Alone},
         \/ OpenExpired(Alone) \/ OpenDenied(Alone) \/ Interrupt(Alone) \/ BreakBody(Alone)
  PROVE  Stands(reader'[Alone], EntryFor(slot').stream)
<1> DEFINE a == reader[Alone]
           s == Stream
           x == reader'[Alone]
           t == EntryFor(slot').stream
<1> SUFFICES Stands(x, t)
  OBVIOUS
<1>1. /\ Alone \in Readers /\ reader \in [Readers -> Reader] /\ a \in Reader
      /\ s \in WatchStream /\ EntryIsSound(EntryFor(slot)) /\ NoBody.phase = "closed"
  BY AloneType DEF NoBody
<1>2. Stands(a, s)
  BY DEF SInv
<1>3. PICK failure \in {"interrupted", "expired", "denied"} :
        /\ slot' = ObserveEvent(slot, Error(failure))
        /\ failure = "interrupted" => Interrupt(Alone)
  BY DEF OpenExpired, OpenDenied, Interrupt, BreakBody, Break
<1>4. x.pc = "abandon" /\ x.body = NoBody
  BY <1>1 DEF OpenExpired, OpenDenied, Interrupt, BreakBody, Break, Reader
<1>5. t = Observe(s, Error(failure))
  <2>1. EntryIsSound(slot')
    BY <1>1, <1>3, ErrorIsSound
  <2>2. EntryFor(slot') = slot'
    BY <2>1, EntryType DEF EntryIsSound
  <2>3. ObserveEvent(slot, Error(failure)).stream = Observe(EntryFor(slot).stream, Error(failure))
    BY EntryObserves
  <2> QED BY <1>3, <2>2, <2>3 DEF Stream
<1>6. /\ t.objects = s.objects
      /\ failure = "interrupted" =>
           /\ t.state = IF s.state = "live" THEN "reconnecting" ELSE s.state
           /\ t.checkpoint = s.checkpoint
           /\ t.staging = s.staging
      /\ failure # "interrupted" =>
           /\ t.state \in {"gap_detected", "denied"}
           /\ t.staging = None
  <2> DEFINE u == Observe(s, Error(failure))
  <2>1. /\ u \in WatchStream
        /\ u.objects = s.objects
        /\ u.pending_writes = s.pending_writes
        /\ Reception(s, Error(failure)) \in {"suspended", "continuity_broken"}
        /\ failure = "interrupted" =>
             /\ u.state = IF s.state = "live" THEN "reconnecting" ELSE s.state
             /\ u.checkpoint = s.checkpoint
             /\ u.staging = s.staging
        /\ failure # "interrupted" =>
             /\ u.state \in {"gap_detected", "denied"}
             /\ u.checkpoint \in {s.checkpoint, None}
             /\ u.staging = None
    <3> HIDE DEF s
    <3> QED BY <1>1, ErrorEffect
  <2> HIDE DEF u
  <2>2. t = u
    BY <1>5 DEF u
  <2> QED BY <2>1, <2>2
<1>7. CASE failure = "interrupted"
  <2>1. a.pc = "reading"
    BY <1>3, <1>7 DEF Interrupt, At
  <2> HIDE DEF a, s, x, t
  <2> QED BY <1>1, <1>2, <1>4, <1>6, <1>7, <2>1
          DEF Stands, CacheStands, BodyStands, StagingStands, RequestStands, HasSynced
<1>8. CASE failure # "interrupted"
  <2> HIDE DEF a, s, x, t
  <2> QED BY <1>1, <1>4, <1>6, <1>8
          DEF Stands, CacheStands, BodyStands, StagingStands, RequestStands, HasSynced
<1> QED BY <1>7, <1>8

(* A listing, and the methods an invocation calls between its responses.   *)
LEMMA StreamIsCalled ==
  ASSUME SInv, Readers = {Alone},
         \/ Begin(Alone) \/ Synchronise(Alone) \/ Abandon(Alone) \/ Reconnect(Alone)
         \/ Close(Alone)
  PROVE  Stands(reader'[Alone], EntryFor(slot').stream)
<1> DEFINE a == reader[Alone]
           s == Stream
           x == reader'[Alone]
           t == EntryFor(slot').stream
<1> SUFFICES Stands(x, t)
  OBVIOUS
<1>1. /\ Alone \in Readers /\ reader \in [Readers -> Reader] /\ a \in Reader
      /\ VersionsAreReal(a) /\ s \in WatchStream
      /\ EntryIsSound(EntryFor(slot)) /\ EntryFor(slot) \in Watched
      /\ slot \in Watched \cup {None}
      /\ Now \in Nat /\ \A v \in 1..Now : v \in Version /\ history[v] \in Cache
  BY AloneType DEF EntryIsSound
<1>2. Stands(a, s)
  BY DEF SInv
<1>3. ASSUME NEW u \in {BeginStreamingList(s), AbandonStreamingList(s), Reconnected(s)},
             slot' = OnStream(slot, u)
      PROVE  t = u
  <2>1. u \in WatchStream
    <3> HIDE DEF s
    <3> QED BY <1>1, <1>3, MethodEffects
  <2>2. slot' \in Watched /\ slot'.stream = u
    BY <1>1, <1>3, <2>1 DEF OnStream, Watched
  <2> QED BY <2>2, EntryType
<1>4. CASE Begin(Alone)
  <2>1. t = BeginStreamingList(s)
    BY <1>3, <1>4 DEF Begin, Stream
  <2>2. a.pc = "begin" /\ x.body = a.body /\ x.pc = IF s.state = "denied" THEN "close" ELSE "round"
    BY <1>1, <1>4 DEF Begin, At, Goto, Reader, Stream
  <2>3. /\ t.state = s.state /\ t.checkpoint = s.checkpoint /\ t.objects = s.objects
        /\ t.staging = IF s.state \in {"syncing", "gap_detected"} THEN EmptyCache ELSE s.staging
    <3> HIDE DEF s
    <3> QED BY <1>1, <2>1 DEF BeginStreamingList, WatchStream
  <2>4. s.state \in SyncState
    BY <1>1 DEF WatchStream
  <2> HIDE DEF a, s, x, t
  <2> QED BY <1>2, <2>2, <2>3, <2>4
          DEF Stands, CacheStands, BodyStands, StagingStands, RequestStands, HasSynced, SyncState
<1>5. CASE Synchronise(Alone)
  <2> DEFINE v == a.listing
  <2>1. a.pc = "synchronise" /\ x.pc = "acquisition" /\ x.body = a.body /\ x.listing = v
    BY <1>1, <1>5 DEF Synchronise, At, Goto, Reader
  <2>2. v \in 1..Now /\ v # None
    BY <1>1, <2>1 DEF VersionsAreReal
  <2>3. slot' = [stream |-> Listed(s, history[v], v), index |-> Rebuilt(history[v])]
    BY <1>5 DEF Synchronise, Synchronised, Stream
  <2>4. slot' \in Watched /\ slot'.stream = Listed(s, history[v], v)
    <3>1. history[v] \in Cache
      BY <1>1, <2>2
    <3> HIDE DEF v, s
    <3> QED BY <1>1, <2>2, <2>3, <3>1, AcquiredIsSound
  <2>5. t = Listed(s, history[v], v)
    BY <2>4, EntryType
  <2>6. /\ t.state = "live" /\ t.checkpoint = v /\ t.objects = history[v] /\ t.staging = None
    BY <2>5 DEF Listed
  <2> HIDE DEF a, s, x, t, v
  <2> QED BY <1>2, <2>1, <2>2, <2>6
          DEF Stands, CacheStands, BodyStands, StagingStands, RequestStands, HasSynced
<1>6. CASE Abandon(Alone)
  <2>1. a.pc = "abandon" /\ x.body = a.body /\ x.pc \in {"refuse", "state"}
    BY <1>1, <1>6 DEF Abandon, At, Goto, Reader
  <2>2. /\ t.state = s.state /\ t.checkpoint = s.checkpoint /\ t.objects = s.objects
        /\ t.staging = None
        /\ s.staging = None => x.pc = "state"
    <3>1. CASE slot # None /\ IsStreamingList(slot.stream)
      <4>1. s = slot.stream /\ s.staging # None
        BY <3>1 DEF Stream, EntryFor, IsStreamingList
      <4>2. t = AbandonStreamingList(s)
        BY <1>3, <1>6, <3>1, <4>1 DEF Abandon
      <4> HIDE DEF s, t
      <4> QED BY <1>1, <4>1, <4>2 DEF AbandonStreamingList, WatchStream
    <3>2. CASE ~ (slot # None /\ IsStreamingList(slot.stream))
      <4>1. t = s /\ x.pc = "state"
        BY <1>1, <1>6, <3>2 DEF Abandon, Goto, Reader, Stream
      <4>2. s.staging = None
        BY <3>2 DEF Stream, EntryFor, IsStreamingList, NewWatched, NewStream
      <4> QED BY <4>1, <4>2
    <3> QED BY <3>1, <3>2
  <2> HIDE DEF a, s, x, t
  <2> QED BY <1>2, <2>1, <2>2
          DEF Stands, CacheStands, BodyStands, StagingStands, RequestStands, HasSynced
<1>7. CASE Reconnect(Alone)
  <2>1. t = Reconnected(s)
    BY <1>3, <1>7 DEF Reconnect, Stream
  <2>2. a.pc = "reconnect" /\ x.body = a.body /\ x.pc = IF CanReconnect(s) THEN "round" ELSE "close"
    BY <1>1, <1>7 DEF Reconnect, At, Goto, Reader, Stream
  <2>3. /\ t.checkpoint = s.checkpoint /\ t.objects = s.objects /\ t.staging = s.staging
        /\ t.state = IF CanReconnect(s) THEN "live" ELSE s.state
    <3> HIDE DEF s
    <3> QED BY <1>1, <2>1 DEF Reconnected, WatchStream
  <2> HIDE DEF a, s, x, t
  <2> QED BY <1>2, <2>2, <2>3
          DEF Stands, CacheStands, BodyStands, StagingStands, RequestStands, HasSynced, CanReconnect
<1>8. CASE Close(Alone)
  <2>1. a.pc = "close" /\ x.body = a.body /\ x.pc = "idle"
    BY <1>1, <1>8 DEF Close, At, Reader
  <2>2. CASE slot # None /\ AbsenceIsConclusive(slot.stream)
    <3>1. t = s /\ s.state = "live"
      BY <1>8, <2>2 DEF Close, ViewClosed, Stream, EntryFor, AbsenceIsConclusive
    <3> HIDE DEF a, s, x, t
    <3> QED BY <1>2, <2>1, <3>1
            DEF Stands, CacheStands, BodyStands, StagingStands, RequestStands, HasSynced
  <2>3. CASE ~ (slot # None /\ AbsenceIsConclusive(slot.stream))
    <3>1. t = NewStream
      BY <1>8, <2>3 DEF Close, ViewClosed, EntryFor, NewWatched
    <3>2. t.state = "syncing" /\ t.staging = None
      BY <3>1 DEF NewStream
    <3> HIDE DEF a, s, x, t
    <3> QED BY <1>2, <2>1, <3>2
            DEF Stands, CacheStands, BodyStands, StagingStands, RequestStands, HasSynced
  <2> QED BY <2>2, <2>3
<1> QED BY <1>4, <1>5, <1>6, <1>7, <1>8

(* A step of the server, and a write of this session, which leaves the     *)
(* stream its cache or drops a stream that is not live.                    *)
LEMMA StreamIsLeft ==
  ASSUME SInv, Readers = {Alone}, ServerNext, reader' = reader,
         NEW t, \/ /\ t.state = Stream.state /\ t.checkpoint = Stream.checkpoint
                   /\ t.objects = Stream.objects /\ t.staging = Stream.staging
                \/ t = NewStream /\ Stream.state # "live"
  PROVE  /\ CacheStands(t)' /\ BodyStands(reader[Alone], t)
         /\ StagingStands(reader[Alone], t)' /\ RequestStands(reader[Alone], t)
<1> DEFINE a == reader[Alone]
           s == Stream
<1>1. /\ VersionsAreReal(a)
      /\ s.checkpoint # None => s.checkpoint \in 1..Now
  BY AloneType
<1>2. Stands(a, s)
  BY DEF SInv
<1>3. \A v \in 1..Now : history'[v] = history[v]
  BY ServerGrows DEF SInv, XInv, TypeOK
<1>4. reader'[Alone] = a
  OBVIOUS
<1>5. BodyIsReal(a.body) => Sent(a.body)' = Sent(a.body)
  <2>1. reader' = reader
    OBVIOUS
  <2> QED BY <1>3, <2>1 DEF Sent, BodyIsReal
<1>6. a.pc = "reading" => BodyIsReal(a.body)
  <2> HIDE DEF a
  <2> QED BY <1>1, <1>2 DEF VersionsAreReal, Stands, BodyStands
<1>7. CASE t = NewStream /\ s.state # "live"
  <2>1. t.state = "syncing" /\ t.staging = None
    BY <1>7 DEF NewStream
  <2> QED BY <1>2, <1>7, <2>1
          DEF Stands, CacheStands, BodyStands, StagingStands, RequestStands, HasSynced
<1>8. CASE /\ t.state = s.state /\ t.checkpoint = s.checkpoint
           /\ t.objects = s.objects /\ t.staging = s.staging
  <2>1. CacheStands(t)'
    <3>1. HasSynced(s) => s.objects = history'[s.checkpoint]
      BY <1>1, <1>2, <1>3 DEF Stands, CacheStands
    <3> QED BY <1>2, <1>8, <3>1 DEF Stands, CacheStands, HasSynced
  <2>2. BodyStands(a, t) /\ RequestStands(a, t)
    BY <1>2, <1>8 DEF Stands, BodyStands, RequestStands, HasSynced
  <2>3. StagingStands(reader[Alone], t)'
    BY <1>2, <1>4, <1>5, <1>6, <1>8 DEF Stands, StagingStands
  <2> QED BY <2>1, <2>2, <2>3
<1> QED BY <1>7, <1>8

(* The invariant of an invocation that is alone holds at first.            *)
LEMMA InitSInv == ASSUME Readers = {Alone} PROVE Init => SInv
<1> SUFFICES ASSUME Init PROVE SInv
  OBVIOUS
<1>1. Stream.state = "syncing" /\ Stream.staging = None
  BY DEF Init, Stream, EntryFor, NewWatched, NewStream
<1>2. reader[Alone].pc = "idle" /\ reader[Alone].body.phase = "closed"
  BY DEF Init, NoBody
<1>3. Stands(reader[Alone], Stream)
  BY <1>1, <1>2 DEF Stands, CacheStands, BodyStands, StagingStands, RequestStands, HasSynced
<1> QED BY <1>3, InitXInv DEF SInv

(* No step of an invocation writes to the server.                          *)
LEMMA ReadersOnlyRead ==
  ASSUME NEW r, ReaderStep(r)
  PROVE  UNCHANGED server
<1>1. CASE \/ Acquire(r) \/ Begin(r) \/ Synchronise(r) \/ SyncRefused(r) \/ Acquisition(r)
           \/ Round(r) \/ Open(r) \/ OpenDeclined(r)
  BY <1>1 DEF Acquire, Begin, Synchronise, SyncRefused, Acquisition, Round, Open, OpenDeclined
<1>2. CASE \/ OpenExpired(r) \/ OpenDenied(r) \/ EndBody(r) \/ Interrupt(r) \/ BreakBody(r)
  BY <1>2 DEF OpenExpired, OpenDenied, EndBody, Interrupt, BreakBody, Break
<1>3. CASE SendInitial(r) \/ EndInitial(r) \/ Deliver(r) \/ SendBookmark(r)
  <2>1. \E event, next : Apply(r, event, next)
    BY <1>3 DEF SendInitial, EndInitial, Deliver, SendBookmark
  <2> QED BY <2>1 DEF Apply
<1>4. CASE \/ Abandon(r) \/ Refuse(r) \/ Relist(r) \/ MatchState(r) \/ Reconnect(r)
           \/ Stop(r) \/ Close(r)
  BY <1>4 DEF Abandon, Refuse, Relist, MatchState, Reconnect, Stop, Close
<1> QED BY <1>1, <1>2, <1>3, <1>4 DEF ReaderStep

(* Every step keeps it.                                                    *)
LEMMA SInvStep == ASSUME Readers = {Alone} PROVE SInv /\ [Next]_vars => SInv'
<1> SUFFICES ASSUME SInv, [Next]_vars PROVE SInv'
  OBVIOUS
<1>1. XInv'
  BY XInvStep DEF SInv
<1>2. /\ slot \in Watched \cup {None} /\ Stream \in WatchStream
      /\ EntryIsSound(EntryFor(slot))
  BY AloneType
<1>3. SUFFICES Stands(reader[Alone], Stream)'
  BY <1>1 DEF SInv
<1>4. ASSUME UNCHANGED server, Stands(reader'[Alone], EntryFor(slot').stream)
      PROVE  Stands(reader[Alone], Stream)'
  <2>1. history' = history
    BY <1>4 DEF server
  <2>2. \A body : Sent(body)' = Sent(body)
    BY <2>1 DEF Sent
  <2> QED BY <1>4, <2>1, <2>2
          DEF Stands, CacheStands, BodyStands, StagingStands, RequestStands, Stream
<1>5. ASSUME ReaderStep(Alone)
      PROVE  Stands(reader[Alone], Stream)'
  <2>1. UNCHANGED server
    BY <1>5, ReadersOnlyRead
  <2>2. Stands(reader'[Alone], EntryFor(slot').stream)
    BY <1>5, StreamStands, StreamIsFed, StreamBreaks, StreamIsCalled DEF ReaderStep
  <2> QED BY <1>4, <2>1, <2>2
<1>6. ASSUME ServerNext, reader' = reader,
             LET t == EntryFor(slot').stream
             IN  \/ /\ t.state = Stream.state /\ t.checkpoint = Stream.checkpoint
                    /\ t.objects = Stream.objects /\ t.staging = Stream.staging
                 \/ t = NewStream /\ Stream.state # "live"
      PROVE  Stands(reader[Alone], Stream)'
  <2> DEFINE t == EntryFor(slot').stream
  <2>1. \/ /\ t.state = Stream.state /\ t.checkpoint = Stream.checkpoint
           /\ t.objects = Stream.objects /\ t.staging = Stream.staging
        \/ t = NewStream /\ Stream.state # "live"
    BY <1>6
  <2>2. Stream' = t
    BY DEF Stream
  <2> QED BY <1>6, <2>1, <2>2, StreamIsLeft
          DEF Stands, CacheStands, BodyStands, StagingStands, RequestStands
<1>7. CASE ServerStep
  <2>1. ServerNext /\ reader' = reader /\ slot' = slot
    BY <1>7 DEF ServerStep, session
  <2>2. EntryFor(slot').stream = Stream
    BY <2>1 DEF Stream
  <2> QED BY <1>6, <2>1, <2>2
<1>8. ASSUME NEW k \in Keys, OwnWrite(k) PROVE Stands(reader[Alone], Stream)'
  <2>1. ServerNext /\ reader' = reader /\ slot' = Mutated(slot, k)
    BY <1>8 DEF OwnWrite, ServerNext
  <2>2. CASE slot = None \/ ~ AbsenceIsConclusive(slot.stream)
    <3>1. EntryFor(slot').stream = NewStream
      BY <2>1, <2>2 DEF Mutated, EntryFor, NewWatched
    <3>2. Stream.state # "live"
      BY <2>2 DEF Stream, EntryFor, NewWatched, NewStream, AbsenceIsConclusive
    <3> QED BY <1>6, <2>1, <3>1, <3>2
  <2>3. CASE ~ (slot = None \/ ~ AbsenceIsConclusive(slot.stream))
    <3>1. Stream = slot.stream
      BY <2>3 DEF Stream, EntryFor
    <3>2. slot' \in Watched
      <4>1. slot' \in Watched \cup {None}
        BY <1>2, <2>1, MutatedIsSound
      <4>2. slot' = [stream |-> Written(slot.stream, k), index |-> Retracted(slot.index, k)]
        BY <2>1, <2>3 DEF Mutated
      <4>3. Written(slot.stream, k) \in WatchStream
        BY <1>2, <3>1 DEF Written, WatchStream
      <4>4. slot.index \in Index
        BY <1>2, <2>3 DEF Watched
      <4>5. Retracted(slot.index, k) \in Index
        BY <4>4 DEF Retracted, Index, Cache
      <4> QED BY <4>2, <4>3, <4>5 DEF Watched
    <3>3. EntryFor(slot').stream = Written(Stream, k)
      BY <2>1, <2>3, <3>1, <3>2, EntryType DEF Mutated
    <3>4. LET t == Written(Stream, k)
          IN  /\ t.state = Stream.state /\ t.checkpoint = Stream.checkpoint
              /\ t.objects = Stream.objects /\ t.staging = Stream.staging
      BY <1>2 DEF Written, WatchStream
    <3> QED BY <1>6, <2>1, <3>3, <3>4
  <2> QED BY <2>2, <2>3
<1>9. CASE UNCHANGED vars
  <2>1. UNCHANGED server /\ reader' = reader /\ slot' = slot
    BY <1>9 DEF vars, session
  <2> QED BY <1>4, <2>1 DEF SInv, Stream
<1> QED BY <1>5, <1>7, <1>8, <1>9 DEF Next

(* An invocation that is alone with its collection: the stream stands      *)
(* where its cache says, the body where the stream does, and what is       *)
(* staged is what the body sent.                                           *)
THEOREM AloneInvariant ==
  ASSUME \E r : Readers = {r}
  PROVE  Spec => []SInv
<1>1. Readers = {Alone}
  BY DEF Alone
<1>2. Init => SInv
  BY <1>1, InitSInv
<1>3. SInv /\ [Next]_vars => SInv'
  BY <1>1, SInvStep
<1> QED BY <1>2, <1>3, PTL DEF Spec

(* §20.3: what the cache answers of a name is what the collection held at  *)
(* the stream's checkpoint, through the writes of this session, the breaks *)
(* of the stream and the invocations that come after one another.          *)
THEOREM AnswersHold ==
  ASSUME \E r : Readers = {r}
  PROVE  Spec => []AnswersAreOfTheCheckpoint
<1>1. SInv => AnswersAreOfTheCheckpoint
  <2> SUFFICES ASSUME SInv, NEW k \in Keys,
                      Lookup(slot, k) \in {"cached", "confirmed_absent"}
               PROVE  /\ slot.stream.checkpoint \in 1..Now
                      /\ IF Lookup(slot, k) = "cached"
                         THEN slot.stream.objects[k] = history[slot.stream.checkpoint][k]
                         ELSE history[slot.stream.checkpoint][k] = None
    BY DEF AnswersAreOfTheCheckpoint
  <2>1. slot # None /\ slot.stream.state = "live" /\ ~ IsPendingWrite(slot.stream, k)
    BY DEF Lookup, AbsenceIsConclusive
  <2>2. Stream = slot.stream
    BY <2>1 DEF Stream, EntryFor
  <2>3. /\ slot.stream.checkpoint # None
        /\ slot.stream.objects = history[slot.stream.checkpoint]
    BY <2>1, <2>2 DEF SInv, Stands, CacheStands, HasSynced
  <2>4. slot.stream.checkpoint \in 1..Now
    BY <2>2, <2>3 DEF SInv, XInv, EntryIsSound, Stream
  <2>5. Lookup(slot, k) = "confirmed_absent" => slot.stream.objects[k] = None
    BY <2>1 DEF Lookup, AbsenceIsConclusive, Find
  <2> QED BY <2>3, <2>4, <2>5
<1> QED BY <1>1, AloneInvariant, PTL

(* §19.2: the bookmark that ends a streaming list makes the cache the      *)
(* collection at its version, whole, whatever came before it.              *)
THEOREM StreamedWhole ==
  ASSUME \E r : Readers = {r}
  PROVE  Spec => StreamedListIsWhole
<1>1. Readers = {Alone}
  BY DEF Alone
<1>2. SInv /\ [Next]_vars =>
        [ \A r \in Readers :
            EndInitial(r) /\ ReceptionOf(slot, InitialEventsEnd(reader[r].body.at)) = "synchronised"
              => slot'.stream.objects = history[reader[r].body.at] ]_vars
  <2> SUFFICES ASSUME SInv, EndInitial(Alone),
                      ReceptionOf(slot, InitialEventsEnd(reader[Alone].body.at)) = "synchronised"
               PROVE  slot'.stream.objects = history[reader[Alone].body.at]
    BY <1>1
  <2> DEFINE body == reader[Alone].body
             e == InitialEventsEnd(body.at)
  <2>1. XInv /\ Alone \in Readers /\ Stream \in WatchStream
    BY <1>1, AloneType DEF SInv
  <2>2. /\ body.at \in 1..Now /\ body.at \in Version /\ body.todo = {}
        /\ Apply(Alone, e, [body EXCEPT !.phase = "changes"])
    BY <2>1, EndInitialEvent
  <2>3. slot'.stream = Observe(Stream, e)
    BY <2>2, EntryObserves DEF Apply, Stream
  <2>4. /\ Observe(Stream, e) = IF Stream.staging # None THEN Listed(Stream, Stream.staging, body.at)
                                ELSE Checkpointed(Stream, body.at)
        /\ Stream.staging = None => Reception(Stream, e) \in {"checkpointed", "discarded"}
    <3> HIDE DEF body
    <3> QED BY <2>1, <2>2, EndEffect
  <2>5. Stream.staging # None
    BY <2>4 DEF ReceptionOf, Stream
  <2>6. slot'.stream.objects = Stream.staging
    BY <2>3, <2>4, <2>5 DEF Listed
  <2>7. Stream.staging = Sent(body)
    BY <2>5 DEF SInv, Stands, StagingStands, EndInitial, Reading, At
  <2>8. Sent(body) = history[body.at]
    <3>1. history[body.at] \in Cache
      BY <1>1, <2>2, AloneType
    <3> HIDE DEF body
    <3> QED BY <2>2, <3>1 DEF Sent, Cache
  <2> QED BY <2>6, <2>7, <2>8
<1> QED BY <1>2, AloneInvariant, PTL DEF Spec, StreamedListIsWhole

-----------------------------------------------------------------------------
(* The records of an invocation that found no stream: it reports what it   *)
(* acquires and then all that is applied, so what it has told is what the  *)
(* cache holds.                                                            *)
Following == {"round", "open", "reading", "abandon", "state", "reconnect"}

RecordsStand(x, s) ==
  /\ x.seen.at # 0 => x.seen.at \in 1..Now /\ x.seen.objects = history[x.seen.at]
  /\ x.seen.at = 0 => x.seen = NothingSeen
  /\ x.pc \in {"begin", "synchronise", "acquisition", "refuse", "relist"}
       => x.seen = NothingSeen
  /\ s.state = "gap_detected" \/ s.staging # None => x.seen = NothingSeen
  /\ x.pc \in Following /\ HasSynced(s) => x.seen.objects = s.objects

(* The only invocation there is finds no stream when it begins.            *)
FindsNoStream(x) ==
  /\ x.left \in {0, 1}
  /\ x.left = 1 => x.pc = "idle"
  /\ x.left = 1 \/ x.pc = "begin" => slot = None

RInv == SInv /\ RecordsStand(reader[Alone], Stream) /\ FindsNoStream(reader[Alone])

(* The steps that leave the stream alone.                                  *)
LEMMA StreamUntouched ==
  ASSUME SInv, Readers = {Alone},
         \/ Acquire(Alone) \/ SyncRefused(Alone) \/ Acquisition(Alone) \/ Round(Alone)
         \/ Open(Alone) \/ OpenDeclined(Alone) \/ EndBody(Alone) \/ Relist(Alone)
         \/ Stop(Alone) \/ Refuse(Alone) \/ MatchState(Alone)
  PROVE  EntryFor(slot').stream = Stream
<1>1. slot \in Watched \cup {None} /\ EntryIsSound(EntryFor(slot))
  BY AloneType
<1>2. slot' \in {slot, EntryFor(slot)}
  BY DEF Acquire, SyncRefused, Acquisition, Round, Open, Opened, OpenDeclined, EndBody, Relist,
         Stop, Refuse, MatchState, session
<1> QED BY <1>1, <1>2, EntryType, NewEntry DEF EntryFor, EntryIsSound, Stream

(* An invocation begins with `Acquire` and with nothing else.              *)
LEMMA GoesOn ==
  ASSUME SInv, Readers = {Alone}, ReaderStep(Alone)
  PROVE  \/ Acquire(Alone)
         \/ /\ reader'[Alone].left = reader[Alone].left
            /\ reader[Alone].pc # "idle" /\ reader'[Alone].pc # "begin"
<1> DEFINE a == reader[Alone]
           x == reader'[Alone]
<1>1. /\ Alone \in Readers /\ reader \in [Readers -> Reader] /\ a \in Reader
  BY AloneType
<1>2. ASSUME NEW place \in Place \ {"begin"}, Goto(Alone, place)
      PROVE  x.left = a.left /\ x.pc # "begin"
  BY <1>1, <1>2 DEF Goto, Reader
<1>3. ASSUME NEW e, NEW body, Apply(Alone, e, body)
      PROVE  x.left = a.left /\ x.pc # "begin"
  BY <1>1, <1>3 DEF Apply, Reader
<1>4. CASE SyncRefused(Alone) \/ Acquisition(Alone) \/ Round(Alone) \/ Open(Alone)
  <2>1. x.left = a.left
    BY <1>1, <1>4 DEF SyncRefused, Acquisition, Round, Open, Opened, Reader
  <2>2. x.pc # "begin"
    BY <1>1, <1>4 DEF SyncRefused, Acquisition, Round, Open, Opened, Reader
  <2> QED BY <1>4, <2>1, <2>2 DEF SyncRefused, Acquisition, Round, Open, At
<1>5. CASE \/ OpenExpired(Alone) \/ OpenDenied(Alone) \/ EndBody(Alone) \/ Interrupt(Alone)
           \/ BreakBody(Alone) \/ Relist(Alone) \/ Stop(Alone) \/ Close(Alone)
  <2>1. x.left = a.left
    BY <1>1, <1>5 DEF OpenExpired, OpenDenied, EndBody, Interrupt, BreakBody, Break, Relist,
                      Stop, Close, Reader
  <2>2. x.pc # "begin"
    BY <1>1, <1>5 DEF OpenExpired, OpenDenied, EndBody, Interrupt, BreakBody, Break, Relist,
                      Stop, Close, Reader
  <2> QED BY <1>5, <2>1, <2>2
          DEF OpenExpired, OpenDenied, EndBody, Interrupt, BreakBody, Relist, Stop, Close, At
<1>6. CASE \/ Begin(Alone) \/ Synchronise(Alone) \/ OpenDeclined(Alone) \/ Abandon(Alone)
           \/ Refuse(Alone) \/ MatchState(Alone) \/ Reconnect(Alone)
  <2>1. \E place \in Place \ {"begin"} : Goto(Alone, place)
    BY <1>6 DEF Begin, Synchronise, OpenDeclined, Abandon, Refuse, MatchState, Reconnect, Place
  <2> QED BY <1>2, <1>6, <2>1
          DEF Begin, Synchronise, OpenDeclined, Abandon, Refuse, MatchState, Reconnect, At
<1>7. CASE SendInitial(Alone) \/ EndInitial(Alone) \/ Deliver(Alone) \/ SendBookmark(Alone)
  <2>1. \E e, body : Apply(Alone, e, body)
    BY <1>7 DEF SendInitial, EndInitial, Deliver, SendBookmark
  <2>2. a.pc = "reading"
    BY <1>7 DEF SendInitial, EndInitial, Deliver, SendBookmark, SendsChanges, Reading, At
  <2> QED BY <1>3, <2>1, <2>2
<1> QED BY <1>4, <1>5, <1>6, <1>7 DEF ReaderStep

(* No invocation is left once one is under way.                            *)
LEMMA NoneIsLeft ==
  ASSUME RInv, Readers = {Alone}, ReaderStep(Alone)
  PROVE  FindsNoStream(reader[Alone])'
<1> DEFINE a == reader[Alone]
           x == reader'[Alone]
<1>1. /\ Alone \in Readers /\ reader \in [Readers -> Reader] /\ a \in Reader
  BY AloneType DEF RInv
<1>2. a.left \in {0, 1} /\ (a.left = 1 => a.pc = "idle") /\ (a.left = 1 \/ a.pc = "begin" => slot = None)
  BY DEF RInv, FindsNoStream
<1>3. CASE Acquire(Alone)
  <2>1. a.left > 0 /\ x.left = a.left - 1 /\ slot' = slot
    BY <1>1, <1>3 DEF Acquire, Reader, session
  <2>2. a.left = 1
    BY <1>2, <2>1
  <2>3. x.left = 0 /\ slot' = None
    BY <1>2, <2>1, <2>2
  <2> QED BY <2>3 DEF FindsNoStream
<1>4. CASE ~ Acquire(Alone)
  <2>1. x.left = a.left /\ a.pc # "idle" /\ x.pc # "begin"
    BY <1>4, GoesOn DEF RInv
  <2> QED BY <1>2, <2>1 DEF FindsNoStream
<1> QED BY <1>3, <1>4

(* They keep what the records say.                                         *)
LEMMA RecordsWhileStreamStands ==
  ASSUME RInv, Readers = {Alone},
         \/ Acquire(Alone) \/ SyncRefused(Alone) \/ Acquisition(Alone) \/ Round(Alone)
         \/ Open(Alone) \/ OpenDeclined(Alone) \/ EndBody(Alone) \/ Relist(Alone)
         \/ Stop(Alone) \/ Refuse(Alone) \/ MatchState(Alone)
  PROVE  RecordsStand(reader'[Alone], EntryFor(slot').stream)
<1> DEFINE a == reader[Alone]
           s == Stream
           x == reader'[Alone]
<1>1. /\ Alone \in Readers /\ reader \in [Readers -> Reader] /\ a \in Reader
      /\ s.checkpoint # None => s.checkpoint \in 1..Now
      /\ Now \in Nat
  BY AloneType DEF RInv
<1>2. RecordsStand(a, s) /\ Stands(a, s)
  BY DEF RInv, SInv
<1>3. SUFFICES RecordsStand(x, s)
  BY StreamUntouched DEF RInv
<1>4. CASE Acquire(Alone)
  <2>1. x.seen = NothingSeen /\ x.pc \in {"begin", "synchronise"}
    BY <1>1, <1>4 DEF Acquire, Reader
  <2> HIDE DEF a, s, x
  <2> QED BY <2>1 DEF RecordsStand, Following, NothingSeen
<1>5. CASE Acquisition(Alone)
  <2> DEFINE reading == a.body.phase # "closed"
             at == IF reading THEN a.body.at ELSE a.listing
  <2>1. a.pc = "acquisition"
    BY <1>5 DEF Acquisition, At
  <2>2. (IF slot = None THEN EmptyCache ELSE slot.stream.objects) = s.objects
    BY DEF Stream, EntryFor, NewWatched, NewStream
  <2>3. /\ x.pc \in {"reading", "round"}
        /\ x.seen = IF s.objects = EmptyCache THEN a.seen ELSE [at |-> at, objects |-> s.objects]
    BY <1>1, <1>5, <2>2 DEF Acquisition, Reader
  <2>4. s.state = "live" /\ s.staging = None
    BY <1>2, <2>1 DEF Stands, RequestStands, CacheStands, HasSynced
  <2>5. s.checkpoint \in 1..Now /\ s.objects = history[s.checkpoint]
    BY <1>1, <1>2, <2>4 DEF Stands, CacheStands, HasSynced
  <2>6. at = s.checkpoint
    <3>1. a.body.phase \in {"closed", "initial", "unversioned", "changes"}
      BY <1>1 DEF Reader, Body
    <3> HIDE DEF a, s
    <3> QED BY <1>2, <2>1, <2>4, <3>1 DEF Stands, BodyStands, RequestStands, HasSynced
  <2>7. a.seen = NothingSeen
    BY <1>2, <2>1 DEF RecordsStand
  <2> HIDE DEF a, s, x, at
  <2>8. CASE s.objects = EmptyCache
    <3>1. x.seen = NothingSeen
      BY <2>3, <2>7, <2>8
    <3> QED BY <2>3, <2>8, <3>1 DEF RecordsStand, NothingSeen
  <2>9. CASE s.objects # EmptyCache
    <3>1. x.seen.at = s.checkpoint /\ x.seen.objects = s.objects
      BY <2>3, <2>6, <2>9
    <3>2. x.seen.at # 0
      BY <1>1, <2>5, <3>1
    <3> QED BY <2>3, <2>4, <2>5, <3>1, <3>2 DEF RecordsStand
  <2> QED BY <2>8, <2>9
<1>6. CASE \/ SyncRefused(Alone) \/ Round(Alone) \/ Open(Alone) \/ OpenDeclined(Alone)
           \/ EndBody(Alone) \/ Stop(Alone) \/ Relist(Alone) \/ Refuse(Alone)
  <2>1. x.seen = a.seen
    BY <1>1, <1>6 DEF SyncRefused, Round, Open, Opened, OpenDeclined, EndBody, Stop, Relist, Refuse,
                      Goto, Reader
  <2>2. \/ x.pc = "close"
        \/ x.pc \in Following /\ a.pc \in Following
        \/ x.pc \in {"synchronise", "relist"} /\ a.pc \in {"relist", "refuse"}
    BY <1>1, <1>6 DEF SyncRefused, Round, Open, Opened, OpenDeclined, EndBody, Stop, Relist, Refuse,
                      Goto, Reader, At, Following
  <2> HIDE DEF a, s, x
  <2> QED BY <1>2, <2>1, <2>2 DEF RecordsStand, Following
<1>7. CASE MatchState(Alone)
  <2>1. a.pc = "state" /\ x.seen = a.seen
    BY <1>1, <1>7 DEF MatchState, Goto, At, Reader
  <2>2. slot'.stream = s
    BY <1>7 DEF MatchState, Stream
  <2>3. \/ x.pc \in {"round", "reconnect", "close"}
        \/ s.state = "gap_detected" /\ x.pc = "relist"
    BY <1>1, <1>7, <2>2 DEF MatchState, Goto, Reader
  <2> HIDE DEF a, s, x
  <2> QED BY <1>2, <2>1, <2>3 DEF RecordsStand, Following
<1> QED BY <1>4, <1>5, <1>6, <1>7

(* What the stream applies is told, and nothing is told while it stages.   *)
LEMMA RecordsWhileFed ==
  ASSUME RInv, Readers = {Alone},
         \/ SendInitial(Alone) \/ EndInitial(Alone) \/ Deliver(Alone) \/ SendBookmark(Alone)
  PROVE  RecordsStand(reader'[Alone], EntryFor(slot').stream)
<1> DEFINE a == reader[Alone]
           s == Stream
           x == reader'[Alone]
           t == EntryFor(slot').stream
           body == a.body
<1> SUFFICES RecordsStand(x, t)
  OBVIOUS
<1>1. /\ Alone \in Readers /\ s \in WatchStream /\ Now \in Nat
      /\ \A v \in 1..Now : v \in Version /\ history[v] \in Cache
  BY AloneType DEF RInv
<1>2. RecordsStand(a, s) /\ XInv
  BY DEF RInv, SInv
<1>3. a.pc = "reading" /\ body \in Body /\ BodyIsReal(body) /\ body.at \in 1..Now
  BY ReadStands DEF RInv
<1>4. \/ /\ s.state = "live" /\ s.staging = None /\ body.phase = "changes"
         /\ s.checkpoint = body.at /\ s.objects = history[body.at]
      \/ /\ ~ HasSynced(s) /\ s.state # "live"
         /\ s.staging # None => body.phase = "initial" /\ s.staging = Sent(body)
  BY ReadStands DEF RInv
(* Nothing is told: the records stand where the cache does.                *)
<1>5. ASSUME x.seen = a.seen, x.pc = "reading",
             t.state = s.state, t.objects = s.objects, t.staging # None => s.staging # None
      PROVE  RecordsStand(x, t)
  <2> HIDE DEF a, s, x, t
  <2> QED BY <1>2, <1>3, <1>5 DEF RecordsStand, Following, HasSynced
<1>6. CASE SendInitial(Alone)
  <2>1. body.phase \in {"initial", "unversioned"}
    BY <1>6 DEF SendInitial, Reading
  <2>2. PICK k \in Keys :
          LET o    == history[body.at][k]
              next == [body EXCEPT !.todo = body.todo \ {k}]
          IN  /\ k \in body.todo /\ o \in Object /\ o.rv \in 1..Now
              /\ next \in Body /\ next.phase = body.phase /\ next.at = body.at
              /\ next.todo = body.todo \ {k} /\ BodyIsReal(next)
              /\ EntryIsSound(ObserveEvent(slot, Change("added", k, o)))
              /\ Apply(Alone, Change("added", k, o), next)
    BY <1>1, <1>2, <1>6, SendInitialEvent
  <2> DEFINE o == history[body.at][k]
             next == [body EXCEPT !.todo = body.todo \ {k}]
             e == Change("added", k, o)
  <2>3. o \in Object /\ EntryIsSound(ObserveEvent(slot, e)) /\ Apply(Alone, e, next)
    BY <2>2
  <2>4. /\ x.pc = IF Reception(s, e) = "synchronised" THEN "acquisition" ELSE "reading"
        /\ x.seen = IF Reception(s, e) = "applied" THEN Told(a.seen, e) ELSE a.seen
        /\ t = Observe(s, e)
    <3> HIDE DEF e, next
    <3> QED BY <2>3, ApplyMoves DEF RInv
  <2>5. LET u == Observe(s, e)
        IN  /\ u \in WatchStream
            /\ Reception(s, e) = IF "added" = "added" /\ s.staging # None THEN "staged"
                                  ELSE IF s.state = "live" THEN "applied" ELSE "discarded"
            /\ Reception(s, e) = "staged" =>
                  /\ u.state = s.state /\ u.checkpoint = s.checkpoint
                  /\ u.objects = s.objects /\ u.pending_writes = s.pending_writes
                  /\ u.staging = [s.staging EXCEPT ![k] = o]
            /\ Reception(s, e) = "discarded" => u = s
            /\ Reception(s, e) = "applied" =>
                  /\ u.state = s.state /\ u.checkpoint = o.rv
                  /\ u.staging = s.staging
                  /\ u.pending_writes = s.pending_writes \ {k}
                  /\ u.objects = [s.objects EXCEPT ![k] = IF "added" = "deleted" THEN None ELSE o]
    <3> HIDE DEF o, s
    <3> QED BY <1>1, <2>3, ChangeEffect DEF ChangeClass
  <2>6. s.state # "live"
    BY <1>4, <2>1
  <2> HIDE DEF e
  <2>7. Reception(s, e) \in {"staged", "discarded"} /\ (Reception(s, e) = "staged" => s.staging # None)
    BY <2>5, <2>6
  <2>8. t.state = s.state /\ t.objects = s.objects /\ (t.staging # None => s.staging # None)
    BY <2>4, <2>5, <2>7
  <2>9. x.pc = "reading" /\ x.seen = a.seen
    BY <2>4, <2>7
  <2> QED BY <1>5, <2>8, <2>9
<1>7. CASE EndInitial(Alone)
  <2> DEFINE next == [body EXCEPT !.phase = "changes"]
             e == InitialEventsEnd(body.at)
  <2>1. /\ body.at \in 1..Now /\ body.at \in Version
        /\ EntryIsSound(ObserveEvent(slot, e)) /\ Apply(Alone, e, next)
    BY <1>1, <1>2, <1>7, EndInitialEvent
  <2>2. /\ x.pc = IF Reception(s, e) = "synchronised" THEN "acquisition" ELSE "reading"
        /\ x.seen = IF Reception(s, e) = "applied" THEN Told(a.seen, e) ELSE a.seen
        /\ t = Observe(s, e)
    <3> HIDE DEF e, next
    <3> QED BY <2>1, ApplyMoves DEF RInv
  <2>3. /\ Observe(s, e) =
              IF s.staging # None THEN Listed(s, s.staging, body.at) ELSE Checkpointed(s, body.at)
        /\ s.staging # None => Reception(s, e) = "synchronised"
        /\ s.staging = None => Reception(s, e) \in {"checkpointed", "discarded"}
    <3> HIDE DEF s, body
    <3> QED BY <1>1, <2>1, EndEffect
  <2>4. s.state # "live"
    BY <1>4, <1>7 DEF EndInitial, Reading
  <2> HIDE DEF e
  <2>5. CASE s.staging = None
    <3>1. t = s /\ x.pc = "reading" /\ x.seen = a.seen
      BY <2>2, <2>3, <2>4, <2>5 DEF Checkpointed
    <3> QED BY <1>5, <3>1
  <2>6. CASE s.staging # None
    <3>1. x.pc = "acquisition" /\ x.seen = a.seen
      BY <2>2, <2>3, <2>6
    <3>2. a.seen = NothingSeen
      BY <1>2, <2>6 DEF RecordsStand
    <3> HIDE DEF x, t, a
    <3> QED BY <3>1, <3>2 DEF RecordsStand, Following, NothingSeen
  <2> QED BY <2>5, <2>6
<1>8. CASE Deliver(Alone)
  <2>1. body.phase \in {"changes", "unversioned"}
    BY <1>8 DEF Deliver, SendsChanges, Reading
  <2>2. PICK v \in 1..Now, k \in Keys, class \in ChangeClass, o \in Object :
          LET next == [body EXCEPT !.at = v]
          IN  /\ o.rv = v
              /\ history[v] = [history[body.at] EXCEPT ![k] = IF class = "deleted"
                                                             THEN None ELSE o]
              /\ next \in Body /\ next.phase = body.phase /\ next.at = v /\ BodyIsReal(next)
              /\ EntryIsSound(ObserveEvent(slot, Change(class, k, o)))
              /\ Apply(Alone, Change(class, k, o), next)
    BY <1>1, <1>2, <1>8, DeliverEvent
  <2> DEFINE next == [body EXCEPT !.at = v]
             e == Change(class, k, o)
  <2>3. /\ o.rv = v
        /\ EntryIsSound(ObserveEvent(slot, e)) /\ Apply(Alone, e, next)
        /\ history[v] = [history[body.at] EXCEPT ![k] = IF class = "deleted" THEN None ELSE o]
    BY <2>2
  <2>4. /\ x.pc = IF Reception(s, e) = "synchronised" THEN "acquisition" ELSE "reading"
        /\ x.seen = IF Reception(s, e) = "applied" THEN Told(a.seen, e) ELSE a.seen
        /\ t = Observe(s, e)
    <3> HIDE DEF e, next
    <3> QED BY <2>3, ApplyMoves DEF RInv
  <2>5. LET u == Observe(s, e)
        IN  /\ u \in WatchStream
            /\ Reception(s, e) = IF class = "added" /\ s.staging # None THEN "staged"
                                  ELSE IF s.state = "live" THEN "applied" ELSE "discarded"
            /\ Reception(s, e) = "staged" =>
                  /\ u.state = s.state /\ u.checkpoint = s.checkpoint
                  /\ u.objects = s.objects /\ u.pending_writes = s.pending_writes
                  /\ u.staging = [s.staging EXCEPT ![k] = o]
            /\ Reception(s, e) = "discarded" => u = s
            /\ Reception(s, e) = "applied" =>
                  /\ u.state = s.state /\ u.checkpoint = o.rv
                  /\ u.staging = s.staging
                  /\ u.pending_writes = s.pending_writes \ {k}
                  /\ u.objects = [s.objects EXCEPT ![k] = IF class = "deleted" THEN None ELSE o]
    <3> HIDE DEF s
    <3> QED BY <1>1, ChangeEffect
  <2>6. Told(a.seen, e) = [at |-> o.rv, objects |-> [a.seen.objects EXCEPT ![k] =
                                                       IF class = "deleted" THEN None ELSE o]]
    BY DEF Told, Change
  <2> HIDE DEF e
  <2>7. s.staging = None
    BY <1>4, <2>1
  <2>8. CASE s.state = "live"
    <3>1. s.objects = history[body.at]
      BY <1>4, <2>8 DEF HasSynced
    <3>2. a.seen.objects = s.objects
      <4> HIDE DEF a, s
      <4> QED BY <1>2, <1>3, <2>8 DEF RecordsStand, Following, HasSynced
    <3>3. /\ t.state = "live" /\ t.staging = None /\ t.objects = history[v]
          /\ x.pc = "reading" /\ x.seen = [at |-> v, objects |-> history[v]]
      BY <2>3, <2>4, <2>5, <2>6, <2>7, <2>8, <3>1, <3>2
    <3>4. v # 0
      BY <1>1
    <3> HIDE DEF x, t, next, s, body
    <3> QED BY <3>3, <3>4 DEF RecordsStand
  <2>9. CASE s.state # "live"
    <3>1. t = s /\ x.pc = "reading" /\ x.seen = a.seen
      BY <2>4, <2>5, <2>7, <2>9
    <3> QED BY <1>5, <3>1
  <2> QED BY <2>8, <2>9
<1>9. CASE SendBookmark(Alone)
  <2>1. body.phase \in {"changes", "unversioned"}
    BY <1>9 DEF SendBookmark, SendsChanges, Reading
  <2>2. PICK v \in 1..Now :
          LET next == [body EXCEPT !.at = v]
          IN  /\ v \in Version /\ history[v] = history[body.at]
              /\ next \in Body /\ next.phase = body.phase /\ next.at = v /\ BodyIsReal(next)
              /\ EntryIsSound(ObserveEvent(slot, Bookmark(v)))
              /\ Apply(Alone, Bookmark(v), next)
    BY <1>1, <1>2, <1>9, SendBookmarkEvent
  <2> DEFINE next == [body EXCEPT !.at = v]
             e == Bookmark(v)
  <2>3. v \in Version /\ EntryIsSound(ObserveEvent(slot, e)) /\ Apply(Alone, e, next)
    BY <2>2
  <2>4. /\ x.pc = IF Reception(s, e) = "synchronised" THEN "acquisition" ELSE "reading"
        /\ x.seen = IF Reception(s, e) = "applied" THEN Told(a.seen, e) ELSE a.seen
        /\ t = Observe(s, e)
    <3> HIDE DEF e, next
    <3> QED BY <2>3, ApplyMoves DEF RInv
  <2>5. Observe(s, e) = Checkpointed(s, v) /\ Reception(s, e) \in {"checkpointed", "discarded"}
    <3> HIDE DEF s
    <3> QED BY <1>1, <2>3, BookmarkEffect
  <2> HIDE DEF e
  <2>6. t.state = s.state /\ t.objects = s.objects /\ t.staging = s.staging
    <3>1. t = Checkpointed(s, v)
      BY <2>4, <2>5
    <3> HIDE DEF s, t
    <3> QED BY <1>1, <3>1 DEF Checkpointed, WatchStream
  <2>7. x.pc = "reading" /\ x.seen = a.seen
    BY <2>4, <2>5
  <2> QED BY <1>5, <2>6, <2>7
<1> QED BY <1>6, <1>7, <1>8, <1>9

(* A gap leaves nothing told, and a suspension all of it.                  *)
LEMMA RecordsWhileBroken ==
  ASSUME RInv, Readers = {Alone},
         \/ OpenExpired(Alone) \/ OpenDenied(Alone) \/ Interrupt(Alone) \/ BreakBody(Alone)
  PROVE  RecordsStand(reader'[Alone], EntryFor(slot').stream)
<1> DEFINE a == reader[Alone]
           s == Stream
           x == reader'[Alone]
           t == EntryFor(slot').stream
<1> SUFFICES RecordsStand(x, t)
  OBVIOUS
<1>1. /\ Alone \in Readers /\ reader \in [Readers -> Reader] /\ a \in Reader
      /\ s \in WatchStream /\ EntryIsSound(EntryFor(slot))
  BY AloneType DEF RInv
<1>2. RecordsStand(a, s)
  BY DEF RInv
<1>3. ASSUME NEW failure \in {"interrupted", "expired", "denied"},
             slot' = ObserveEvent(slot, Error(failure))
      PROVE  t = Observe(s, Error(failure))
  <2>1. EntryIsSound(slot')
    BY <1>1, <1>3, ErrorIsSound
  <2>2. EntryFor(slot') = slot'
    BY <2>1, EntryType DEF EntryIsSound
  <2>3. ObserveEvent(slot, Error(failure)).stream = Observe(EntryFor(slot).stream, Error(failure))
    BY EntryObserves
  <2> QED BY <1>3, <2>2, <2>3 DEF Stream
<1>4. ASSUME NEW failure \in {"interrupted", "expired", "denied"}
      PROVE  LET u == Observe(s, Error(failure))
             IN  /\ u \in WatchStream
                 /\ u.objects = s.objects
                 /\ u.pending_writes = s.pending_writes
                 /\ Reception(s, Error(failure)) \in {"suspended", "continuity_broken"}
                 /\ failure = "interrupted" =>
                      /\ u.state = IF s.state = "live" THEN "reconnecting" ELSE s.state
                      /\ u.checkpoint = s.checkpoint
                      /\ u.staging = s.staging
                 /\ failure # "interrupted" =>
                      /\ u.state \in {"gap_detected", "denied"}
                      /\ u.checkpoint \in {s.checkpoint, None}
                      /\ u.staging = None
  <2> HIDE DEF s
  <2> QED BY <1>1, ErrorEffect
<1>5. CASE Interrupt(Alone)
  <2>1. slot' = ObserveEvent(slot, Error("interrupted"))
    BY <1>5 DEF Interrupt
  <2>2. a.pc = "reading" /\ x.pc = "abandon" /\ x.seen = a.seen
    BY <1>1, <1>5 DEF Interrupt, At, Reader
  <2>3. t = Observe(s, Error("interrupted"))
    BY <1>3, <2>1
  <2>4. /\ t.objects = s.objects /\ t.staging = s.staging
        /\ t.state = IF s.state = "live" THEN "reconnecting" ELSE s.state
    BY <1>4, <2>3
  <2> HIDE DEF a, s, x, t
  <2> QED BY <1>2, <2>2, <2>4 DEF RecordsStand, Following, HasSynced
<1>6. CASE OpenExpired(Alone) \/ OpenDenied(Alone) \/ BreakBody(Alone)
  <2>1. PICK failure \in {"expired", "denied"} : Break(Alone, failure)
    BY <1>6 DEF OpenExpired, OpenDenied, BreakBody
  <2>2. t = Observe(s, Error(failure))
    BY <1>3, <2>1 DEF Break
  <2>3. t.state \in {"gap_detected", "denied"}
    BY <1>4, <2>2
  <2>4. x.pc = "abandon" /\ x.seen = NothingSeen
    BY <1>1, <2>1 DEF Break, Reader
  <2> HIDE DEF a, s, x, t
  <2> QED BY <2>3, <2>4 DEF RecordsStand, NothingSeen, HasSynced
<1> QED BY <1>5, <1>6

(* Between its responses an invocation tells nothing.                      *)
LEMMA RecordsWhileCalled ==
  ASSUME RInv, Readers = {Alone},
         \/ Begin(Alone) \/ Synchronise(Alone) \/ Abandon(Alone) \/ Reconnect(Alone)
         \/ Close(Alone)
  PROVE  RecordsStand(reader'[Alone], EntryFor(slot').stream)
<1> DEFINE a == reader[Alone]
           s == Stream
           x == reader'[Alone]
           t == EntryFor(slot').stream
<1> SUFFICES RecordsStand(x, t)
  OBVIOUS
<1>1. /\ Alone \in Readers /\ reader \in [Readers -> Reader] /\ a \in Reader
      /\ s \in WatchStream
      /\ EntryIsSound(EntryFor(slot)) /\ EntryFor(slot) \in Watched
      /\ slot \in Watched \cup {None}
  BY AloneType DEF RInv, EntryIsSound
<1>2. RecordsStand(a, s) /\ Stands(a, s)
  BY DEF RInv, SInv
<1>3. ASSUME NEW u \in {BeginStreamingList(s), AbandonStreamingList(s), Reconnected(s)},
             slot' = OnStream(slot, u)
      PROVE  t = u
  <2>1. u \in WatchStream
    <3> HIDE DEF s
    <3> QED BY <1>1, <1>3, MethodEffects
  <2>2. slot' \in Watched /\ slot'.stream = u
    BY <1>1, <1>3, <2>1 DEF OnStream, Watched
  <2> QED BY <2>2, EntryType
<1>4. CASE Begin(Alone)
  <2>1. slot = None /\ a.pc = "begin"
    BY <1>4 DEF RInv, FindsNoStream, Begin, At
  <2>2. s.state = "syncing"
    BY <2>1 DEF Stream, EntryFor, NewWatched, NewStream
  <2>3. t = BeginStreamingList(s)
    BY <1>3, <1>4 DEF Begin, Stream
  <2>4. t.state = "syncing"
    <3> HIDE DEF s
    <3> QED BY <1>1, <2>2, <2>3 DEF BeginStreamingList, WatchStream
  <2>5. x.seen = a.seen /\ a.seen = NothingSeen
    BY <1>1, <1>2, <1>4, <2>1 DEF Begin, Goto, Reader, RecordsStand
  <2> HIDE DEF a, s, x, t
  <2> QED BY <2>4, <2>5 DEF RecordsStand, NothingSeen, HasSynced
<1>5. CASE Synchronise(Alone)
  <2>1. a.pc = "synchronise" /\ x.pc = "acquisition" /\ x.seen = a.seen
    BY <1>1, <1>5 DEF Synchronise, At, Goto, Reader
  <2>2. a.seen = NothingSeen
    BY <1>2, <2>1 DEF RecordsStand
  <2> HIDE DEF a, s, x, t
  <2> QED BY <2>1, <2>2 DEF RecordsStand, Following, NothingSeen
<1>6. CASE Abandon(Alone)
  <2>1. a.pc = "abandon" /\ x.seen = a.seen /\ x.pc \in {"refuse", "state"}
    BY <1>1, <1>6 DEF Abandon, At, Goto, Reader
  <2>2. CASE slot # None /\ IsStreamingList(slot.stream)
    <3>1. s = slot.stream /\ s.staging # None
      BY <2>2 DEF Stream, EntryFor, IsStreamingList
    <3>2. t = AbandonStreamingList(s) /\ x.pc = "refuse"
      BY <1>1, <1>3, <1>6, <2>2, <3>1 DEF Abandon, Goto, Reader
    <3>3. a.seen = NothingSeen
      BY <1>2, <3>1 DEF RecordsStand
    <3> HIDE DEF a, s, x, t
    <3> QED BY <2>1, <3>2, <3>3 DEF RecordsStand, Following, NothingSeen
  <2>3. CASE ~ (slot # None /\ IsStreamingList(slot.stream))
    <3>1. t = s /\ x.pc = "state"
      BY <1>1, <1>6, <2>3 DEF Abandon, Goto, Reader, Stream
    <3> HIDE DEF a, s, x, t
    <3> QED BY <1>2, <2>1, <3>1 DEF RecordsStand, Following
  <2> QED BY <2>2, <2>3
<1>7. CASE Reconnect(Alone)
  <2>1. t = Reconnected(s)
    BY <1>3, <1>7 DEF Reconnect, Stream
  <2>2. a.pc = "reconnect" /\ x.seen = a.seen /\ x.pc \in {"round", "close"}
    BY <1>1, <1>7 DEF Reconnect, At, Goto, Reader
  <2>3. /\ t.objects = s.objects /\ t.staging = s.staging
        /\ t.state = IF CanReconnect(s) THEN "live" ELSE s.state
    <3> HIDE DEF s
    <3> QED BY <1>1, <2>1 DEF Reconnected, WatchStream
  <2> HIDE DEF a, s, x, t
  <2> QED BY <1>2, <2>2, <2>3 DEF RecordsStand, Following, HasSynced, CanReconnect
<1>8. CASE Close(Alone)
  <2>1. x.seen = NothingSeen /\ x.pc = "idle"
    BY <1>1, <1>8 DEF Close, Reader
  <2> HIDE DEF a, s, x, t
  <2> QED BY <2>1 DEF RecordsStand, Following, NothingSeen
<1> QED BY <1>4, <1>5, <1>6, <1>7, <1>8

(* A step of the server, or a write of this session, tells nothing, and    *)
(* what was told was the collection then.                                  *)
LEMMA RecordsWhileLeft ==
  ASSUME RInv, Readers = {Alone}, ServerNext, reader' = reader,
         \/ slot' = slot
         \/ \E k \in Keys : slot' = Mutated(slot, k)
  PROVE  RecordsStand(reader[Alone], Stream)' /\ FindsNoStream(reader[Alone])'
<1> DEFINE a == reader[Alone]
           s == Stream
           t == EntryFor(slot').stream
<1>1. /\ s \in WatchStream /\ slot \in Watched \cup {None} /\ Now \in Nat
      /\ Alone \in Readers /\ a \in Reader /\ EntryIsSound(EntryFor(slot))
  BY AloneType DEF RInv
<1>2. RecordsStand(a, s) /\ FindsNoStream(a)
  BY DEF RInv
<1>3. Now' \in Nat /\ Now' >= Now /\ \A v \in 1..Now : history'[v] = history[v]
  BY <1>1, ServerGrows, ServerGrowsByOne DEF RInv, SInv, XInv, TypeOK
<1>4. reader'[Alone] = a /\ Stream' = t
  BY DEF Stream
<1>5. FindsNoStream(a)'
  <2>1. slot = None => slot' = None
    BY DEF Mutated
  <2> HIDE DEF a
  <2>2. a' = a
    BY <1>4 DEF a
  <2> QED BY <1>2, <2>1, <2>2 DEF FindsNoStream
<1>6. \/ t.state = s.state /\ t.objects = s.objects /\ t.staging = s.staging
      \/ t.state = "syncing" /\ t.staging = None
  <2>1. CASE slot' = slot
    BY <2>1 DEF Stream
  <2>2. CASE slot' = None
    BY <2>2 DEF EntryFor, NewWatched, NewStream
  <2>3. ASSUME NEW k \in Keys, slot' = Mutated(slot, k), slot' # None
        PROVE  t.state = s.state /\ t.objects = s.objects /\ t.staging = s.staging
    <3>1. /\ slot # None
          /\ slot' = [stream |-> Written(slot.stream, k), index |-> Retracted(slot.index, k)]
      BY <2>3 DEF Mutated
    <3>2. s = slot.stream
      BY <3>1 DEF Stream, EntryFor
    <3>3. t = Written(s, k)
      BY <2>3, <3>1, <3>2 DEF EntryFor
    <3> HIDE DEF s, t
    <3> QED BY <1>1, <3>3 DEF Written, WatchStream
  <2> QED BY <2>1, <2>2, <2>3
<1>7. RecordsStand(reader[Alone], Stream)'
  <2>1. a.seen.at # 0 =>
          /\ a.seen.at \in 1..Now' /\ a.seen.objects = history'[a.seen.at]
    BY <1>1, <1>2, <1>3 DEF RecordsStand
  <2> HIDE DEF a, s, t
  <2> QED BY <1>2, <1>4, <1>6, <2>1 DEF RecordsStand, HasSynced
<1> QED BY <1>5, <1>7

(* Every step keeps the invariant of the records.                          *)
LEMMA RInvStep == ASSUME Readers = {Alone} PROVE RInv /\ [Next]_vars => RInv'
<1> SUFFICES ASSUME RInv, [Next]_vars PROVE RInv'
  OBVIOUS
<1>1. SInv'
  BY SInvStep DEF RInv
<1>2. CASE ReaderStep(Alone)
  <2>1. UNCHANGED server
    BY <1>2 DEF ReaderStep, Acquire, Begin, Synchronise, SyncRefused, Acquisition, Round, Open,
           OpenDeclined, OpenExpired, OpenDenied, SendInitial, EndInitial, Deliver, SendBookmark,
           Apply, EndBody, Interrupt, BreakBody, Break, Abandon, Refuse, Relist, MatchState,
           Reconnect, Stop, Close
  <2>2. RecordsStand(reader'[Alone], EntryFor(slot').stream)
    BY <1>2, RecordsWhileStreamStands, RecordsWhileFed, RecordsWhileBroken, RecordsWhileCalled
       DEF ReaderStep
  <2>3. history' = history /\ Now' = Now
    BY <2>1 DEF server, Now
  <2>4. RecordsStand(reader[Alone], Stream)'
    BY <2>2, <2>3 DEF RecordsStand, Stream
  <2> QED BY <1>1, <1>2, <2>4, NoneIsLeft DEF RInv
<1>3. CASE ServerStep \/ \E k \in Keys : OwnWrite(k)
  <2>1. ServerNext /\ reader' = reader /\ (slot' = slot \/ \E k \in Keys : slot' = Mutated(slot, k))
    BY <1>3 DEF ServerStep, OwnWrite, ServerNext, session
  <2> QED BY <1>1, <2>1, RecordsWhileLeft DEF RInv
<1>4. CASE UNCHANGED vars
  <2>1. history' = history /\ Now' = Now /\ reader' = reader /\ slot' = slot
    BY <1>4 DEF vars, session, server, Now
  <2> QED BY <1>1, <2>1 DEF RInv, RecordsStand, FindsNoStream, Stream
<1> QED BY <1>2, <1>3, <1>4 DEF Next

(* §19.1, §19.4: put together, the records of an invocation are the        *)
(* collection as it was at the version of the last of them.  A second      *)
(* invocation would follow a stream the first has left live, and is told   *)
(* changes only: what it has been told is then no collection.              *)
THEOREM RecordsHold ==
  ASSUME \E r : Readers = {r}, Invocations <= 1
  PROVE  Spec => []RecordsAreTheCollection
<1>1. Readers = {Alone}
  BY DEF Alone
<1>2. Init => RInv
  <2> SUFFICES ASSUME Init PROVE RInv
    OBVIOUS
  <2>1. SInv
    BY <1>1, InitSInv
  <2>2. /\ reader[Alone].pc = "idle" /\ reader[Alone].left = Invocations
        /\ reader[Alone].seen = NothingSeen /\ slot = None
    BY <1>1 DEF Init
  <2>3. RecordsStand(reader[Alone], Stream)
    <3>1. Stream.state = "syncing" /\ Stream.staging = None
      BY <2>2 DEF Stream, EntryFor, NewWatched, NewStream
    <3> QED BY <2>2, <3>1 DEF RecordsStand, NothingSeen, Following, HasSynced
  <2>4. FindsNoStream(reader[Alone])
    BY <2>2, ViewAssumption DEF FindsNoStream
  <2> QED BY <2>1, <2>3, <2>4 DEF RInv
<1>3. RInv /\ [Next]_vars => RInv'
  BY <1>1, RInvStep
<1>4. RInv => RecordsAreTheCollection
  BY <1>1 DEF RInv, RecordsStand, RecordsAreTheCollection
<1> QED BY <1>2, <1>3, <1>4, PTL DEF Spec

-----------------------------------------------------------------------------
(* The contract of one stream and its feed, which an invocation that is    *)
(* alone with its collection keeps while the session writes nothing.       *)

(* A round asks for what the stream can take: a streaming list for what is *)
(* staged, or the changes after what is live.                              *)
RoundStands(x, s) ==
  /\ x.pc \in {"round", "open"} => s.state = "live" \/ s.staging # None
  /\ x.pc = "open" => x.streaming = (s.staging # None)
  /\ x.body.phase = "closed" => x.body = NoBody
  /\ x.body.phase # "unversioned"
  /\ x.pc \in {"refuse", "relist"} => ~ HasSynced(s)
  /\ x.pc = "synchronise" /\ HasSynced(s) => s.checkpoint <= x.listing

(* The version the stream is at, or will be synchronised at.               *)
Position(x, s) ==
  IF HasSynced(s) THEN s.checkpoint
  ELSE IF x.pc = "synchronise" THEN x.listing
  ELSE IF x.body.phase = "initial" THEN x.body.at
  ELSE Now

(* A listing over a stream that is live will leave a gap.                  *)
Owed(x, s) == IF x.pc = "synchronise" /\ HasSynced(s) THEN 1 ELSE 0

(* A stream that observed and is broken has its gap open.                  *)
BreakIsAGap(s) ==
  /\ s.state = "syncing" => s.segments = << >>
  /\ s.state \in {"gap_detected", "denied"} => HasOpenGap(s)

(* The bound of the contract is not met: every gap is paid for by a break  *)
(* of the server, by an invocation, or by the position moving on.          *)
GapsStand(x, s, n) ==
  /\ BreakIsAGap(s)
  /\ Now <= MaxVersion
  /\ x.left <= Invocations
  /\ Len(s.gaps) + Owed(x, s) + x.left <= Position(x, s) + n + Invocations

KInv ==
  /\ SInv
  /\ RoundStands(reader[Alone], Stream)
  /\ GapsStand(reader[Alone], Stream, breaks)

(* What each event makes of the number of gaps.                            *)
LEMMA GapsOfError ==
  ASSUME NEW s \in WatchStream, NEW failure \in {"interrupted", "expired", "denied"},
         BreakIsAGap(s)
  PROVE  LET u == Observe(s, Error(failure))
         IN  /\ BreakIsAGap(u)
             /\ failure = "interrupted" => u.gaps = s.gaps
             /\ Len(u.gaps) \in {Len(s.gaps), Len(s.gaps) + 1}
<1>1. Observe(s, Error(failure)) = Fail(s, failure)
  BY DEF Observe, Error
<1>2. s.gaps \in Seq(WatchGap) /\ s.state \in SyncState
  BY DEF WatchStream
<1>3. CASE failure = "interrupted"
  <2>1. Fail(s, failure) = IF s.state = "live" THEN [s EXCEPT !.state = "reconnecting"] ELSE s
    BY <1>3 DEF Fail
  <2>2. /\ Fail(s, failure).gaps = s.gaps /\ Fail(s, failure).segments = s.segments
        /\ Fail(s, failure).state = IF s.state = "live" THEN "reconnecting" ELSE s.state
    BY <2>1 DEF WatchStream
  <2> QED BY <1>1, <2>2 DEF BreakIsAGap, HasOpenGap
<1>4. ASSUME NEW reason, NEW state \in {"gap_detected", "denied"},
             Fail(s, failure) = BreakContinuity(s, reason, state)
      PROVE  /\ BreakIsAGap(Fail(s, failure))
             /\ Len(Fail(s, failure).gaps) \in {Len(s.gaps), Len(s.gaps) + 1}
  <2>1. CASE s.state \in {"gap_detected", "denied"}
    <3>1. Fail(s, failure) = [s EXCEPT !.staging = None]
      BY <1>4, <2>1 DEF BreakContinuity
    <3>2. /\ Fail(s, failure).gaps = s.gaps /\ Fail(s, failure).state = s.state
          /\ Fail(s, failure).segments = s.segments
      BY <3>1 DEF WatchStream
    <3> QED BY <3>2 DEF BreakIsAGap, HasOpenGap
  <2>2. CASE s.state \notin {"gap_detected", "denied"}
    <3> DEFINE gap == Gap(reason, s.checkpoint, None)
    <3>1. Fail(s, failure).gaps = Append(s.gaps, gap) /\ Fail(s, failure).state = state
      BY <1>4, <2>2 DEF BreakContinuity, WatchStream
    <3>2. gap.resumed_at = None
      BY DEF Gap
    <3> HIDE DEF gap
    <3>3. /\ Len(Append(s.gaps, gap)) = Len(s.gaps) + 1
          /\ Append(s.gaps, gap)[Len(s.gaps) + 1] = gap
          /\ Append(s.gaps, gap) # << >>
      BY <1>2
    <3> QED BY <3>1, <3>2, <3>3 DEF BreakIsAGap, HasOpenGap
  <2> QED BY <2>1, <2>2
<1>5. CASE failure = "expired"
  <2>1. Fail(s, failure) = BreakContinuity(s, "expired", "gap_detected")
    BY <1>5 DEF Fail
  <2> QED BY <1>1, <1>4, <1>5, <2>1
<1>6. CASE failure = "denied"
  <2>1. Fail(s, failure) = BreakContinuity(s, "access_denied", "denied")
    BY <1>6 DEF Fail
  <2> QED BY <1>1, <1>4, <1>6, <2>1
<1> QED BY <1>3, <1>5, <1>6

(* A listing adds a gap only to a stream that observed.                    *)
LEMMA GapsOfListing ==
  ASSUME NEW s \in WatchStream, NEW objects, NEW v, BreakIsAGap(s)
  PROVE  LET u == Listed(s, objects, v)
         IN  /\ BreakIsAGap(u)
             /\ Len(u.gaps) \in {Len(s.gaps), Len(s.gaps) + 1}
             /\ ~ HasSynced(s) => Len(u.gaps) = Len(s.gaps)
<1>1. s.gaps \in Seq(WatchGap) /\ s.state \in SyncState
  BY DEF WatchStream
<1>2. Listed(s, objects, v).state = "live" /\ Listed(s, objects, v).gaps = GapsAfterListing(s, v)
  BY DEF Listed
<1>3. /\ Len(GapsAfterListing(s, v)) \in {Len(s.gaps), Len(s.gaps) + 1}
      /\ ~ HasSynced(s) => Len(GapsAfterListing(s, v)) = Len(s.gaps)
  <2>1. ~ HasSynced(s) => HasOpenGap(s) \/ s.segments = << >>
    BY <1>1 DEF BreakIsAGap, HasSynced, SyncState
  <2>2. CASE HasOpenGap(s)
    BY <1>1, <2>2 DEF GapsAfterListing
  <2>3. CASE ~ HasOpenGap(s) /\ s.segments # << >>
    BY <1>1, <2>1, <2>3 DEF GapsAfterListing
  <2>4. CASE ~ HasOpenGap(s) /\ s.segments = << >>
    BY <1>1, <2>4 DEF GapsAfterListing
  <2> QED BY <2>2, <2>3, <2>4
<1>5. BreakIsAGap(Listed(s, objects, v))
  BY <1>2 DEF BreakIsAGap
<1> QED BY <1>2, <1>3, <1>5

(* A change adds at most one gap, and none to a stream that is not live.   *)
LEMMA GapsOfChange ==
  ASSUME NEW s \in WatchStream, NEW class \in ChangeClass, NEW k \in Keys, NEW o \in Object,
         BreakIsAGap(s)
  PROVE  LET u == Observe(s, Change(class, k, o))
         IN  /\ BreakIsAGap(u)
             /\ s.state # "live" => u.gaps = s.gaps
             /\ Len(u.gaps) \in {Len(s.gaps), Len(s.gaps) + 1}
<1>1. s.gaps \in Seq(WatchGap) /\ Len(s.gaps) \in Nat
  BY DEF WatchStream
<1>2. Observe(s, Change(class, k, o)) =
        IF class = "added" /\ s.staging # None THEN [s EXCEPT !.staging[k] = o]
        ELSE Record(s, class, k, o)
  BY DEF Observe, Change, Stages
<1>3. CASE class = "added" /\ s.staging # None
  <2> DEFINE u == [s EXCEPT !.staging[k] = o]
  <2>1. u.gaps = s.gaps /\ u.state = s.state /\ u.segments = s.segments
    BY DEF WatchStream
  <2> QED BY <1>2, <1>3, <2>1 DEF BreakIsAGap, HasOpenGap
<1>4. CASE ~ (class = "added" /\ s.staging # None) /\ s.state # "live"
  BY <1>2, <1>4 DEF Record
<1>5. CASE ~ (class = "added" /\ s.staging # None) /\ s.state = "live"
  <2> DEFINE n      == Len(s.segments)
             change == [class |-> class, key |-> k, uid |-> o.uid, rv |-> o.rv]
             pushed == Push(s.segments[n], change)
             trims  == n > 0 /\ LogFull(s.segments[n])
  <2>1. /\ Record(s, class, k, o).state = "live"
        /\ Record(s, class, k, o).gaps = IF trims THEN RecordTrim(s.gaps, s.trim_gap, pushed) ELSE s.gaps
    BY <1>5 DEF Record, WatchStream
  <2>2. Len(RecordTrim(s.gaps, s.trim_gap, pushed)) \in {Len(s.gaps), Len(s.gaps) + 1}
    <3> HIDE DEF pushed
    <3> QED BY <1>1 DEF RecordTrim
  <2> HIDE DEF trims, pushed
  <2> QED BY <1>1, <1>2, <1>5, <2>1, <2>2 DEF BreakIsAGap
<1> QED BY <1>3, <1>4, <1>5

(* The listing an invocation is reading, as the contract has it.           *)
ListingRead == IF At(Alone, "synchronise") THEN reader[Alone].listing ELSE None

(* A step that moves none of what the contract sees.                       *)
LEMMA ContractStutters ==
  ASSUME UNCHANGED server, Stream' = Stream, reader'[Alone].body = reader[Alone].body,
         ListingRead' = ListingRead
  PROVE  UNCHANGED Contract!vars
BY DEF Contract!vars, Contract!server, Contract!client, Stream, ListingRead, server

(* A step of the server alone.                                             *)
LEMMA ContractServer ==
  ASSUME ServerNext, Stream' = Stream, reader'[Alone].body = reader[Alone].body,
         ListingRead' = ListingRead
  PROVE  Contract!Next
<1>1. Contract!ServerNext
  BY DEF ServerNext, Contract!ServerNext, Write, Contract!Write, Delete, Contract!Delete,
         WriteElsewhere, Contract!WriteElsewhere, Compact, Contract!Compact, Now, Contract!Now,
         Put, Contract!Put
<1>2. UNCHANGED Contract!client
  BY DEF Contract!client, Stream, ListingRead
<1> QED BY <1>1, <1>2 DEF Contract!Next, Contract!ServerStep

(* The methods of the stream are the contract's own.                       *)
LEMMA ContractMethods ==
  ASSUME NEW s, NEW e, NEW failure, NEW objects, NEW v
  PROVE  /\ Contract!NewStream = NewStream
         /\ Contract!EmptyCache = EmptyCache
         /\ Contract!Observe(s, e) = Observe(s, e)
         /\ Contract!Error(failure) = Error(failure)
         /\ Contract!Listed(s, objects, v) = Listed(s, objects, v)
         /\ Contract!BeginStreamingList(s) = BeginStreamingList(s)
         /\ Contract!AbandonStreamingList(s) = AbandonStreamingList(s)
         /\ Contract!Reconnected(s) = Reconnected(s)
<1>1. /\ Contract!NewStream = NewStream
      /\ Contract!EmptyCache = EmptyCache
      /\ Contract!Error(failure) = Error(failure)
  BY DEF Contract!NewStream, NewStream, Contract!EmptyCache, EmptyCache, Contract!Error, Error
<1>2. \A o, w : Contract!Listed(s, o, w) = Listed(s, o, w)
  BY DEF Listed, Contract!Listed, CloseOpenSegment, Contract!CloseOpenSegment,
         GapsAfterListing, Contract!GapsAfterListing, HasOpenSegment, Contract!HasOpenSegment,
         HasOpenGap, Contract!HasOpenGap, Gap, Contract!Gap, IsOpen, Contract!IsOpen
<1>3. /\ Contract!BeginStreamingList(s) = BeginStreamingList(s)
      /\ Contract!AbandonStreamingList(s) = AbandonStreamingList(s)
      /\ Contract!Reconnected(s) = Reconnected(s)
  BY <1>1 DEF Contract!BeginStreamingList, BeginStreamingList, Contract!AbandonStreamingList,
         AbandonStreamingList, Contract!Reconnected, Reconnected, Contract!CanReconnect, CanReconnect
<1>4. \A w : Contract!Checkpointed(s, w) = Checkpointed(s, w)
  BY DEF Contract!Checkpointed, Checkpointed
<1>5. \A class, k, o : Contract!Record(s, class, k, o) = Record(s, class, k, o)
  BY DEF Contract!Record, Record, Contract!Push, Push, Contract!LogFull, LogFull,
         Contract!RecordTrim, RecordTrim, Contract!Gap, Gap, Contract!RetainedFrom, RetainedFrom
<1>6. \A f : Contract!Fail(s, f) = Fail(s, f)
  BY DEF Contract!Fail, Fail, Contract!BreakContinuity, BreakContinuity,
         Contract!CloseOpenSegment, CloseOpenSegment, Contract!HasOpenSegment, HasOpenSegment,
         Contract!IsOpen, IsOpen, Contract!Gap, Gap
<1>7. Contract!Observe(s, e) = Observe(s, e)
  BY <1>2, <1>4, <1>5, <1>6 DEF Contract!Observe, Observe, Contract!Stages, Stages
<1> QED BY <1>1, <1>2, <1>3, <1>7

(* The events of the server are the contract's own.                        *)
LEMMA ContractEvents ==
  ASSUME NEW class, NEW k, NEW o, NEW v, NEW at
  PROVE  /\ Contract!Now = Now
         /\ Contract!Change(class, k, o) = Change(class, k, o)
         /\ Contract!InitialEventsEnd(v) = InitialEventsEnd(v)
         /\ Contract!Bookmark(v) = Bookmark(v)
         /\ Contract!EventAt(v, k) = EventAt(v, k)
         /\ Contract!IsNext(at, v, k) = IsNext(at, v, k)
         /\ Contract!QuietBetween(at, v) = QuietBetween(at, v)
BY DEF Now, Contract!Now, Change, Contract!Change, InitialEventsEnd, Contract!InitialEventsEnd,
       Bookmark, Contract!Bookmark, EventAt, Contract!EventAt, IsNext, Contract!IsNext,
       QuietBetween, Contract!QuietBetween, Changed, Contract!Changed

(* Where an invocation stands that keeps the contract.                     *)
LEMMA KeepingType ==
  ASSUME KInv, Readers = {Alone}
  PROVE  LET a == reader[Alone]
             s == Stream
         IN  /\ Alone \in Readers /\ reader \in [Readers -> Reader] /\ a \in Reader
             /\ s \in WatchStream /\ slot \in Watched \cup {None}
             /\ EntryIsSound(EntryFor(slot)) /\ EntryFor(slot) \in Watched
             /\ VersionsAreReal(a)
             /\ Now \in Nat /\ oldest \in 1..Now
             /\ breaks \in 0..MaxBreaks
             /\ s.checkpoint # None => s.checkpoint \in 1..Now
             /\ Len(s.gaps) \in Nat
             /\ Position(a, s) \in 1..Now
             /\ a.left \in Nat
             /\ a.pc \notin {"reading", "acquisition"} => a.body = NoBody
             /\ a.pc = "reading" => /\ a.body \in Body /\ a.body.at \in 1..Now
                                    /\ a.body.phase \in {"initial", "changes"}
<1> DEFINE a == reader[Alone]
           s == Stream
<1>1. /\ Alone \in Readers /\ reader \in [Readers -> Reader] /\ a \in Reader
      /\ s \in WatchStream /\ slot \in Watched \cup {None}
      /\ EntryIsSound(EntryFor(slot)) /\ EntryFor(slot) \in Watched
      /\ VersionsAreReal(a) /\ Now \in Nat /\ Now >= 1
      /\ s.checkpoint # None => s.checkpoint \in 1..Now
  BY AloneType DEF KInv, EntryIsSound
<1>2. oldest \in 1..Now /\ breaks \in 0..MaxBreaks
  BY DEF KInv, SInv, XInv, TypeOK, ServerTypeOK
<1>3. Len(s.gaps) \in Nat /\ a.left \in Nat
  BY <1>1 DEF WatchStream, Reader
<1>4. Stands(a, s) /\ RoundStands(a, s)
  BY DEF KInv, SInv
<1>5. Position(a, s) \in 1..Now
  <2> HIDE DEF a, s
  <2>1. CASE HasSynced(s)
    BY <1>1, <1>4, <2>1 DEF Position, Stands, CacheStands
  <2>2. CASE ~ HasSynced(s) /\ a.pc = "synchronise"
    BY <1>1, <2>2 DEF Position, VersionsAreReal
  <2>3. CASE ~ HasSynced(s) /\ a.pc # "synchronise" /\ a.body.phase = "initial"
    BY <1>1, <2>3 DEF Position, VersionsAreReal, BodyIsReal
  <2>4. CASE ~ HasSynced(s) /\ a.pc # "synchronise" /\ a.body.phase # "initial"
    BY <1>1, <2>4 DEF Position
  <2> QED BY <2>1, <2>2, <2>3, <2>4
<1>6. a.pc \notin {"reading", "acquisition"} => a.body = NoBody
  BY <1>4 DEF Stands, BodyStands, RoundStands
<1>7. a.pc = "reading" => /\ a.body \in Body /\ a.body.at \in 1..Now
                          /\ a.body.phase \in {"initial", "changes"}
  <2>1. a.body \in Body
    BY <1>1 DEF Reader
  <2>2. a.body.phase \in {"closed", "initial", "unversioned", "changes"}
    BY <2>1 DEF Body
  <2> HIDE DEF a, s
  <2> QED BY <1>1, <1>4, <2>1, <2>2
          DEF Stands, BodyStands, RoundStands, VersionsAreReal, BodyIsReal
<1> QED BY <1>1, <1>2, <1>3, <1>5, <1>6, <1>7

(* So many gaps there are never that the contract forbids another.         *)
LEMMA MayStillBreak ==
  ASSUME KInv, Readers = {Alone}
  PROVE  Contract!MayBreak
<1> DEFINE p == Position(reader[Alone], Stream)
           n == Len(Stream.gaps)
           o == Owed(reader[Alone], Stream)
           l == reader[Alone].left
<1>1. n \in Nat /\ p \in 1..Now /\ Now \in Nat /\ breaks \in 0..MaxBreaks /\ l \in Nat
  BY KeepingType
<1>2. n + o + l <= p + breaks + Invocations /\ Now <= MaxVersion
  BY DEF KInv, GapsStand
<1>3. o \in {0, 1}
  BY DEF Owed
<1>4. MaxVersion \in Nat /\ MaxVersion >= 1 /\ MaxBreaks \in Nat /\ Invocations \in Nat
  BY MaxVersionAssumption, ViewAssumption
<1>5. n < 3 * MaxVersion + MaxBreaks + Invocations
  <2> HIDE DEF p, n, o, l
  <2> QED BY <1>1, <1>2, <1>3, <1>4
<1> QED BY <1>5 DEF Contract!MayBreak, Stream

(* Every step an invocation takes alone is one the contract has.           *)
LEMMA ContractAcquires ==
  ASSUME KInv, Readers = {Alone},
         \/ Acquire(Alone) \/ Begin(Alone) \/ Synchronise(Alone) \/ SyncRefused(Alone)
         \/ Acquisition(Alone) \/ Round(Alone) \/ Relist(Alone)
  PROVE  Contract!Next \/ UNCHANGED Contract!vars
<1> DEFINE a == reader[Alone]
           s == Stream
           x == reader'[Alone]
<1>1. /\ Alone \in Readers /\ reader \in [Readers -> Reader] /\ a \in Reader
      /\ s \in WatchStream /\ slot \in Watched \cup {None}
      /\ EntryFor(slot) \in Watched /\ VersionsAreReal(a) /\ Now \in Nat
      /\ a.pc \notin {"reading", "acquisition"} => a.body = NoBody
  BY KeepingType
<1>2. x.body = a.body /\ UNCHANGED server
  BY <1>1 DEF Acquire, Begin, Synchronise, SyncRefused, Acquisition, Round, Relist, Goto, Reader
<1>3. Contract!Idle <=> a.body.phase = "closed" /\ ListingRead = None
  BY DEF Contract!Idle, ListingRead
<1>4. NoBody.phase = "closed"
  BY DEF NoBody
<1>5. ListingRead = (IF a.pc = "synchronise" THEN a.listing ELSE None)
      /\ ListingRead' = (IF x.pc = "synchronise" THEN x.listing ELSE None)
  BY DEF ListingRead, At
<1>6. ASSUME a.pc \in {"idle", "relist"}, x.pc = "synchronise", x.listing = Now, slot' = slot
      PROVE  Contract!Next
  <2>1. Contract!StartListing
    BY <1>1, <1>2, <1>3, <1>4, <1>5, <1>6, MayStillBreak, ContractEvents
       DEF Contract!StartListing, Contract!server, server, ListingRead
  <2> QED BY <2>1 DEF Contract!Next
<1>7. CASE Acquire(Alone)
  <2>1. a.pc = "idle" /\ slot' = slot /\ x.pc = (IF refused THEN "synchronise" ELSE "begin")
        /\ x.listing = IF refused THEN Now ELSE None
    BY <1>1, <1>7 DEF Acquire, At, Reader, session
  <2>2. CASE refused
    BY <1>6, <2>1, <2>2
  <2>3. CASE ~ refused
    BY <1>2, <1>5, <2>1, <2>3, ContractStutters DEF Stream
  <2> QED BY <2>2, <2>3
<1>8. CASE Relist(Alone)
  <2>1. a.pc = "relist" /\ slot' = slot /\ x.pc = "synchronise" /\ x.listing = Now
    BY <1>1, <1>8 DEF Relist, At, Reader, session
  <2> QED BY <1>6, <2>1
<1>9. CASE Acquisition(Alone) \/ Round(Alone)
  <2>1. a.pc # "synchronise" /\ x.pc # "synchronise" /\ slot' = slot
    BY <1>1, <1>9 DEF Acquisition, Round, At, Reader, session
  <2> QED BY <1>2, <1>5, <2>1, ContractStutters DEF Stream
<1>10. CASE SyncRefused(Alone)
  <2>1. a.pc = "synchronise" /\ x.pc = "close" /\ slot' = slot
    BY <1>1, <1>10 DEF SyncRefused, At, Reader, session
  <2>2. ListingRead # None /\ ListingRead' = None
    BY <1>1, <1>5, <2>1 DEF VersionsAreReal
  <2>3. Contract!LoseListing
    BY <1>2, <2>1, <2>2 DEF Contract!LoseListing, Contract!server, server, ListingRead, Stream
  <2> QED BY <2>3 DEF Contract!Next
<1>11. CASE Synchronise(Alone)
  <2>1. a.pc = "synchronise" /\ x.pc = "acquisition"
    BY <1>1, <1>11 DEF Synchronise, At, Goto, Reader
  <2>2. ListingRead # None /\ ListingRead' = None /\ a.listing = ListingRead
    BY <1>1, <1>5, <2>1 DEF VersionsAreReal
  <2>3. slot'.stream = Listed(s, history[a.listing], a.listing) /\ slot' # None
    <3>1. slot' = [stream |-> Listed(s, history[a.listing], a.listing),
                   index |-> Rebuilt(history[a.listing])]
      BY <1>11 DEF Synchronise, Synchronised, Stream
    <3>2. a.listing \in 1..Now /\ history[a.listing] \in Cache
      BY <1>1, <2>1, AloneType DEF KInv, VersionsAreReal
    <3>3. slot' \in Watched
      <4> HIDE DEF a, s
      <4> QED BY <1>1, <3>1, <3>2, AcquiredIsSound
    <3> QED BY <3>1, <3>3, EntryType
  <2>4. Stream' = Listed(s, history[ListingRead], ListingRead)
    BY <2>2, <2>3 DEF Stream, EntryFor
  <2>5. Contract!FinishListing
    BY <1>2, <2>2, <2>4, ContractMethods
       DEF Contract!FinishListing, Contract!server, server, ListingRead, Stream
  <2> QED BY <2>5 DEF Contract!Next
<1>12. CASE Begin(Alone)
  <2>1. a.pc = "begin" /\ x.pc # "synchronise" /\ slot' = OnStream(slot, BeginStreamingList(s))
    BY <1>1, <1>12 DEF Begin, At, Goto, Reader, Stream
  <2>2. Stream' = BeginStreamingList(s)
    <3>1. BeginStreamingList(s) \in WatchStream
      <4> HIDE DEF s
      <4> QED BY <1>1, MethodEffects
    <3>2. slot' \in Watched /\ slot'.stream = BeginStreamingList(s)
      BY <1>1, <2>1, <3>1 DEF OnStream, Watched
    <3> QED BY <3>2, EntryType DEF Stream
  <2>3. ListingRead = None /\ ListingRead' = None
    BY <1>5, <2>1
  <2>4. CASE s.state \in {"syncing", "gap_detected"}
    <3>1. Contract!BeginStream
      BY <1>1, <1>2, <1>3, <1>4, <2>1, <2>2, <2>3, <2>4, ContractMethods
         DEF Contract!BeginStream, Contract!server, server, ListingRead, Stream
    <3> QED BY <3>1 DEF Contract!Next
  <2>5. CASE s.state \notin {"syncing", "gap_detected"}
    <3>1. Stream' = Stream
      BY <2>2, <2>5 DEF BeginStreamingList
    <3> QED BY <1>2, <2>3, <3>1, ContractStutters
  <2> QED BY <2>4, <2>5
<1> QED BY <1>7, <1>8, <1>9, <1>10, <1>11, <1>12

(* The opening of a round, as a step of the contract.                      *)
LEMMA ContractOpens ==
  ASSUME KInv, Readers = {Alone},
         \/ Open(Alone) \/ OpenDeclined(Alone) \/ OpenExpired(Alone) \/ OpenDenied(Alone)
  PROVE  Contract!Next \/ UNCHANGED Contract!vars
<1> DEFINE a == reader[Alone]
           s == Stream
           x == reader'[Alone]
<1>1. /\ Alone \in Readers /\ reader \in [Readers -> Reader] /\ a \in Reader
      /\ s \in WatchStream /\ EntryIsSound(EntryFor(slot))
  BY KeepingType
<1>2. Stands(a, s) /\ RoundStands(a, s)
  BY DEF KInv, SInv
<1>3. a.pc = "open" /\ UNCHANGED server /\ x.pc \in {"reading", "abandon"}
  BY <1>1 DEF Open, Opened, OpenDeclined, OpenExpired, OpenDenied, Break, At, Goto, Reader
<1>4. a.body = NoBody /\ NoBody.phase = "closed"
  BY <1>3, KeepingType DEF NoBody
<1>5. ListingRead = None /\ ListingRead' = None
  BY <1>3 DEF ListingRead, At
<1>6. Contract!Idle
  BY <1>4, <1>5 DEF Contract!Idle, ListingRead
<1>7. /\ s.state = "live" \/ s.staging # None
      /\ a.streaming = (s.staging # None)
      /\ s.staging # None => s.staging = EmptyCache
      /\ s.state = "live" => ~ a.streaming /\ a.from = s.checkpoint /\ s.checkpoint # None
  <2> HIDE DEF a, s
  <2> QED BY <1>2, <1>3
          DEF Stands, CacheStands, StagingStands, RequestStands, RoundStands, HasSynced
<1>8. CASE OpenDeclined(Alone)
  <2>1. x.body = a.body /\ slot' = slot
    BY <1>1, <1>8 DEF OpenDeclined, Goto, Reader, session
  <2> QED BY <1>3, <1>5, <2>1, ContractStutters DEF Stream
<1>9. CASE Open(Alone)
  <2>1. slot' = slot
    BY <1>9 DEF Open, session
  <2>2. CASE a.streaming
    <3>1. x.body = [phase |-> "initial", at |-> Now, todo |-> Existing]
      BY <1>1, <1>9, <2>2 DEF Open, Opened, Reader
    <3>2. s.staging = EmptyCache
      BY <1>7, <2>2
    <3>3. Contract!OpenStreamingList
      BY <1>3, <1>5, <1>6, <2>1, <3>1, <3>2, ContractMethods, ContractEvents
         DEF Contract!OpenStreamingList, Contract!server, server, ListingRead, Stream, Existing
    <3> QED BY <3>3 DEF Contract!Next
  <2>3. CASE ~ a.streaming
    <3>1. s.state = "live" /\ a.from = s.checkpoint /\ s.checkpoint # None
      BY <1>7, <2>3
    <3>2. /\ x.body = [phase |-> "changes", at |-> s.checkpoint, todo |-> {}]
          /\ s.checkpoint >= oldest
      BY <1>1, <1>9, <2>3, <3>1 DEF Open, Opened, Reader
    <3>3. Contract!OpenWatch
      BY <1>3, <1>5, <1>6, <2>1, <3>1, <3>2
         DEF Contract!OpenWatch, Contract!server, server, ListingRead, Stream
    <3> QED BY <3>3 DEF Contract!Next
  <2> QED BY <2>2, <2>3
<1>10. CASE OpenExpired(Alone) \/ OpenDenied(Alone)
  <2>1. PICK failure \in {"expired", "denied"} :
          Break(Alone, failure) /\ (failure = "expired" => OpenExpired(Alone))
    BY <1>10 DEF OpenExpired, OpenDenied
  <2>2. x.body = NoBody
    BY <1>1, <2>1 DEF Break, Reader
  <2>3. Stream' = Observe(s, Error(failure))
    <3>1. slot' = ObserveEvent(slot, Error(failure))
      BY <2>1 DEF Break
    <3>2. EntryIsSound(slot')
      BY <1>1, <3>1, ErrorIsSound
    <3>3. EntryFor(slot') = slot'
      BY <3>2, EntryType DEF EntryIsSound
    <3>4. slot'.stream = Observe(s, Error(failure))
      BY <3>1, EntryObserves DEF Stream
    <3> QED BY <3>3, <3>4 DEF Stream
  <2>4. ~ a.streaming
    BY <1>10 DEF OpenExpired, OpenDenied
  <2>5. s.state = "live" /\ a.from = s.checkpoint
    BY <1>7, <2>4
  <2>6. failure = "expired" => s.checkpoint < oldest
    BY <2>1, <2>5 DEF OpenExpired
  <2>7. Contract!OpenRefused
    BY <1>3, <1>4, <1>5, <1>6, <2>1, <2>2, <2>3, <2>5, <2>6, MayStillBreak, ContractMethods
       DEF Contract!OpenRefused, Contract!server, server, ListingRead, Stream
  <2> QED BY <2>7 DEF Contract!Next
<1> QED BY <1>8, <1>9, <1>10

(* The events of a body, as steps of the contract.                         *)
LEMMA ContractFeeds ==
  ASSUME KInv, Readers = {Alone},
         \/ SendInitial(Alone) \/ EndInitial(Alone) \/ Deliver(Alone) \/ SendBookmark(Alone)
  PROVE  Contract!Next \/ UNCHANGED Contract!vars
<1> DEFINE a == reader[Alone]
           s == Stream
           x == reader'[Alone]
           body == a.body
<1>1. /\ Alone \in Readers /\ reader \in [Readers -> Reader] /\ a \in Reader
      /\ s \in WatchStream
  BY KeepingType
<1>2. a.pc = "reading" /\ body.phase \in {"initial", "changes"}
  BY KeepingType DEF SendInitial, EndInitial, Deliver, SendBookmark, SendsChanges, Reading, At
<1>3. ListingRead = None
  BY <1>2 DEF ListingRead, At
<1>4. slot' \in Watched
  <2>1. XInv
    BY DEF KInv, SInv
  <2>2. \E e, next : Apply(Alone, e, next) /\ EntryIsSound(ObserveEvent(slot, e))
    <3>1. CASE SendInitial(Alone)
      BY <1>1, <2>1, <3>1, SendInitialEvent
    <3>2. CASE EndInitial(Alone)
      BY <1>1, <2>1, <3>2, EndInitialEvent
    <3>3. CASE Deliver(Alone)
      BY <1>1, <2>1, <3>3, DeliverEvent
    <3>4. CASE SendBookmark(Alone)
      BY <1>1, <2>1, <3>4, SendBookmarkEvent
    <3> QED BY <3>1, <3>2, <3>3, <3>4
  <2> QED BY <2>2 DEF Apply, EntryIsSound
<1>5. ASSUME NEW e, NEW next, Apply(Alone, e, next)
      PROVE  /\ Stream' = Observe(s, e) /\ x.body = next /\ UNCHANGED server
             /\ ListingRead' = None
  <2>1. slot'.stream = Observe(s, e)
    BY <1>5, EntryObserves DEF Apply, Stream
  <2>2. x.body = next /\ UNCHANGED server /\ x.pc \in {"acquisition", "reading"}
    BY <1>1, <1>5 DEF Apply, Reader
  <2> QED BY <1>4, <2>1, <2>2, EntryType DEF Stream, ListingRead, At
<1>6. CASE SendInitial(Alone)
  <2>1. PICK k \in body.todo :
          Apply(Alone, Change("added", k, history[body.at][k]), [body EXCEPT !.todo = @ \ {k}])
    BY <1>6 DEF SendInitial
  <2>2. body.phase = "initial"
    BY <1>2, <1>6 DEF SendInitial, Reading
  <2>3. /\ Stream' = Observe(s, Change("added", k, history[body.at][k]))
        /\ x.body = [body EXCEPT !.todo = @ \ {k}] /\ UNCHANGED server
        /\ ListingRead' = None
    BY <1>5, <2>1
  <2>4. Contract!SendInitial
    BY <1>3, <2>2, <2>3, ContractMethods, ContractEvents
       DEF Contract!SendInitial, Contract!server, server, ListingRead, Stream
  <2> QED BY <2>4 DEF Contract!Next
<1>7. CASE EndInitial(Alone)
  <2>1. /\ body.phase = "initial" /\ body.todo = {}
        /\ Apply(Alone, InitialEventsEnd(body.at), [body EXCEPT !.phase = "changes"])
    BY <1>7 DEF EndInitial, Reading
  <2>2. /\ Stream' = Observe(s, InitialEventsEnd(body.at))
        /\ x.body = [body EXCEPT !.phase = "changes"] /\ UNCHANGED server
        /\ ListingRead' = None
    BY <1>5, <2>1
  <2>3. Contract!EndInitial
    BY <1>3, <2>1, <2>2, ContractMethods, ContractEvents
       DEF Contract!EndInitial, Contract!server, server, ListingRead, Stream
  <2> QED BY <2>3 DEF Contract!Next
<1>8. CASE Deliver(Alone)
  <2>1. PICK v \in 1..Now, k \in Keys :
          /\ IsNext(body.at, v, k)
          /\ Apply(Alone, EventAt(v, k), [body EXCEPT !.at = v])
    BY <1>8 DEF Deliver
  <2>2. body.phase = "changes"
    BY <1>2, <1>8 DEF Deliver, SendsChanges, Reading
  <2>3. /\ Stream' = Observe(s, EventAt(v, k))
        /\ x.body = [body EXCEPT !.at = v] /\ UNCHANGED server
        /\ ListingRead' = None
    BY <1>5, <2>1
  <2>4. Contract!Deliver
    BY <1>3, <2>1, <2>2, <2>3, ContractMethods, ContractEvents
       DEF Contract!Deliver, Contract!server, server, ListingRead, Stream
  <2> QED BY <2>4 DEF Contract!Next
<1>9. CASE SendBookmark(Alone)
  <2>1. PICK v \in (body.at + 1)..Now :
          /\ QuietBetween(body.at, v)
          /\ Apply(Alone, Bookmark(v), [body EXCEPT !.at = v])
    BY <1>9 DEF SendBookmark
  <2>2. body.phase = "changes"
    BY <1>2, <1>9 DEF SendBookmark, SendsChanges, Reading
  <2>3. /\ Stream' = Observe(s, Bookmark(v))
        /\ x.body = [body EXCEPT !.at = v] /\ UNCHANGED server
        /\ ListingRead' = None
    BY <1>5, <2>1
  <2>4. Contract!SendBookmark
    BY <1>3, <2>1, <2>2, <2>3, ContractMethods, ContractEvents
       DEF Contract!SendBookmark, Contract!server, server, ListingRead, Stream
  <2> QED BY <2>4 DEF Contract!Next
<1> QED BY <1>6, <1>7, <1>8, <1>9

(* The ends of a body, as steps of the contract.                           *)
LEMMA ContractEnds ==
  ASSUME KInv, Readers = {Alone},
         \/ EndBody(Alone) \/ Interrupt(Alone) \/ BreakBody(Alone) \/ Stop(Alone)
  PROVE  Contract!Next \/ UNCHANGED Contract!vars
<1> DEFINE a == reader[Alone]
           s == Stream
           x == reader'[Alone]
<1>1. /\ Alone \in Readers /\ reader \in [Readers -> Reader] /\ a \in Reader
      /\ EntryIsSound(EntryFor(slot))
  BY KeepingType
<1>2. /\ x.body = NoBody /\ UNCHANGED server /\ x.pc \in {"abandon", "close"}
      /\ a.pc \in {"round", "open", "reading", "relist"}
  BY <1>1 DEF EndBody, Interrupt, BreakBody, Break, Stop, At, Reader
<1>3. ListingRead = None /\ ListingRead' = None
  BY <1>2 DEF ListingRead, At
<1>4. Contract!Closed = NoBody
  BY DEF Contract!Closed, NoBody
<1>5. a.pc = "reading" => a.body.phase # "closed"
  BY KeepingType
<1>6. a.pc # "reading" => a.body = NoBody
  BY <1>2, KeepingType
<1>7. CASE EndBody(Alone) \/ Stop(Alone)
  <2>1. Stream' = s
    BY <1>7 DEF EndBody, Stop, session, Stream
  <2>2. CASE a.pc = "reading"
    <3>1. Contract!EndBody
      BY <1>2, <1>3, <1>4, <1>5, <2>1, <2>2
         DEF Contract!EndBody, Contract!server, server, ListingRead, Stream
    <3> QED BY <3>1 DEF Contract!Next
  <2>3. CASE a.pc # "reading"
    BY <1>2, <1>3, <1>6, <2>1, <2>3, ContractStutters
  <2> QED BY <2>2, <2>3
<1>8. CASE Interrupt(Alone) \/ BreakBody(Alone)
  <2>1. PICK failure \in {"interrupted", "expired", "denied"} :
          /\ slot' = ObserveEvent(slot, Error(failure))
          /\ failure = "interrupted" => Interrupt(Alone)
          /\ failure # "interrupted" => BreakBody(Alone)
    BY <1>8 DEF Interrupt, BreakBody, Break
  <2>2. Stream' = Observe(s, Error(failure))
    <3>1. EntryIsSound(slot')
      BY <1>1, <2>1, ErrorIsSound
    <3>2. EntryFor(slot') = slot'
      BY <3>1, EntryType DEF EntryIsSound
    <3>3. slot'.stream = Observe(s, Error(failure))
      BY <2>1, EntryObserves DEF Stream
    <3> QED BY <3>2, <3>3 DEF Stream
  <2>3. a.body.phase # "closed"
    BY <1>5, <1>8 DEF Interrupt, BreakBody, At
  <2>4. CASE failure = "interrupted"
    <3>1. Contract!EndBody
      BY <1>2, <1>3, <1>4, <2>2, <2>3, <2>4, ContractMethods
         DEF Contract!EndBody, Contract!server, server, ListingRead, Stream
    <3> QED BY <3>1 DEF Contract!Next
  <2>5. CASE failure \in {"expired", "denied"}
    <3>1. Contract!BreakBody
      BY <1>2, <1>3, <1>4, <2>2, <2>3, <2>5, MayStillBreak, ContractMethods
         DEF Contract!BreakBody, Contract!server, server, ListingRead, Stream
    <3> QED BY <3>1 DEF Contract!Next
  <2> QED BY <2>4, <2>5
<1> QED BY <1>7, <1>8

(* What follows a round, as steps of the contract.                         *)
LEMMA ContractGoesOn ==
  ASSUME KInv, Readers = {Alone},
         \/ Abandon(Alone) \/ Refuse(Alone) \/ MatchState(Alone) \/ Reconnect(Alone)
         \/ Close(Alone)
  PROVE  Contract!Next \/ UNCHANGED Contract!vars
<1> DEFINE a == reader[Alone]
           s == Stream
           x == reader'[Alone]
<1>1. /\ Alone \in Readers /\ reader \in [Readers -> Reader] /\ a \in Reader
      /\ s \in WatchStream /\ slot \in Watched \cup {None}
      /\ EntryIsSound(EntryFor(slot)) /\ EntryFor(slot) \in Watched
  BY KeepingType
<1>2. /\ x.body = a.body /\ UNCHANGED server
      /\ a.pc \in {"abandon", "refuse", "state", "reconnect", "close"}
      /\ x.pc # "synchronise"
  BY <1>1 DEF Abandon, Refuse, MatchState, Reconnect, Close, Goto, At, Reader
<1>3. ListingRead = None /\ ListingRead' = None
  BY <1>2 DEF ListingRead, At
<1>4. Contract!Idle
  <2>1. a.body = NoBody
    BY <1>2, KeepingType
  <2> QED BY <1>3, <2>1 DEF Contract!Idle, ListingRead, NoBody
<1>5. ASSUME NEW u \in {BeginStreamingList(s), AbandonStreamingList(s), Reconnected(s)},
             slot' = OnStream(slot, u)
      PROVE  Stream' = u
  <2>1. u \in WatchStream
    <3> HIDE DEF s
    <3> QED BY <1>1, <1>5, MethodEffects
  <2>2. slot' \in Watched /\ slot'.stream = u
    BY <1>1, <1>5, <2>1 DEF OnStream, Watched
  <2> QED BY <2>2, EntryType DEF Stream
<1>6. CASE Refuse(Alone) \/ MatchState(Alone)
  <2>1. slot' \in {slot, EntryFor(slot)}
    BY <1>6 DEF Refuse, MatchState
  <2>2. EntryFor(EntryFor(slot)) = EntryFor(slot)
    BY <1>1, EntryType
  <2>3. Stream' = Stream
    BY <2>1, <2>2 DEF Stream
  <2> QED BY <1>2, <1>3, <2>3, ContractStutters
<1>7. CASE Abandon(Alone)
  <2>1. CASE slot # None /\ IsStreamingList(slot.stream)
    <3>1. s = slot.stream /\ s.staging # None
      BY <2>1 DEF Stream, EntryFor, IsStreamingList
    <3>2. Stream' = AbandonStreamingList(s)
      BY <1>5, <1>7, <2>1, <3>1 DEF Abandon
    <3>3. Contract!AbandonStream
      BY <1>2, <1>3, <1>4, <3>1, <3>2, ContractMethods
         DEF Contract!AbandonStream, Contract!IsStreamingList, Contract!server, server,
             ListingRead, Stream
    <3> QED BY <3>3 DEF Contract!Next
  <2>2. CASE ~ (slot # None /\ IsStreamingList(slot.stream))
    <3>1. Stream' = Stream
      BY <1>7, <2>2 DEF Abandon, Stream
    <3> QED BY <1>2, <1>3, <3>1, ContractStutters
  <2> QED BY <2>1, <2>2
<1>8. CASE Reconnect(Alone)
  <2>1. Stream' = Reconnected(s)
    BY <1>5, <1>8 DEF Reconnect, Stream
  <2>2. CASE s.state = "reconnecting"
    <3>1. Contract!Reconnect
      BY <1>2, <1>3, <1>4, <2>1, <2>2, ContractMethods
         DEF Contract!Reconnect, Contract!server, server, ListingRead, Stream
    <3> QED BY <3>1 DEF Contract!Next
  <2>3. CASE s.state # "reconnecting"
    <3>1. Stream' = Stream
      <4> HIDE DEF s
      <4>1. Reconnected(s) = s
        BY <1>1, <2>3 DEF Reconnected, CanReconnect, WatchStream
      <4> QED BY <2>1, <4>1 DEF s
    <3> QED BY <1>2, <1>3, <3>1, ContractStutters
  <2> QED BY <2>2, <2>3
<1>9. CASE Close(Alone)
  <2>1. CASE slot # None /\ AbsenceIsConclusive(slot.stream)
    <3>1. Stream' = Stream
      BY <1>9, <2>1 DEF Close, ViewClosed, Stream
    <3> QED BY <1>2, <1>3, <3>1, ContractStutters
  <2>2. CASE ~ (slot # None /\ AbsenceIsConclusive(slot.stream))
    <3>1. Stream' = NewStream
      BY <1>9, <2>2 DEF Close, ViewClosed, Stream, EntryFor, NewWatched
    <3>2. s.state # "live"
      BY <2>2 DEF Stream, EntryFor, NewWatched, NewStream, AbsenceIsConclusive
    <3>3. Contract!Release
      BY <1>2, <1>3, <1>4, <3>1, <3>2, ContractMethods
         DEF Contract!Release, Contract!AbsenceIsConclusive, Contract!server, server,
             ListingRead, Stream
    <3> QED BY <3>3 DEF Contract!Next
  <2> QED BY <2>1, <2>2
<1> QED BY <1>6, <1>7, <1>8, <1>9

(* A step is paid for where what it adds to the gaps, it takes elsewhere.  *)
LEMMA GapsPaid ==
  ASSUME KInv, Readers = {Alone}, NEW x, NEW t, NEW n \in Nat,
         BreakIsAGap(t), x.left \in Nat, x.left <= Invocations,
         Len(t.gaps) \in Nat, Position(x, t) \in Nat,
         Len(t.gaps) + Owed(x, t) + x.left + Position(reader[Alone], Stream) + breaks
           <= Len(Stream.gaps) + Owed(reader[Alone], Stream) + reader[Alone].left
              + Position(x, t) + n
  PROVE  GapsStand(x, t, n)
<1> DEFINE a == reader[Alone]
           s == Stream
           g == Len(s.gaps)
           o == Owed(a, s)
           l == a.left
           p == Position(a, s)
           h == Len(t.gaps)
           q == Position(x, t)
           m == x.left
           w == Owed(x, t)
<1>1. g \in Nat /\ p \in Nat /\ l \in Nat /\ breaks \in Nat /\ Invocations \in Nat
  BY KeepingType, ViewAssumption
<1>2. o \in Nat /\ w \in Nat
  BY DEF Owed
<1>3. g + o + l <= p + breaks + Invocations /\ Now <= MaxVersion
  BY DEF KInv, GapsStand
<1>4. h + w + m + p + breaks <= g + o + l + q + n /\ h \in Nat /\ q \in Nat /\ m \in Nat
  OBVIOUS
<1>5. h + w + m <= q + n + Invocations
  <2> HIDE DEF a, s, g, o, l, p, h, q, m, w
  <2> QED BY <1>1, <1>2, <1>3, <1>4
<1> QED BY <1>3, <1>5 DEF GapsStand

(* Sums compared term by term.                                             *)
LEMMA PaidByMoving ==
  ASSUME NEW h \in Nat, NEW p \in Nat, NEW m \in Nat, NEW g \in Nat, NEW o \in Nat,
         NEW q \in Nat, NEW n \in Nat,
         \/ h <= g /\ p <= q /\ m <= n
         \/ h <= g + 1 /\ p <= q /\ m + 1 <= n
         \/ h <= g + 1 /\ p + 1 <= q /\ m <= n
         \/ h <= g + o /\ p <= q /\ m <= n
  PROVE  h + p + m <= g + o + q + n
OBVIOUS

(* What is left is the same on both sides.                                 *)
LEMMA PaidBeside ==
  ASSUME NEW h \in Nat, NEW p \in Nat, NEW m \in Nat, NEW g \in Nat, NEW o \in Nat,
         NEW q \in Nat, NEW n \in Nat, NEW l \in Nat,
         h + p + m <= g + o + q + n
  PROVE  h + 0 + l + p + m <= g + o + l + q + n
OBVIOUS

(* Outside a listing, a step that adds no more gaps than the position and  *)
(* the breaks move on is paid for.                                         *)
LEMMA StillPaid ==
  ASSUME KInv, Readers = {Alone}, NEW x, NEW t, NEW n \in Nat,
         BreakIsAGap(t), x.pc # "synchronise", x.left = reader[Alone].left,
         Len(t.gaps) \in Nat, Position(x, t) \in Nat,
         Len(t.gaps) + Position(reader[Alone], Stream) + breaks
           <= Len(Stream.gaps) + Owed(reader[Alone], Stream) + Position(x, t) + n
  PROVE  GapsStand(x, t, n)
<1> DEFINE a == reader[Alone]
           s == Stream
           g == Len(s.gaps)
           o == Owed(a, s)
           l == a.left
           p == Position(a, s)
           h == Len(t.gaps)
           q == Position(x, t)
           m == x.left
           w == Owed(x, t)
<1>1. g \in Nat /\ p \in Nat /\ l \in Nat /\ breaks \in Nat /\ l <= Invocations
  BY KeepingType DEF KInv, GapsStand
<1>2. o \in Nat /\ w = 0 /\ m = l
  BY DEF Owed
<1>3. h + p + breaks <= g + o + q + n /\ h \in Nat /\ q \in Nat
  OBVIOUS
<1>4. h + w + m + p + breaks <= g + o + l + q + n
  <2> HIDE DEF a, s, g, o, l, p, h, q, m, w
  <2>1. h + 0 + l + p + breaks <= g + o + l + q + n
    BY <1>1, <1>2, <1>3, PaidBeside
  <2> QED BY <1>2, <2>1
<1>5. /\ Len(t.gaps) + Owed(x, t) + x.left + Position(reader[Alone], Stream) + breaks
           <= Len(Stream.gaps) + Owed(reader[Alone], Stream) + reader[Alone].left
              + Position(x, t) + n
      /\ x.left \in Nat /\ x.left <= Invocations
  BY <1>1, <1>2, <1>4
<1> QED BY <1>5, GapsPaid

(* Steps that leave the stream as it is.                                   *)
LEMMA KeepsAtRest ==
  ASSUME KInv, Readers = {Alone},
         \/ Acquire(Alone) \/ SyncRefused(Alone) \/ Acquisition(Alone) \/ Round(Alone)
         \/ Open(Alone) \/ OpenDeclined(Alone) \/ EndBody(Alone) \/ Relist(Alone)
         \/ Stop(Alone) \/ Refuse(Alone) \/ MatchState(Alone)
  PROVE  /\ RoundStands(reader'[Alone], EntryFor(slot').stream)
         /\ GapsStand(reader'[Alone], EntryFor(slot').stream, breaks')
<1> DEFINE a == reader[Alone]
           s == Stream
           x == reader'[Alone]
<1>1. /\ Alone \in Readers /\ reader \in [Readers -> Reader] /\ a \in Reader
      /\ VersionsAreReal(a) /\ Now \in Nat /\ breaks \in Nat /\ a.left \in Nat
      /\ s.checkpoint # None => s.checkpoint \in 1..Now
      /\ Len(s.gaps) \in Nat /\ Position(a, s) \in 1..Now
      /\ a.pc \notin {"reading", "acquisition"} => a.body = NoBody
  BY KeepingType
<1>2. Stands(a, s) /\ RoundStands(a, s) /\ BreakIsAGap(s) /\ a.left <= Invocations
  BY DEF KInv, SInv, GapsStand
<1>3. EntryFor(slot').stream = s /\ breaks' = breaks
  BY StreamUntouched DEF KInv, Acquire, SyncRefused, Acquisition, Round, Open, OpenDeclined,
         EndBody, Relist, Stop, Refuse, MatchState
<1>4. NoBody.phase = "closed"
  BY DEF NoBody
<1>5. SUFFICES RoundStands(x, s) /\ GapsStand(x, s, breaks)
  BY <1>3
(* An invocation that goes on, with nothing more to pay.                   *)
<1>6. ASSUME x.left = a.left, x.pc # "synchronise" \/ ~ HasSynced(s),
             Position(x, s) \in Nat, Position(x, s) >= Position(a, s)
      PROVE  GapsStand(x, s, breaks)
  <2>1. Owed(x, s) = 0 /\ Owed(a, s) \in Nat
    BY <1>6 DEF Owed
  <2>2. Len(s.gaps) + Owed(x, s) + x.left + Position(a, s) + breaks
          <= Len(s.gaps) + Owed(a, s) + a.left + Position(x, s) + breaks
    <3> DEFINE g == Len(s.gaps)
               o == Owed(a, s)
               p == Position(a, s)
               q == Position(x, s)
               l == a.left
    <3>1. g \in Nat /\ o \in Nat /\ p \in Nat /\ q \in Nat /\ l \in Nat /\ p <= q
      BY <1>1, <1>6, <2>1
    <3> HIDE DEF g, o, p, q, l
    <3>2. g + 0 + l + p + breaks <= g + o + l + q + breaks
      BY <1>1, <3>1
    <3> QED BY <1>6, <2>1, <3>2 DEF g, o, p, q, l
  <2> HIDE DEF x
  <2> QED BY <1>1, <1>2, <1>6, <2>2, GapsPaid
<1>7. CASE Acquire(Alone)
  <2>1. /\ a.pc = "idle" /\ x.body = a.body /\ a.left > 0 /\ x.left = a.left - 1
        /\ x.pc \in {"begin", "synchronise"}
        /\ x.pc = "synchronise" => x.listing = Now
    BY <1>1, <1>7 DEF Acquire, At, Reader
  <2>2. a.body = NoBody
    BY <1>1, <2>1
  <2>3. RoundStands(x, s)
    <3>1. HasSynced(s) => s.checkpoint <= Now
      BY <1>1, <1>2 DEF Stands, CacheStands
    <3> HIDE DEF a, s, x
    <3> QED BY <1>2, <1>4, <2>1, <2>2, <3>1 DEF RoundStands
  <2>4. Position(x, s) = Position(a, s)
    <3> HIDE DEF a, s, x
    <3> QED BY <1>4, <2>1, <2>2 DEF Position
  <2>5. Owed(x, s) \in {0, 1} /\ Owed(a, s) = 0
    BY <2>1 DEF Owed
  <2>6. Len(s.gaps) + Owed(x, s) + x.left + Position(a, s) + breaks
          <= Len(s.gaps) + Owed(a, s) + a.left + Position(x, s) + breaks
    <3> DEFINE g == Len(s.gaps)
               o == Owed(x, s)
               p == Position(a, s)
               l == a.left
    <3>1. g \in Nat /\ o \in {0, 1} /\ p \in Nat /\ l \in Nat
      BY <1>1, <2>5
    <3> HIDE DEF g, o, p, l
    <3>2. g + o + (l - 1) + p + breaks <= g + 0 + l + p + breaks
      BY <1>1, <3>1
    <3> QED BY <2>1, <2>4, <2>5, <3>2 DEF g, o, p, l
  <2>7. x.left \in Nat /\ x.left <= Invocations
    <3> HIDE DEF a, s, x
    <3> QED BY <1>1, <1>2, <2>1, ViewAssumption
  <2>8. GapsStand(x, s, breaks)
    <3>1. Position(x, s) \in Nat
      BY <1>1, <2>4
    <3> HIDE DEF x
    <3> QED BY <1>1, <1>2, <2>6, <2>7, <3>1, GapsPaid
  <2> QED BY <2>3, <2>8
<1>8. CASE SyncRefused(Alone)
  <2>1. a.pc = "synchronise" /\ x.pc = "close" /\ x.body = a.body /\ x.left = a.left
    BY <1>1, <1>8 DEF SyncRefused, At, Reader
  <2>2. a.body = NoBody
    BY <1>1, <2>1
  <2>3. RoundStands(x, s)
    <3> HIDE DEF a, s, x
    <3> QED BY <1>4, <2>1, <2>2 DEF RoundStands
  <2>4. Position(x, s) \in Nat /\ Position(x, s) >= Position(a, s)
    <3> HIDE DEF a, s, x
    <3> QED BY <1>1, <1>4, <2>1, <2>2 DEF Position
  <2> QED BY <1>6, <2>1, <2>3, <2>4
<1>9. CASE Acquisition(Alone) \/ Round(Alone) \/ OpenDeclined(Alone)
  <2>1. /\ x.body = a.body /\ x.left = a.left /\ a.pc # "synchronise" /\ x.pc # "synchronise"
        /\ x.pc \notin {"refuse", "relist"}
    BY <1>1, <1>9 DEF Acquisition, Round, OpenDeclined, Goto, At, Reader
  <2>2. x.pc \in {"round", "open"} => s.state = "live" \/ s.staging # None
    <3>1. CASE Acquisition(Alone)
      BY <1>2, <3>1 DEF Acquisition, At, Stands, RequestStands
    <3>2. CASE Round(Alone)
      BY <1>2, <3>2 DEF Round, At, RoundStands
    <3>3. CASE OpenDeclined(Alone)
      BY <1>1, <3>3 DEF OpenDeclined, Goto, Reader
    <3> QED BY <1>9, <3>1, <3>2, <3>3
  <2>3. x.pc = "open" => x.streaming = (s.staging # None)
    <3>1. x.pc = "open" => x.streaming = (slot # None /\ IsStreamingList(slot.stream))
      BY <1>1, <1>9 DEF Acquisition, Round, OpenDeclined, Goto, Reader
    <3>2. (slot # None /\ IsStreamingList(slot.stream)) <=> s.staging # None
      BY DEF Stream, EntryFor, NewWatched, NewStream, IsStreamingList
    <3> HIDE DEF x
    <3> QED BY <3>1, <3>2
  <2>4. RoundStands(x, s)
    <3> HIDE DEF a, s, x
    <3> QED BY <1>2, <2>1, <2>2, <2>3 DEF RoundStands
  <2>5. Position(x, s) = Position(a, s)
    <3> HIDE DEF a, s, x
    <3> QED BY <2>1 DEF Position
  <2> HIDE DEF a, s, x
  <2> QED BY <1>1, <1>6, <2>1, <2>4, <2>5
<1>10. CASE Open(Alone)
  <2>1. a.pc = "open" /\ a.body = NoBody
    BY <1>1, <1>10 DEF Open, At
  <2>2. /\ a.streaming = (s.staging # None) /\ (s.state = "live" \/ s.staging # None)
        /\ s.state = "live" => a.from = s.checkpoint /\ s.checkpoint # None
    <3> HIDE DEF a, s
    <3> QED BY <1>2, <2>1 DEF Stands, RequestStands, RoundStands, CacheStands, HasSynced
  <2>3. /\ x.pc = "reading" /\ x.left = a.left
        /\ \/ x.body.phase = "initial" /\ x.body.at = Now
           \/ x.body.phase = "changes" /\ s.state = "live"
    <3>1. ASSUME NEW phase, NEW at, NEW todo, Opened(Alone, phase, at, todo)
          PROVE  /\ x.pc = "reading" /\ x.left = a.left
                 /\ x.body.phase = phase /\ x.body.at = at
      BY <1>1, <3>1 DEF Opened, Reader
    <3>2. CASE a.streaming
      BY <1>10, <3>1, <3>2 DEF Open
    <3>3. CASE ~ a.streaming
      BY <1>10, <2>2, <3>1, <3>3 DEF Open
    <3> QED BY <3>2, <3>3
  <2>4. RoundStands(x, s)
    <3> HIDE DEF a, s, x
    <3> QED BY <2>3 DEF RoundStands
  <2>5. Position(x, s) = Position(a, s)
    <3> HIDE DEF a, s, x
    <3> QED BY <1>4, <2>1, <2>3 DEF Position, HasSynced
  <2>6. x.pc # "synchronise"
    BY <2>3
  <2> HIDE DEF a, s, x
  <2> QED BY <1>1, <1>6, <2>3, <2>4, <2>5, <2>6
<1>11. CASE EndBody(Alone) \/ Stop(Alone)
  <2>1. /\ x.body = NoBody /\ x.left = a.left /\ x.pc \in {"abandon", "close"}
        /\ a.pc # "synchronise"
    BY <1>1, <1>11 DEF EndBody, Stop, At, Reader
  <2>2. RoundStands(x, s)
    <3> HIDE DEF a, s, x
    <3> QED BY <1>4, <2>1 DEF RoundStands
  <2>3. Position(x, s) \in Nat /\ Position(x, s) >= Position(a, s)
    <3> HIDE DEF a, s, x
    <3> QED BY <1>1, <1>4, <2>1 DEF Position
  <2> QED BY <1>6, <2>1, <2>2, <2>3
<1>12. CASE Relist(Alone) \/ Refuse(Alone)
  <2>1. /\ a.pc \in {"relist", "refuse"} /\ x.body = a.body /\ x.left = a.left
        /\ x.pc \in {"synchronise", "relist"}
        /\ x.pc = "synchronise" => x.listing = Now
    BY <1>1, <1>12 DEF Relist, Refuse, Goto, At, Reader
  <2>2. a.body = NoBody /\ ~ HasSynced(s)
    BY <1>1, <1>2, <2>1 DEF RoundStands
  <2>3. RoundStands(x, s)
    <3> HIDE DEF a, s, x
    <3> QED BY <1>4, <2>1, <2>2 DEF RoundStands
  <2>4. Position(x, s) \in Nat /\ Position(x, s) >= Position(a, s)
    <3> HIDE DEF a, s, x
    <3> QED BY <1>1, <1>4, <2>1, <2>2 DEF Position
  <2> QED BY <1>6, <2>1, <2>2, <2>3, <2>4
<1>13. CASE MatchState(Alone)
  <2>1. a.pc = "state"
    BY <1>13 DEF MatchState, At
  <2>2. slot'.stream = s
    BY <1>13 DEF MatchState, Stream
  <2>3. /\ x.body = a.body /\ x.left = a.left
        /\ \/ s.state = "live" /\ x.pc = "round"
           \/ s.state = "gap_detected" /\ x.pc = "relist"
           \/ x.pc \in {"reconnect", "close"}
    BY <1>1, <1>13, <2>2 DEF MatchState, Goto, Reader
  <2>4. a.body = NoBody
    BY <1>1, <2>1
  <2>5. RoundStands(x, s)
    <3> HIDE DEF a, s, x
    <3> QED BY <1>4, <2>3, <2>4 DEF RoundStands, HasSynced
  <2>6. Position(x, s) = Position(a, s) /\ x.pc # "synchronise"
    <3> HIDE DEF a, s, x
    <3> QED BY <2>1, <2>3 DEF Position
  <2> HIDE DEF a, s, x
  <2> QED BY <1>1, <1>6, <2>3, <2>5, <2>6
<1> QED BY <1>7, <1>8, <1>9, <1>10, <1>11, <1>12, <1>13

(* A change that makes the log forget moves the position, too.             *)
LEMMA KeepsWhileFed ==
  ASSUME KInv, Readers = {Alone},
         \/ SendInitial(Alone) \/ EndInitial(Alone) \/ Deliver(Alone) \/ SendBookmark(Alone)
  PROVE  /\ RoundStands(reader'[Alone], EntryFor(slot').stream)
         /\ GapsStand(reader'[Alone], EntryFor(slot').stream, breaks')
<1> DEFINE a == reader[Alone]
           s == Stream
           x == reader'[Alone]
           t == EntryFor(slot').stream
           body == a.body
<1> SUFFICES RoundStands(x, t) /\ GapsStand(x, t, breaks')
  OBVIOUS
<1>1. /\ Alone \in Readers /\ reader \in [Readers -> Reader] /\ a \in Reader
      /\ s \in WatchStream /\ Now \in Nat /\ breaks \in Nat /\ a.left \in Nat
      /\ Len(s.gaps) \in Nat /\ Position(a, s) \in 1..Now
      /\ body.phase \in {"initial", "changes"} /\ body.at \in 1..Now
      /\ \A v \in 1..Now : v \in Version /\ history[v] \in Cache
      /\ XInv
  <2>1. a.pc = "reading"
    BY DEF SendInitial, EndInitial, Deliver, SendBookmark, SendsChanges, Reading, At
  <2> QED BY <2>1, KeepingType, AloneType DEF KInv, SInv
<1>2. BreakIsAGap(s) /\ a.left <= Invocations
  BY DEF KInv, GapsStand
<1>3. a.pc = "reading"
  BY DEF SendInitial, EndInitial, Deliver, SendBookmark, SendsChanges, Reading, At
<1>4. \/ /\ s.state = "live" /\ s.staging = None /\ body.phase = "changes"
         /\ s.checkpoint = body.at /\ s.objects = history[body.at]
      \/ /\ ~ HasSynced(s) /\ s.state # "live"
         /\ s.staging # None => body.phase = "initial" /\ s.staging = Sent(body)
  BY ReadStands DEF KInv
<1>5. x.left = a.left /\ x.pc \in {"reading", "acquisition"} /\ breaks' = breaks
  <2>1. \E e, next : Apply(Alone, e, next)
    BY DEF SendInitial, EndInitial, Deliver, SendBookmark
  <2> QED BY <1>1, <2>1 DEF Apply, Reader
<1>6. ASSUME x.body.phase \in {"initial", "changes"}, BreakIsAGap(t), Len(t.gaps) \in Nat,
             Position(x, t) \in Nat,
             Len(t.gaps) + Position(a, s) <= Len(s.gaps) + Position(x, t)
      PROVE  RoundStands(x, t) /\ GapsStand(x, t, breaks')
  <2>1. RoundStands(x, t)
    <3> HIDE DEF x, t
    <3> QED BY <1>5, <1>6 DEF RoundStands
  <2>2. Owed(x, t) = 0 /\ Owed(a, s) = 0
    <3> HIDE DEF x, t, a, s
    <3> QED BY <1>3, <1>5 DEF Owed
  <2>3. Len(t.gaps) + Owed(x, t) + x.left + Position(a, s) + breaks
          <= Len(s.gaps) + Owed(a, s) + a.left + Position(x, t) + breaks
    <3> DEFINE g == Len(s.gaps)
               h == Len(t.gaps)
               p == Position(a, s)
               q == Position(x, t)
               l == a.left
    <3>1. g \in Nat /\ h \in Nat /\ p \in Nat /\ q \in Nat /\ l \in Nat /\ h + p <= g + q
      BY <1>1, <1>6
    <3> HIDE DEF g, h, p, q, l
    <3>2. h + 0 + l + p + breaks <= g + 0 + l + q + breaks
      BY <1>1, <3>1
    <3> QED BY <1>5, <2>2, <3>2 DEF g, h, p, q, l
  <2> HIDE DEF x, t
  <2> QED BY <1>1, <1>2, <1>5, <1>6, <2>1, <2>3, GapsPaid
<1>7. CASE SendInitial(Alone)
  <2>1. body.phase = "initial"
    BY <1>1, <1>7 DEF SendInitial, Reading
  <2>2. PICK k \in Keys :
          LET o    == history[body.at][k]
              next == [body EXCEPT !.todo = body.todo \ {k}]
          IN  /\ k \in body.todo /\ o \in Object /\ o.rv \in 1..Now
              /\ next \in Body /\ next.phase = body.phase /\ next.at = body.at
              /\ next.todo = body.todo \ {k} /\ BodyIsReal(next)
              /\ EntryIsSound(ObserveEvent(slot, Change("added", k, o)))
              /\ Apply(Alone, Change("added", k, o), next)
    BY <1>1, <1>7, SendInitialEvent
  <2> DEFINE o == history[body.at][k]
             next == [body EXCEPT !.todo = body.todo \ {k}]
             e == Change("added", k, o)
  <2>3. /\ o \in Object /\ next.phase = body.phase /\ next.at = body.at
        /\ EntryIsSound(ObserveEvent(slot, e)) /\ Apply(Alone, e, next)
    BY <2>2
  <2>4. x.body = next /\ t = Observe(s, e)
    <3> HIDE DEF e, next
    <3> QED BY <2>3, ApplyMoves DEF KInv
  <2>5. s.state # "live" /\ ~ HasSynced(s)
    BY <1>4, <2>1
  <2>6. LET u == Observe(s, e)
        IN  /\ BreakIsAGap(u)
            /\ s.state # "live" => u.gaps = s.gaps
            /\ Len(u.gaps) \in {Len(s.gaps), Len(s.gaps) + 1}
    <3> HIDE DEF s, o
    <3> QED BY <1>1, <1>2, <2>3, GapsOfChange DEF ChangeClass
  <2>7. t.state = s.state
    <3>1. LET u == Observe(s, e)
          IN  /\ u \in WatchStream
              /\ Reception(s, e) = IF "added" = "added" /\ s.staging # None THEN "staged"
                                    ELSE IF s.state = "live" THEN "applied" ELSE "discarded"
              /\ Reception(s, e) = "staged" =>
                    /\ u.state = s.state /\ u.checkpoint = s.checkpoint
                    /\ u.objects = s.objects /\ u.pending_writes = s.pending_writes
                    /\ u.staging = [s.staging EXCEPT ![k] = o]
              /\ Reception(s, e) = "discarded" => u = s
              /\ Reception(s, e) = "applied" =>
                    /\ u.state = s.state /\ u.checkpoint = o.rv
                    /\ u.staging = s.staging
                    /\ u.pending_writes = s.pending_writes \ {k}
                    /\ u.objects = [s.objects EXCEPT ![k] = IF "added" = "deleted" THEN None ELSE o]
      <4> HIDE DEF o, s
      <4> QED BY <1>1, <2>3, ChangeEffect DEF ChangeClass
    <3> HIDE DEF e
    <3> QED BY <2>4, <2>5, <3>1
  <2> HIDE DEF e
  <2>8. BreakIsAGap(t) /\ t.gaps = s.gaps
    BY <2>4, <2>5, <2>6
  <2>9. Position(x, t) = body.at /\ Position(a, s) = body.at /\ x.body.phase = "initial"
    <3>1. x.body.phase = "initial" /\ x.body.at = body.at
      BY <2>1, <2>3, <2>4
    <3> HIDE DEF x, t, s
    <3> QED BY <1>3, <1>5, <2>1, <2>5, <2>7, <3>1 DEF Position, HasSynced
  <2> HIDE DEF x, t, s, body
  <2> QED BY <1>1, <1>6, <2>8, <2>9
<1>8. CASE EndInitial(Alone)
  <2> DEFINE next == [body EXCEPT !.phase = "changes"]
             e == InitialEventsEnd(body.at)
  <2>1. /\ body.at \in Version /\ next.phase = "changes" /\ next.at = body.at
        /\ EntryIsSound(ObserveEvent(slot, e)) /\ Apply(Alone, e, next)
    BY <1>1, <1>8, EndInitialEvent
  <2>2. x.body = next /\ t = Observe(s, e)
    <3> HIDE DEF e, next
    <3> QED BY <2>1, ApplyMoves DEF KInv
  <2>3. Observe(s, e) =
              IF s.staging # None THEN Listed(s, s.staging, body.at) ELSE Checkpointed(s, body.at)
    BY DEF Observe, InitialEventsEnd
  <2>4. body.phase = "initial" /\ s.state # "live" /\ ~ HasSynced(s)
    BY <1>4, <1>8 DEF EndInitial, Reading
  <2>5. x.body.phase = "changes"
    BY <2>1, <2>2
  <2> HIDE DEF e
  <2>6. Position(a, s) = body.at
    <3> HIDE DEF s
    <3> QED BY <1>3, <2>4 DEF Position
  <2>7. CASE s.staging = None
    <3>1. t = s
      BY <2>2, <2>3, <2>4, <2>7 DEF Checkpointed
    <3>2. Position(x, t) = Now
      <4> HIDE DEF x, t, s
      <4> QED BY <1>5, <2>4, <2>5, <3>1 DEF Position
    <3> HIDE DEF x, t, s, body
    <3> QED BY <1>1, <1>2, <1>6, <2>5, <2>6, <3>1, <3>2
  <2>8. CASE s.staging # None
    <3>1. t = Listed(s, s.staging, body.at)
      BY <2>2, <2>3, <2>8
    <3>2. t.state = "live" /\ t.checkpoint = body.at
      BY <3>1 DEF Listed
    <3>3. Position(x, t) = body.at
      <4> HIDE DEF x, t
      <4> QED BY <3>2 DEF Position, HasSynced
    <3>4. LET u == Listed(s, s.staging, body.at)
          IN  /\ BreakIsAGap(u)
              /\ Len(u.gaps) \in {Len(s.gaps), Len(s.gaps) + 1}
              /\ ~ HasSynced(s) => Len(u.gaps) = Len(s.gaps)
      <4> HIDE DEF s, body
      <4> QED BY <1>1, <1>2, GapsOfListing
    <3>5. BreakIsAGap(t) /\ Len(t.gaps) = Len(s.gaps)
      BY <2>4, <3>1, <3>4
    <3> HIDE DEF x, t, s, body
    <3> QED BY <1>1, <1>6, <2>5, <2>6, <3>3, <3>5
  <2> QED BY <2>7, <2>8
<1>9. CASE Deliver(Alone)
  <2>1. body.phase = "changes"
    BY <1>1, <1>9 DEF Deliver, SendsChanges, Reading
  <2>2. PICK v \in 1..Now, k \in Keys, class \in ChangeClass, o \in Object :
          LET next == [body EXCEPT !.at = v]
          IN  /\ o.rv = v
              /\ history[v] = [history[body.at] EXCEPT ![k] = IF class = "deleted"
                                                             THEN None ELSE o]
              /\ next \in Body /\ next.phase = body.phase /\ next.at = v /\ BodyIsReal(next)
              /\ EntryIsSound(ObserveEvent(slot, Change(class, k, o)))
              /\ Apply(Alone, Change(class, k, o), next)
    BY <1>1, <1>9, DeliverEvent
  <2> DEFINE next == [body EXCEPT !.at = v]
             e == Change(class, k, o)
  <2>3. /\ next.phase = body.phase /\ next.at = v /\ o.rv = v
        /\ EntryIsSound(ObserveEvent(slot, e)) /\ Apply(Alone, e, next)
    BY <2>2
  <2>4. x.body = next /\ t = Observe(s, e)
    <3> HIDE DEF e, next
    <3> QED BY <2>3, ApplyMoves DEF KInv
  <2>5. x.body.phase = "changes" /\ x.body.at = v
    BY <2>1, <2>3, <2>4
  <2>6. v > body.at
    <3>1. PICK w \in 1..Now, j \in Keys :
            IsNext(body.at, w, j) /\ Apply(Alone, EventAt(w, j), [body EXCEPT !.at = w])
      BY <1>9 DEF Deliver
    <3>2. x.body = [body EXCEPT !.at = w]
      BY <1>1, <3>1 DEF Apply, Reader
    <3>3. body \in Body
      BY <1>1 DEF Reader
    <3>4. x.body.at = w
      <4> HIDE DEF x, body
      <4> QED BY <3>2, <3>3 DEF Body
    <3>5. w > body.at
      BY <1>1, <3>1 DEF IsNext
    <3> QED BY <2>5, <3>4, <3>5
  <2>7. LET u == Observe(s, e)
        IN  /\ BreakIsAGap(u)
            /\ s.state # "live" => u.gaps = s.gaps
            /\ Len(u.gaps) \in {Len(s.gaps), Len(s.gaps) + 1}
    <3> HIDE DEF s
    <3> QED BY <1>1, <1>2, GapsOfChange
  <2>8. LET u == Observe(s, e)
        IN  /\ u \in WatchStream
            /\ Reception(s, e) = IF class = "added" /\ s.staging # None THEN "staged"
                                  ELSE IF s.state = "live" THEN "applied" ELSE "discarded"
            /\ Reception(s, e) = "staged" =>
                  /\ u.state = s.state /\ u.checkpoint = s.checkpoint
                  /\ u.objects = s.objects /\ u.pending_writes = s.pending_writes
                  /\ u.staging = [s.staging EXCEPT ![k] = o]
            /\ Reception(s, e) = "discarded" => u = s
            /\ Reception(s, e) = "applied" =>
                  /\ u.state = s.state /\ u.checkpoint = o.rv
                  /\ u.staging = s.staging
                  /\ u.pending_writes = s.pending_writes \ {k}
                  /\ u.objects = [s.objects EXCEPT ![k] = IF class = "deleted" THEN None ELSE o]
    <3> HIDE DEF s
    <3> QED BY <1>1, ChangeEffect
  <2> HIDE DEF e
  <2>9. s.staging = None
    BY <1>4, <2>1
  <2>10. CASE s.state = "live"
    <3>1. t.state = "live" /\ t.checkpoint = v /\ s.checkpoint = body.at
      BY <1>4, <2>3, <2>4, <2>8, <2>9, <2>10 DEF HasSynced
    <3>2. BreakIsAGap(t) /\ Len(t.gaps) \in {Len(s.gaps), Len(s.gaps) + 1}
      BY <2>4, <2>7
    <3>3. Position(x, t) = v /\ Position(a, s) = body.at
      <4> HIDE DEF x, t, s, a
      <4> QED BY <2>10, <3>1 DEF Position, HasSynced
    <3>4. Len(t.gaps) + Position(a, s) <= Len(s.gaps) + Position(x, t)
      <4> DEFINE g == Len(s.gaps)
                 h == Len(t.gaps)
      <4>1. g \in Nat /\ h \in {g, g + 1}
        BY <1>1, <3>2
      <4> HIDE DEF g, h, x, t, s, body
      <4>2. h + body.at <= g + v
        BY <1>1, <2>6, <4>1
      <4> QED BY <3>3, <4>2 DEF g, h
    <3>5. Len(t.gaps) \in Nat
      <4> HIDE DEF t, s
      <4> QED BY <1>1, <3>2
    <3> HIDE DEF x, t, s, body
    <3> QED BY <1>6, <2>5, <3>2, <3>3, <3>4, <3>5
  <2>11. CASE s.state # "live"
    <3>1. t = s /\ ~ HasSynced(s)
      BY <1>4, <2>4, <2>8, <2>9, <2>11
    <3>2. Position(x, t) = Now /\ Position(a, s) = Now
      <4> HIDE DEF x, t, s
      <4> QED BY <1>3, <1>5, <2>1, <2>5, <3>1 DEF Position
    <3> HIDE DEF x, t, s, body
    <3> QED BY <1>1, <1>2, <1>6, <2>5, <3>1, <3>2
  <2> QED BY <2>10, <2>11
<1>10. CASE SendBookmark(Alone)
  <2>1. body.phase = "changes"
    BY <1>1, <1>10 DEF SendBookmark, SendsChanges, Reading
  <2>2. PICK v \in 1..Now :
          LET next == [body EXCEPT !.at = v]
          IN  /\ v \in Version /\ history[v] = history[body.at]
              /\ next \in Body /\ next.phase = body.phase /\ next.at = v /\ BodyIsReal(next)
              /\ EntryIsSound(ObserveEvent(slot, Bookmark(v)))
              /\ Apply(Alone, Bookmark(v), next)
    BY <1>1, <1>10, SendBookmarkEvent
  <2> DEFINE next == [body EXCEPT !.at = v]
             e == Bookmark(v)
  <2>3. /\ next.phase = body.phase /\ next.at = v /\ v \in Version
        /\ EntryIsSound(ObserveEvent(slot, e)) /\ Apply(Alone, e, next)
    BY <2>2
  <2>4. x.body = next /\ t = Observe(s, e)
    <3> HIDE DEF e, next
    <3> QED BY <2>3, ApplyMoves DEF KInv
  <2>5. x.body.phase = "changes" /\ x.body.at = v
    BY <2>1, <2>3, <2>4
  <2>6. v > body.at
    <3>1. PICK w \in (body.at + 1)..Now : Apply(Alone, Bookmark(w), [body EXCEPT !.at = w])
      BY <1>10 DEF SendBookmark
    <3>2. x.body = [body EXCEPT !.at = w]
      BY <1>1, <3>1 DEF Apply, Reader
    <3>3. body \in Body
      BY <1>1 DEF Reader
    <3>4. x.body.at = w
      <4> HIDE DEF x, body
      <4> QED BY <3>2, <3>3 DEF Body
    <3>5. w > body.at
      <4> HIDE DEF body
      <4> QED BY <1>1, <3>1
    <3> QED BY <2>5, <3>4, <3>5
  <2>7. t = Checkpointed(s, v)
    <3>1. Observe(s, e) = Checkpointed(s, v)
      BY DEF Observe, Bookmark
    <3> QED BY <2>4, <3>1
  <2>8. /\ t.gaps = s.gaps /\ t.segments = s.segments /\ t.state = s.state
        /\ t.checkpoint = IF s.state = "live" THEN v ELSE s.checkpoint
    <3> HIDE DEF s, t
    <3> QED BY <1>1, <2>7 DEF Checkpointed, WatchStream
  <2>9. BreakIsAGap(t)
    BY <1>2, <2>8 DEF BreakIsAGap, HasOpenGap
  <2>10. Position(x, t) \in Nat /\ Position(a, s) <= Position(x, t)
    <3>1. CASE s.state = "live"
      <4>1. s.checkpoint = body.at
        BY <1>4, <3>1 DEF HasSynced
      <4> HIDE DEF x, t, s, body
      <4> QED BY <1>1, <2>6, <2>8, <3>1, <4>1 DEF Position, HasSynced
    <3>2. CASE s.state # "live"
      <4>1. ~ HasSynced(s) /\ ~ HasSynced(t)
        BY <1>4, <2>8, <3>2 DEF HasSynced
      <4> HIDE DEF x, t, s
      <4> QED BY <1>1, <1>3, <1>5, <2>1, <2>5, <4>1 DEF Position
    <3> QED BY <3>1, <3>2
  <2> HIDE DEF x, t, s, body
  <2> QED BY <1>1, <1>6, <2>5, <2>8, <2>9, <2>10
<1> QED BY <1>7, <1>8, <1>9, <1>10

(* A break is paid for by the server, or by the history it forgot.         *)
LEMMA KeepsWhileBroken ==
  ASSUME KInv, Readers = {Alone},
         \/ OpenExpired(Alone) \/ OpenDenied(Alone) \/ Interrupt(Alone) \/ BreakBody(Alone)
  PROVE  /\ RoundStands(reader'[Alone], EntryFor(slot').stream)
         /\ GapsStand(reader'[Alone], EntryFor(slot').stream, breaks')
<1> DEFINE a == reader[Alone]
           s == Stream
           x == reader'[Alone]
           t == EntryFor(slot').stream
<1> SUFFICES RoundStands(x, t) /\ GapsStand(x, t, breaks')
  OBVIOUS
<1>1. /\ Alone \in Readers /\ reader \in [Readers -> Reader] /\ a \in Reader
      /\ s \in WatchStream /\ EntryIsSound(EntryFor(slot))
      /\ Now \in Nat /\ oldest \in 1..Now /\ breaks \in Nat /\ a.left \in Nat
      /\ Len(s.gaps) \in Nat /\ Position(a, s) \in 1..Now
      /\ s.checkpoint # None => s.checkpoint \in 1..Now
  BY KeepingType
<1>2. BreakIsAGap(s) /\ a.left <= Invocations /\ Stands(a, s) /\ RoundStands(a, s)
  BY DEF KInv, GapsStand, SInv
<1>3. /\ x.pc = "abandon" /\ x.body = NoBody /\ x.left = a.left
      /\ a.pc \in {"open", "reading"} /\ NoBody.phase = "closed"
  <2>1. a.pc \in {"open", "reading"}
    BY DEF OpenExpired, OpenDenied, Interrupt, BreakBody, At
  <2>2. \/ reader' = [reader EXCEPT ![Alone].pc = "abandon", ![Alone].body = NoBody,
                                   ![Alone].seen = NothingSeen]
        \/ reader' = [reader EXCEPT ![Alone].pc = "abandon", ![Alone].body = NoBody]
    <3> HIDE DEF NoBody, NothingSeen
    <3> QED BY DEF OpenExpired, OpenDenied, Interrupt, BreakBody, Break
  <2>3. \/ x = [a EXCEPT !.pc = "abandon", !.body = NoBody, !.seen = NothingSeen]
        \/ x = [a EXCEPT !.pc = "abandon", !.body = NoBody]
    <3> HIDE DEF NoBody, NothingSeen
    <3> QED BY <1>1, <2>2
  <2>4. x.pc = "abandon" /\ x.body = NoBody /\ x.left = a.left
    <3> HIDE DEF a, x
    <3> QED BY <1>1, <2>3 DEF Reader
  <2>5. NoBody.phase = "closed"
    BY DEF NoBody
  <2> QED BY <2>1, <2>4, <2>5
<1>4. PICK failure \in {"interrupted", "expired", "denied"} :
        /\ slot' = ObserveEvent(slot, Error(failure))
        /\ \/ failure = "interrupted" /\ breaks' = breaks
           \/ failure = "expired" /\ breaks' = breaks /\ OpenExpired(Alone)
           \/ failure \in {"expired", "denied"} /\ breaks' = breaks + 1
  BY DEF OpenExpired, OpenDenied, Interrupt, BreakBody, Break
<1>5. t = Observe(s, Error(failure))
  <2>1. EntryIsSound(slot')
    BY <1>1, <1>4, ErrorIsSound
  <2>2. EntryFor(slot') = slot'
    BY <2>1, EntryType DEF EntryIsSound
  <2>3. ObserveEvent(slot, Error(failure)).stream = Observe(EntryFor(slot).stream, Error(failure))
    BY EntryObserves
  <2> QED BY <1>4, <2>2, <2>3 DEF Stream
<1>6. LET u == Observe(s, Error(failure))
      IN  /\ BreakIsAGap(u)
          /\ failure = "interrupted" => u.gaps = s.gaps
          /\ Len(u.gaps) \in {Len(s.gaps), Len(s.gaps) + 1}
  <2> HIDE DEF s
  <2> QED BY <1>1, <1>2, GapsOfError
<1>7. LET u == Observe(s, Error(failure))
      IN  /\ u \in WatchStream
          /\ u.objects = s.objects
          /\ u.pending_writes = s.pending_writes
          /\ Reception(s, Error(failure)) \in {"suspended", "continuity_broken"}
          /\ failure = "interrupted" =>
               /\ u.state = IF s.state = "live" THEN "reconnecting" ELSE s.state
               /\ u.checkpoint = s.checkpoint
               /\ u.staging = s.staging
          /\ failure # "interrupted" =>
               /\ u.state \in {"gap_detected", "denied"}
               /\ u.checkpoint \in {s.checkpoint, None}
               /\ u.staging = None
  <2> HIDE DEF s
  <2> QED BY <1>1, ErrorEffect
<1>8. /\ BreakIsAGap(t) /\ Len(t.gaps) \in {Len(s.gaps), Len(s.gaps) + 1}
      /\ failure = "interrupted" =>
           /\ Len(t.gaps) = Len(s.gaps) /\ t.checkpoint = s.checkpoint
           /\ t.state = IF s.state = "live" THEN "reconnecting" ELSE s.state
      /\ failure # "interrupted" => t.state \in {"gap_detected", "denied"}
  BY <1>5, <1>6, <1>7
<1>9. RoundStands(x, t)
  <2> HIDE DEF x, t
  <2> QED BY <1>3 DEF RoundStands
<1>10. Owed(x, t) = 0 /\ Owed(a, s) = 0
  <2> HIDE DEF x, t, a, s
  <2> QED BY <1>3 DEF Owed
<1>11. breaks' \in Nat /\ Len(t.gaps) \in Nat /\ x.pc # "synchronise"
  BY <1>1, <1>3, <1>4, <1>8
<1>12. CASE failure = "interrupted"
  <2>1. Position(x, t) \in Nat /\ Position(a, s) <= Position(x, t)
    <3> HIDE DEF x, t, a, s
    <3> QED BY <1>1, <1>2, <1>3, <1>8, <1>12 DEF Position, HasSynced, Stands, CacheStands
  <2>2. breaks' = breaks
    BY <1>4, <1>12
  <2>3. Len(t.gaps) + Position(a, s) + breaks
          <= Len(s.gaps) + Owed(a, s) + Position(x, t) + breaks'
    <3>1. Len(t.gaps) <= Len(s.gaps) /\ Position(a, s) \in Nat
      BY <1>1, <1>8, <1>12
    <3> HIDE DEF a, s, x, t
    <3> QED BY <1>1, <1>10, <1>11, <2>1, <2>2, <3>1, PaidByMoving
  <2> HIDE DEF x, t
  <2> QED BY <1>3, <1>8, <1>9, <1>11, <2>1, <2>3, StillPaid
<1>13. CASE failure # "interrupted"
  <2>1. Position(x, t) = Now
    <3> HIDE DEF x, t
    <3> QED BY <1>3, <1>8, <1>13 DEF Position, HasSynced
  <2>2. CASE breaks' = breaks + 1
    <3>1. Len(t.gaps) + Position(a, s) + breaks
            <= Len(s.gaps) + Owed(a, s) + Position(x, t) + breaks'
      <4>1. Len(t.gaps) <= Len(s.gaps) + 1 /\ Position(a, s) \in Nat
            /\ Position(x, t) \in Nat /\ Position(a, s) <= Position(x, t)
        <5> HIDE DEF a, s, x, t
        <5> QED BY <1>1, <1>8, <2>1
      <4> HIDE DEF a, s, x, t
      <4> QED BY <1>1, <1>10, <1>11, <2>2, <4>1, PaidByMoving
    <3> HIDE DEF x, t
    <3> QED BY <1>1, <1>3, <1>8, <1>9, <1>11, <2>1, <3>1, StillPaid
  <2>3. CASE breaks' = breaks
    <3>1. OpenExpired(Alone)
      BY <1>1, <1>4, <1>13, <2>3
    <3>2. a.pc = "open" /\ ~ a.streaming /\ a.from < oldest
      BY <3>1 DEF OpenExpired, At
    <3>3. s.state = "live" /\ a.from = s.checkpoint
      <4> HIDE DEF a, s
      <4> QED BY <1>2, <3>2 DEF Stands, RequestStands, RoundStands, HasSynced
    <3>4. Position(a, s) = a.from
      <4> HIDE DEF a, s
      <4> QED BY <3>3 DEF Position, HasSynced
    <3>5. Position(a, s) + 1 <= Now
      <4> HIDE DEF a, s
      <4> QED BY <1>1, <3>2, <3>4
    <3>6. Len(t.gaps) + Position(a, s) + breaks
            <= Len(s.gaps) + Owed(a, s) + Position(x, t) + breaks'
      <4>1. Len(t.gaps) <= Len(s.gaps) + 1 /\ Position(a, s) \in Nat
            /\ Position(x, t) \in Nat /\ Position(a, s) + 1 <= Position(x, t)
        BY <1>1, <1>8, <2>1, <3>5
      <4> HIDE DEF a, s, x, t
      <4> QED BY <1>1, <1>10, <1>11, <2>3, <4>1, PaidByMoving
    <3> HIDE DEF x, t
    <3> QED BY <1>1, <1>3, <1>8, <1>9, <1>11, <2>1, <3>6, StillPaid
  <2> QED BY <1>4, <1>13, <2>2, <2>3
<1> QED BY <1>12, <1>13

(* A listing over a live stream was paid for by the invocation that began. *)
LEMMA KeepsWhileCalled ==
  ASSUME KInv, Readers = {Alone},
         \/ Begin(Alone) \/ Synchronise(Alone) \/ Abandon(Alone) \/ Reconnect(Alone)
         \/ Close(Alone)
  PROVE  /\ RoundStands(reader'[Alone], EntryFor(slot').stream)
         /\ GapsStand(reader'[Alone], EntryFor(slot').stream, breaks')
<1> DEFINE a == reader[Alone]
           s == Stream
           x == reader'[Alone]
           t == EntryFor(slot').stream
<1> SUFFICES RoundStands(x, t) /\ GapsStand(x, t, breaks')
  OBVIOUS
<1>1. /\ Alone \in Readers /\ reader \in [Readers -> Reader] /\ a \in Reader
      /\ s \in WatchStream /\ EntryIsSound(EntryFor(slot)) /\ EntryFor(slot) \in Watched
      /\ slot \in Watched \cup {None} /\ VersionsAreReal(a)
      /\ Now \in Nat /\ breaks \in Nat /\ a.left \in Nat
      /\ Len(s.gaps) \in Nat /\ Position(a, s) \in 1..Now
      /\ s.checkpoint # None => s.checkpoint \in 1..Now
      /\ \A v \in 1..Now : v \in Version /\ history[v] \in Cache
      /\ a.pc \notin {"reading", "acquisition"} => a.body = NoBody
  BY KeepingType, AloneType DEF KInv
<1>2. BreakIsAGap(s) /\ a.left <= Invocations /\ Stands(a, s) /\ RoundStands(a, s)
  BY DEF KInv, GapsStand, SInv
<1>3. /\ x.body = NoBody /\ x.left = a.left /\ breaks' = breaks
      /\ a.pc \in {"begin", "synchronise", "abandon", "reconnect", "close"}
      /\ a.body = NoBody /\ NoBody.phase = "closed"
  <2>1. /\ x.body = a.body /\ x.left = a.left /\ breaks' = breaks
        /\ a.pc \in {"begin", "synchronise", "abandon", "reconnect", "close"}
    BY <1>1 DEF Begin, Synchronise, Abandon, Reconnect, Close, Goto, At, Reader
  <2> QED BY <1>1, <2>1 DEF NoBody
<1>4. ASSUME NEW u \in {BeginStreamingList(s), AbandonStreamingList(s), Reconnected(s)},
             slot' = OnStream(slot, u)
      PROVE  t = u
  <2>1. u \in WatchStream
    <3> HIDE DEF s
    <3> QED BY <1>1, <1>4, MethodEffects
  <2>2. slot' \in Watched /\ slot'.stream = u
    BY <1>1, <1>4, <2>1 DEF OnStream, Watched
  <2> QED BY <2>2, EntryType
<1>5. x.left = a.left /\ breaks' = breaks /\ breaks' \in Nat
  BY <1>1, <1>3
(* The methods keep the gaps as they are.                                  *)
<1>6. ASSUME /\ t.gaps = s.gaps /\ t.segments = s.segments /\ t.checkpoint = s.checkpoint
             /\ t.state = s.state \/ (t.state = "live" /\ HasSynced(s))
             /\ a.pc # "synchronise" /\ x.pc # "synchronise"
      PROVE  GapsStand(x, t, breaks')
  <2>1. BreakIsAGap(t)
    BY <1>2, <1>6 DEF BreakIsAGap, HasOpenGap
  <2>2. HasSynced(t) <=> HasSynced(s)
    BY <1>6 DEF HasSynced
  <2>3. Position(x, t) = Position(a, s)
    <3> HIDE DEF a, s, x, t
    <3> QED BY <1>3, <1>6, <2>2 DEF Position
  <2>4. Owed(a, s) = 0 /\ Len(t.gaps) = Len(s.gaps)
    BY <1>6 DEF Owed
  <2>5. Len(t.gaps) + Position(a, s) + breaks
          <= Len(s.gaps) + Owed(a, s) + Position(x, t) + breaks'
    BY <1>1, <1>5, <2>3, <2>4, PaidByMoving
  <2>6. Len(t.gaps) \in Nat /\ Position(x, t) \in Nat
    BY <1>1, <2>3, <2>4
  <2> HIDE DEF x, t
  <2> QED BY <1>5, <1>6, <2>1, <2>5, <2>6, StillPaid
<1>7. CASE Begin(Alone)
  <2>1. t = BeginStreamingList(s)
    BY <1>4, <1>7 DEF Begin, Stream
  <2>2. a.pc = "begin" /\ x.pc = IF s.state = "denied" THEN "close" ELSE "round"
    BY <1>1, <1>7 DEF Begin, At, Goto, Reader, Stream
  <2>3. /\ t.state = s.state /\ t.checkpoint = s.checkpoint
        /\ t.gaps = s.gaps /\ t.segments = s.segments
        /\ t.staging = IF s.state \in {"syncing", "gap_detected"} THEN EmptyCache ELSE s.staging
    <3> HIDE DEF s
    <3> QED BY <1>1, <2>1 DEF BeginStreamingList, WatchStream
  <2>4. s.state \in SyncState /\ s.state # "reconnecting" /\ EmptyCache # None
    <3>1. EmptyCache \in Cache
      BY DEF EmptyCache, Cache
    <3> QED BY <1>1, <1>2, <2>2, <3>1, NoneAssumption DEF WatchStream, Stands, RequestStands
  <2>5. RoundStands(x, t)
    <3> HIDE DEF a, s, x, t
    <3> QED BY <1>3, <2>2, <2>3, <2>4 DEF RoundStands, SyncState
  <2>6. a.pc # "synchronise" /\ x.pc # "synchronise"
    BY <2>2
  <2>7. GapsStand(x, t, breaks')
    <3> HIDE DEF a, s, x, t
    <3> QED BY <1>6, <2>3, <2>6
  <2> HIDE DEF x, t
  <2> QED BY <2>5, <2>7
<1>8. CASE Synchronise(Alone)
  <2> DEFINE v == a.listing
  <2>1. a.pc = "synchronise" /\ x.pc = "acquisition"
    BY <1>1, <1>8 DEF Synchronise, At, Goto, Reader
  <2>2. v \in 1..Now
    BY <1>1, <2>1 DEF VersionsAreReal
  <2>3. slot' = [stream |-> Listed(s, history[v], v), index |-> Rebuilt(history[v])]
    BY <1>8 DEF Synchronise, Synchronised, Stream
  <2>4. slot' \in Watched /\ slot'.stream = Listed(s, history[v], v)
    <3>1. history[v] \in Cache
      BY <1>1, <2>2
    <3> HIDE DEF v, s
    <3> QED BY <1>1, <2>2, <2>3, <3>1, AcquiredIsSound
  <2>5. t = Listed(s, history[v], v)
    BY <2>4, EntryType
  <2>6. t.state = "live" /\ t.checkpoint = v
    BY <2>5 DEF Listed
  <2>7. LET u == Listed(s, history[v], v)
        IN  /\ BreakIsAGap(u)
            /\ Len(u.gaps) \in {Len(s.gaps), Len(s.gaps) + 1}
            /\ ~ HasSynced(s) => Len(u.gaps) = Len(s.gaps)
    <3> HIDE DEF s, v
    <3> QED BY <1>1, <1>2, GapsOfListing
  <2>8. /\ BreakIsAGap(t) /\ Len(t.gaps) \in {Len(s.gaps), Len(s.gaps) + 1}
        /\ ~ HasSynced(s) => Len(t.gaps) = Len(s.gaps)
    BY <2>5, <2>7
  <2>9. RoundStands(x, t)
    <3> HIDE DEF x, t
    <3> QED BY <1>3, <2>1 DEF RoundStands
  <2>10. Position(x, t) = v
    <3> HIDE DEF x, t, v
    <3> QED BY <2>6 DEF Position, HasSynced
  <2>11. CASE HasSynced(s)
    <3>1. Position(a, s) <= v /\ Owed(a, s) = 1
      <4> HIDE DEF a, s
      <4> QED BY <1>2, <2>1, <2>11 DEF Position, RoundStands, Owed
    <3>2. Len(t.gaps) \in Nat /\ Len(t.gaps) <= Len(s.gaps) + 1
      <4> HIDE DEF s, t
      <4> QED BY <1>1, <2>8
    <3>3. Len(t.gaps) + Position(a, s) + breaks
            <= Len(s.gaps) + Owed(a, s) + Position(x, t) + breaks'
      <4>1. /\ Len(t.gaps) <= Len(s.gaps) + Owed(a, s) /\ Owed(a, s) \in Nat
            /\ Position(a, s) \in Nat /\ Position(a, s) <= Position(x, t)
            /\ Position(x, t) \in Nat
        <5> HIDE DEF a, s, x, t, v
        <5> QED BY <1>1, <2>2, <2>10, <3>1, <3>2
      <4> HIDE DEF a, s, x, t, v
      <4> QED BY <1>1, <1>5, <3>2, <4>1, PaidByMoving
    <3> HIDE DEF x, t
    <3> QED BY <1>5, <2>1, <2>2, <2>8, <2>9, <2>10, <3>2, <3>3, StillPaid
  <2>12. CASE ~ HasSynced(s)
    <3>1. Position(a, s) = v /\ Owed(a, s) = 0
      <4> HIDE DEF a, s
      <4> QED BY <2>1, <2>12 DEF Position, Owed, v
    <3>2. Len(t.gaps) = Len(s.gaps) /\ Len(t.gaps) \in Nat
      BY <1>1, <2>8, <2>12
    <3>3. Len(t.gaps) + Position(a, s) + breaks
            <= Len(s.gaps) + Owed(a, s) + Position(x, t) + breaks'
      BY <1>1, <1>5, <2>2, <2>10, <3>1, <3>2, PaidByMoving
    <3> HIDE DEF x, t
    <3> QED BY <1>5, <2>1, <2>2, <2>8, <2>9, <2>10, <3>2, <3>3, StillPaid
  <2> QED BY <2>11, <2>12
<1>9. CASE Abandon(Alone)
  <2>1. a.pc = "abandon" /\ x.pc \in {"refuse", "state"}
    BY <1>1, <1>9 DEF Abandon, At, Goto, Reader
  <2>2. /\ t.state = s.state /\ t.checkpoint = s.checkpoint
        /\ t.gaps = s.gaps /\ t.segments = s.segments
        /\ s.staging = None => x.pc = "state"
    <3>1. CASE slot # None /\ IsStreamingList(slot.stream)
      <4>1. s = slot.stream /\ s.staging # None
        BY <3>1 DEF Stream, EntryFor, IsStreamingList
      <4>2. t = AbandonStreamingList(s)
        BY <1>4, <1>9, <3>1, <4>1 DEF Abandon
      <4> HIDE DEF s, t
      <4> QED BY <1>1, <4>1, <4>2 DEF AbandonStreamingList, WatchStream
    <3>2. CASE ~ (slot # None /\ IsStreamingList(slot.stream))
      <4>1. t = s /\ x.pc = "state"
        BY <1>1, <1>9, <3>2 DEF Abandon, Goto, Reader, Stream
      <4> HIDE DEF s, t, x
      <4> QED BY <4>1
    <3> QED BY <3>1, <3>2
  <2>3. RoundStands(x, t)
    <3> HIDE DEF a, s, x, t
    <3> QED BY <1>2, <1>3, <2>1, <2>2 DEF RoundStands, Stands, CacheStands, HasSynced
  <2>4. GapsStand(x, t, breaks')
    <3> HIDE DEF a, s, x, t
    <3> QED BY <1>6, <2>1, <2>2
  <2> HIDE DEF x, t
  <2> QED BY <2>3, <2>4
<1>10. CASE Reconnect(Alone)
  <2>1. t = Reconnected(s)
    BY <1>4, <1>10 DEF Reconnect, Stream
  <2>2. a.pc = "reconnect" /\ x.pc = IF CanReconnect(s) THEN "round" ELSE "close"
    BY <1>1, <1>10 DEF Reconnect, At, Goto, Reader, Stream
  <2>3. /\ t.checkpoint = s.checkpoint /\ t.gaps = s.gaps /\ t.segments = s.segments
        /\ t.state = IF CanReconnect(s) THEN "live" ELSE s.state
    <3> HIDE DEF s
    <3> QED BY <1>1, <2>1 DEF Reconnected, WatchStream
  <2>4. RoundStands(x, t)
    <3> HIDE DEF a, s, x, t
    <3> QED BY <1>3, <2>2, <2>3 DEF RoundStands
  <2>5. CanReconnect(s) => HasSynced(s)
    BY DEF CanReconnect, HasSynced
  <2>6. a.pc # "synchronise" /\ x.pc # "synchronise"
    BY <2>2
  <2>7. GapsStand(x, t, breaks')
    <3> HIDE DEF a, s, x, t
    <3> QED BY <1>6, <2>3, <2>5, <2>6
  <2> HIDE DEF x, t
  <2> QED BY <2>4, <2>7
<1>11. CASE Close(Alone)
  <2>1. a.pc = "close" /\ x.pc = "idle"
    BY <1>1, <1>11 DEF Close, At, Reader
  <2>2. RoundStands(x, t)
    <3> HIDE DEF a, s, x, t
    <3> QED BY <1>3, <2>1 DEF RoundStands
  <2>3. a.pc # "synchronise" /\ x.pc # "synchronise"
    BY <2>1
  <2>4. CASE slot # None /\ AbsenceIsConclusive(slot.stream)
    <3>1. t = s
      BY <1>11, <2>4 DEF Close, ViewClosed, Stream
    <3>2. GapsStand(x, t, breaks')
      <4> HIDE DEF a, s, x, t
      <4> QED BY <1>6, <2>3, <3>1
    <3> HIDE DEF x, t
    <3> QED BY <2>2, <3>2
  <2>5. CASE ~ (slot # None /\ AbsenceIsConclusive(slot.stream))
    <3>1. t = NewStream
      BY <1>11, <2>5 DEF Close, ViewClosed, EntryFor, NewWatched
    <3>2. BreakIsAGap(t) /\ Len(t.gaps) = 0 /\ ~ HasSynced(t)
      BY <3>1 DEF NewStream, BreakIsAGap, HasSynced
    <3>3. Position(x, t) = Now
      <4> HIDE DEF x, t
      <4> QED BY <1>3, <2>1, <3>2 DEF Position
    <3>4. Owed(a, s) = 0
      BY <2>1 DEF Owed
    <3>5. Len(t.gaps) + Position(a, s) + breaks
            <= Len(s.gaps) + Owed(a, s) + Position(x, t) + breaks'
      BY <1>1, <1>5, <3>2, <3>3, <3>4, PaidByMoving
    <3> HIDE DEF x, t
    <3> QED BY <1>1, <1>5, <2>2, <2>3, <3>2, <3>3, <3>5, StillPaid
  <2> QED BY <2>4, <2>5
<1> QED BY <1>7, <1>8, <1>9, <1>10, <1>11

(* A step of the server only moves the position on.                        *)
LEMMA KeepsWhileServed ==
  ASSUME KInv, Readers = {Alone}, ServerStep
  PROVE  (RoundStands(reader[Alone], Stream) /\ GapsStand(reader[Alone], Stream, breaks))'
<1> DEFINE a == reader[Alone]
           s == Stream
<1>1. /\ Now \in Nat /\ breaks \in Nat /\ a.left \in Nat /\ Len(s.gaps) \in Nat
      /\ Position(a, s) \in 1..Now
  BY KeepingType
<1>2. /\ RoundStands(a, s) /\ BreakIsAGap(s) /\ a.left <= Invocations /\ Now <= MaxVersion
      /\ Len(s.gaps) + Owed(a, s) + a.left <= Position(a, s) + breaks + Invocations
  BY DEF KInv, GapsStand
<1>3. ServerNext /\ slot' = slot /\ reader' = reader /\ breaks' = breaks
  BY DEF ServerStep, session
<1>4. reader'[Alone] = a /\ Stream' = s
  BY <1>3 DEF Stream
<1>5. Now' \in Nat /\ Now <= Now' /\ Now' <= MaxVersion
  <2>1. history \in Seq(Cache) /\ MaxVersion \in Nat
    BY MaxVersionAssumption DEF KInv, SInv, XInv, TypeOK, ServerTypeOK
  <2>2. ASSUME NEW o, history' = Append(history, o), Now < MaxVersion
        PROVE  Now' \in Nat /\ Now <= Now' /\ Now' <= MaxVersion
    <3>1. Len(Append(history, o)) = Len(history) + 1
      BY <2>1 DEF Cache
    <3> QED BY <1>1, <2>1, <2>2, <3>1 DEF Now
  <2>3. CASE Compact
    BY <1>1, <1>2, <2>3 DEF Compact, Now
  <2>4. CASE WriteElsewhere
    BY <2>2, <2>4 DEF WriteElsewhere
  <2>5. ASSUME NEW k \in Keys, Write(k) \/ Delete(k)
        PROVE  Now' \in Nat /\ Now <= Now' /\ Now' <= MaxVersion
    BY <2>2, <2>5 DEF Write, Delete
  <2> QED BY <1>3, <2>3, <2>4, <2>5 DEF ServerNext
<1>6. RoundStands(reader[Alone], Stream)'
  BY <1>2, <1>4 DEF RoundStands, HasSynced
<1>7. Position(reader[Alone], Stream)' \in Nat
      /\ Position(a, s) <= Position(reader[Alone], Stream)'
  <2>1. CASE HasSynced(s) \/ a.pc = "synchronise" \/ a.body.phase = "initial"
    <3>1. Position(reader[Alone], Stream)' = Position(a, s)
      BY <1>4, <2>1 DEF Position, HasSynced
    <3> QED BY <1>1, <3>1
  <2>2. CASE ~ (HasSynced(s) \/ a.pc = "synchronise" \/ a.body.phase = "initial")
    <3>1. Position(reader[Alone], Stream)' = Now' /\ Position(a, s) = Now
      BY <1>4, <2>2 DEF Position, HasSynced
    <3> QED BY <1>1, <1>5, <3>1
  <2> QED BY <2>1, <2>2
<1>8. Owed(reader[Alone], Stream)' = Owed(a, s) /\ Owed(a, s) \in Nat
  BY <1>4 DEF Owed, HasSynced
<1>9. GapsStand(reader[Alone], Stream, breaks)'
  <2> DEFINE g == Len(s.gaps)
             o == Owed(a, s)
             l == a.left
             p == Position(a, s)
             q == Position(reader[Alone], Stream)'
  <2>1. /\ g \in Nat /\ o \in Nat /\ l \in Nat /\ p \in Nat /\ q \in Nat /\ p <= q
        /\ g + o + l <= p + breaks + Invocations
    BY <1>1, <1>2, <1>7, <1>8
  <2>2. g + o + l <= q + breaks + Invocations
    <3> HIDE DEF a, s, g, o, l, p, q
    <3> QED BY <1>1, <2>1, ViewAssumption
  <2>3. Len(Stream'.gaps) + Owed(reader[Alone], Stream)' + reader'[Alone].left
          <= Position(reader[Alone], Stream)' + breaks' + Invocations
    BY <1>3, <1>4, <1>8, <2>2
  <2>4. BreakIsAGap(Stream)'
    BY <1>2, <1>4 DEF BreakIsAGap, HasOpenGap
  <2>5. Now' <= MaxVersion /\ reader'[Alone].left <= Invocations
    BY <1>2, <1>4, <1>5
  <2> QED BY <2>3, <2>4, <2>5 DEF GapsStand
<1> QED BY <1>6, <1>9

(* The invariant of the contract holds at first.                           *)
LEMMA InitKInv == ASSUME Readers = {Alone} PROVE Init => KInv
<1> SUFFICES ASSUME Init PROVE KInv
  OBVIOUS
<1>1. SInv
  BY InitSInv
<1>2. Stream = NewStream /\ breaks = 0
  BY DEF Init, Stream, EntryFor, NewWatched
<1>3. /\ reader[Alone].pc = "idle" /\ reader[Alone].body = NoBody
      /\ reader[Alone].left = Invocations
  BY DEF Init
<1>4. NoBody.phase = "closed"
  BY DEF NoBody
<1>5. /\ Stream.state = "syncing" /\ Stream.gaps = << >> /\ Stream.segments = << >>
      /\ ~ HasSynced(Stream)
  BY <1>2 DEF NewStream, HasSynced
<1>6. RoundStands(reader[Alone], Stream)
  BY <1>3, <1>4, <1>5 DEF RoundStands
<1>7. Now = 1 /\ Now <= MaxVersion
  <2>1. Now = 1
    BY DEF Init, ServerInit, Now
  <2> QED BY <2>1, MaxVersionAssumption
<1>8. GapsStand(reader[Alone], Stream, breaks)
  <2>1. Position(reader[Alone], Stream) = Now /\ Owed(reader[Alone], Stream) = 0
    BY <1>3, <1>4, <1>5 DEF Position, Owed
  <2>2. Len(Stream.gaps) = 0
    BY <1>5
  <2>3. BreakIsAGap(Stream)
    BY <1>5 DEF BreakIsAGap
  <2> QED BY <1>2, <1>3, <1>7, <2>1, <2>2, <2>3, ViewAssumption DEF GapsStand
<1> QED BY <1>1, <1>6, <1>8 DEF KInv

(* Every step keeps it, where the session writes nothing.                  *)
LEMMA KInvStep ==
  ASSUME Readers = {Alone}, OwnWritten = {}
  PROVE  KInv /\ [Next]_vars => KInv'
<1> SUFFICES ASSUME KInv, [Next]_vars PROVE KInv'
  OBVIOUS
<1>1. SInv'
  BY SInvStep DEF KInv
<1>2. SUFFICES (RoundStands(reader[Alone], Stream) /\ GapsStand(reader[Alone], Stream, breaks))'
  BY <1>1 DEF KInv
<1>3. CASE ServerStep
  BY <1>3, KeepsWhileServed
<1>4. CASE ReaderStep(Alone)
  <2>1. history' = history
    BY <1>4, ReadersOnlyRead DEF server
  <2>2. /\ RoundStands(reader'[Alone], EntryFor(slot').stream)
        /\ GapsStand(reader'[Alone], EntryFor(slot').stream, breaks')
    BY <1>4, KeepsAtRest, KeepsWhileFed, KeepsWhileBroken, KeepsWhileCalled DEF ReaderStep
  <2>3. Now' = Now
    BY <2>1 DEF Now
  <2>4. RoundStands(reader[Alone], Stream)'
    <3> HIDE DEF RoundStands
    <3>1. RoundStands(reader'[Alone], EntryFor(slot').stream)
      BY <2>2
    <3> QED BY <3>1 DEF RoundStands, HasSynced, Stream
  <2>5. GapsStand(reader[Alone], Stream, breaks)'
    BY <2>2, <2>3 DEF GapsStand, Position, Owed, BreakIsAGap, HasOpenGap, HasSynced, Stream
  <2> QED BY <2>4, <2>5
<1>5. CASE UNCHANGED vars
  <2>1. reader' = reader /\ slot' = slot /\ breaks' = breaks /\ history' = history
    BY <1>5 DEF vars, session, server
  <2>2. reader'[Alone] = reader[Alone] /\ Stream' = Stream /\ Now' = Now
    BY <2>1 DEF Stream, Now
  <2>3. RoundStands(reader[Alone], Stream)'
    BY <2>2 DEF KInv, RoundStands, HasSynced
  <2>4. GapsStand(reader[Alone], Stream, breaks)'
    BY <2>1, <2>2 DEF KInv, GapsStand, Position, Owed, BreakIsAGap, HasOpenGap, HasSynced
  <2> QED BY <2>3, <2>4
<1>6. ASSUME NEW k \in Keys PROVE ~ OwnWrite(k)
  BY DEF OwnWrite
<1> QED BY <1>3, <1>4, <1>5, <1>6 DEF Next

(* The five rounds of an invocation and every step of the server are steps *)
(* of the contract, or leave it as it is.                                  *)
LEMMA StepsKeepTheContract ==
  ASSUME Readers = {Alone}, OwnWritten = {}
  PROVE  KInv /\ [Next]_vars => [Contract!Next]_(Contract!vars)
<1> SUFFICES ASSUME KInv, [Next]_vars
             PROVE  Contract!Next \/ UNCHANGED Contract!vars
  OBVIOUS
<1>1. CASE ServerStep
  <2>1. ServerNext /\ slot' = slot /\ reader' = reader
    BY <1>1 DEF ServerStep, session
  <2>2. /\ Stream' = Stream /\ reader'[Alone].body = reader[Alone].body
        /\ ListingRead' = ListingRead
    BY <2>1 DEF Stream, ListingRead, At
  <2> QED BY <2>1, <2>2, ContractServer
<1>2. CASE ReaderStep(Alone)
  BY <1>2, ContractAcquires, ContractOpens, ContractFeeds, ContractEnds, ContractGoesOn
     DEF ReaderStep
<1>3. CASE UNCHANGED vars
  <2>1. UNCHANGED server /\ slot' = slot /\ reader' = reader
    BY <1>3 DEF vars, session
  <2>2. /\ Stream' = Stream /\ reader'[Alone].body = reader[Alone].body
        /\ ListingRead' = ListingRead
    BY <2>1 DEF Stream, ListingRead, At
  <2> QED BY <2>1, <2>2, ContractStutters
<1>4. ASSUME NEW k \in Keys PROVE ~ OwnWrite(k)
  BY DEF OwnWrite
<1> QED BY <1>1, <1>2, <1>3, <1>4 DEF Next

(* The contract starts where the query does.                               *)
LEMMA InitKeepsTheContract == ASSUME Readers = {Alone} PROVE Init => Contract!Init
<1> SUFFICES ASSUME Init PROVE Contract!Init
  OBVIOUS
<1>1. Contract!ServerInit
  BY DEF Init, ServerInit, Contract!ServerInit
<1>2. Stream = Contract!NewStream
  BY ContractMethods DEF Init, Stream, EntryFor, NewWatched
<1>3. reader[Alone].body = Contract!Closed /\ ~ At(Alone, "synchronise")
  BY DEF Init, At, NoBody, Contract!Closed
<1>4. breaks = 0
  BY DEF Init
<1> QED BY <1>1, <1>2, <1>3, <1>4 DEF Contract!Init, Stream

(* The query drives one collection the way the collection may be driven:   *)
(* with one invocation at a time and no write of this session, every step  *)
(* of the query is a step of the contract of its stream and feed, so what  *)
(* holds of a watched collection holds of the one the query drives.        *)
THEOREM ContractKept ==
  ASSUME \E r : Readers = {r}, OwnWritten = {}
  PROVE  Spec => KeepsTheContract
<1>1. Readers = {Alone}
  BY DEF Alone
<1>2. Init => KInv
  BY <1>1, InitKInv
<1>3. KInv /\ [Next]_vars => KInv'
  BY <1>1, KInvStep
<1>4. Init => Contract!Init
  BY <1>1, InitKeepsTheContract
<1>5. KInv /\ [Next]_vars => [Contract!Next]_(Contract!vars)
  BY <1>1, StepsKeepTheContract
<1> QED BY <1>2, <1>3, <1>4, <1>5, PTL DEF Spec, KeepsTheContract, Contract!Spec
=============================================================================
