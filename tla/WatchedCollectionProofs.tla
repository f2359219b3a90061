----------------------- MODULE WatchedCollectionProofs ----------------------
(***************************************************************************)
(* Proofs about WatchedCollection, for every set of keys, every log bound  *)
(* and every number of versions and breaks: that the cache and the body of *)
(* a stream stand at one version; about the record it keeps of itself,     *)
(* that its periods of observation and its gaps agree, and that nothing is *)
(* lost without a gap; and about the timeline that is made of that record  *)
(* (ObjectTimeline), that it is the lifetime of its object.                *)
(***************************************************************************)
EXTENDS ObjectTimeline, ApiServerProofs, SequenceTheorems, WellFoundedInduction

(* A feed is closed, or one body with its three facts.                     *)
LEMMA FeedType ==
  ASSUME NEW phase \in {"closed", "initial", "changes"}, NEW at \in Version,
         NEW todo \in SUBSET Keys
  PROVE  [phase |-> phase, at |-> at, todo |-> todo] \in Feed
BY DEF Feed

(* The stream and its feed start with nothing known and no body.           *)
LEMMA InitIInv == Init => IInv
<1> SUFFICES ASSUME Init PROVE IInv
  OBVIOUS
<1>1. PICK existing \in SUBSET Keys :
        history = << [k \in Keys |-> IF k \in existing
                                     THEN [uid |-> 1, rv |-> 1] ELSE None] >>
  BY DEF Init, ServerInit
<1>2. [k \in Keys |-> IF k \in existing THEN [uid |-> 1, rv |-> 1] ELSE None] \in Cache
  BY DEF Cache, Object, Version
<1>3. ServerTypeOK /\ Now = 1
  BY <1>1, <1>2 DEF Init, ServerInit, ServerTypeOK, Now
<1>4. TypeOK
  BY <1>3, NewStreamType, FeedType DEF Init, TypeOK, Closed, Version
<1>5. OneChangePerVersion
  BY <1>3 DEF OneChangePerVersion
<1> QED
  BY <1>4, <1>5 DEF Init, IInv, CacheIsCollectionAtCheckpoint, BodyStandsAtCheckpoint,
     StagedIsPartOfInitial, ListingIsNotBehind, NewStream, Closed, HasSynced, IsStreamingList

(* What a step of the server leaves of the invariant: everything it says   *)
(* of a version stays true as the history grows.                           *)
LEMMA ServerKeepsIInv == IInv /\ ServerStep => IInv'
<1> SUFFICES ASSUME IInv, ServerStep PROVE IInv'
  OBVIOUS
<1>1. /\ ServerTypeOK' /\ OneChangePerVersion' /\ Now' >= Now
      /\ \A v \in 1..Now : history'[v] = history[v]
  BY ServerGrows DEF IInv, TypeOK, ServerStep
<1>2. Now \in Nat /\ Now' \in Nat
  BY <1>1 DEF IInv, TypeOK, ServerTypeOK, Now
<1>3. stream' = stream /\ feed' = feed /\ listing' = listing
  BY DEF ServerStep, client
<1>4. TypeOK'
  BY <1>1, <1>3 DEF IInv, TypeOK
<1>5. CacheIsCollectionAtCheckpoint'
  BY <1>1, <1>2, <1>3 DEF IInv, CacheIsCollectionAtCheckpoint
<1>6. BodyStandsAtCheckpoint'
  BY <1>3 DEF IInv, BodyStandsAtCheckpoint
<1>7. StagedIsPartOfInitial'
  BY <1>1, <1>2, <1>3 DEF IInv, StagedIsPartOfInitial
<1>8. ListingIsNotBehind'
  BY <1>1, <1>2, <1>3 DEF IInv, ListingIsNotBehind
<1> QED BY <1>1, <1>4, <1>5, <1>6, <1>7, <1>8 DEF IInv

(* A step that only loses knowledge, or only moves the feed, keeps the     *)
(* invariant: nothing is claimed that was not claimed before.              *)
LEMMA LosingKeepsIInv ==
  ASSUME IInv, UNCHANGED server, stream' \in WatchStream, ~ HasSynced(stream'),
         stream'.staging = None, listing' = None,
         feed' = Closed \/ (feed' = feed /\ feed.phase = "closed")
  PROVE  IInv'
<1>1. TypeOK' /\ OneChangePerVersion'
  BY FeedType DEF IInv, TypeOK, server, ServerTypeOK, Now, Closed, OneChangePerVersion,
     Changed, Version
<1> QED
  BY <1>1 DEF IInv, CacheIsCollectionAtCheckpoint, BodyStandsAtCheckpoint,
     StagedIsPartOfInitial, ListingIsNotBehind, IsStreamingList, Closed

(* A body that ends leaves the stream where it stood.                      *)
LEMMA StandingKeepsIInv ==
  ASSUME IInv, UNCHANGED server, stream' \in WatchStream,
         stream'.state = stream.state \/ (HasSynced(stream) /\ HasSynced(stream')),
         stream'.checkpoint = stream.checkpoint, stream'.objects = stream.objects,
         stream'.staging = stream.staging \/ stream'.staging = None,
         listing' = None,
         feed' = Closed \/ (feed' = feed /\ feed.phase = "closed")
  PROVE  IInv'
<1>1. TypeOK' /\ OneChangePerVersion'
  BY FeedType DEF IInv, TypeOK, server, ServerTypeOK, Now, Closed, OneChangePerVersion,
     Changed, Version
<1>2. history' = history /\ Now' = Now
  BY DEF server, Now
<1>3. HasSynced(stream') <=> HasSynced(stream)
  BY DEF HasSynced
<1>4. CacheIsCollectionAtCheckpoint'
  BY <1>2, <1>3 DEF IInv, CacheIsCollectionAtCheckpoint
<1>5. StagedIsPartOfInitial'
  BY <1>3 DEF IInv, StagedIsPartOfInitial, IsStreamingList, Closed
<1> QED
  BY <1>1, <1>4, <1>5 DEF IInv, BodyStandsAtCheckpoint, ListingIsNotBehind, Closed

(* A listing, or the bookmark that ends a streaming one, makes the cache   *)
(* the collection at its version.                                          *)
LEMMA SynchronisingKeepsIInv ==
  ASSUME IInv, UNCHANGED server, NEW v \in 1..Now,
         stream' = Listed(stream, history[v], v), listing' = None,
         \/ feed' = feed /\ feed.phase = "closed"
         \/ feed' = [feed EXCEPT !.phase = "changes"] /\ feed.at = v
  PROVE  IInv'
<1>1. v \in Version /\ history[v] \in Cache /\ stream \in WatchStream
  BY DEF IInv, TypeOK, ServerTypeOK, Now, Version
<1>2. stream' \in WatchStream
  BY <1>1, ListedType
<1>3. /\ stream'.state = "live" /\ stream'.staging = None
      /\ stream'.checkpoint = v /\ stream'.objects = history[v]
  BY DEF Listed
<1>4. history' = history /\ Now' = Now
  BY DEF server, Now
<1>5. TypeOK' /\ OneChangePerVersion'
  BY <1>1, <1>2 DEF IInv, TypeOK, server, ServerTypeOK, Now, Feed, OneChangePerVersion, Changed
<1>6. CacheIsCollectionAtCheckpoint'
  BY <1>3, <1>4 DEF CacheIsCollectionAtCheckpoint
<1>7. BodyStandsAtCheckpoint' /\ StagedIsPartOfInitial' /\ ListingIsNotBehind'
  BY <1>3 DEF BodyStandsAtCheckpoint, StagedIsPartOfInitial, ListingIsNotBehind,
     IsStreamingList, IInv, TypeOK, Feed
<1> QED BY <1>5, <1>6, <1>7 DEF IInv

(* The stream moves to version v with the body that delivered it.          *)
LEMMA AdvancingKeepsIInv ==
  ASSUME IInv, UNCHANGED << server, listing >>, feed.phase = "changes",
         NEW v \in 1..Now, feed' = [feed EXCEPT !.at = v],
         stream' \in WatchStream, stream'.state = "live", stream'.staging = None,
         stream'.checkpoint = v, stream'.objects = history[v]
  PROVE  IInv'
<1>1. history' = history /\ Now' = Now
  BY DEF server, Now
<1>2. feed' \in Feed /\ feed'.phase = "changes" /\ feed'.at = v
  BY DEF IInv, TypeOK, Feed, ServerTypeOK, Now, Version
<1>3. TypeOK' /\ OneChangePerVersion'
  BY <1>2 DEF IInv, TypeOK, server, ServerTypeOK, Now, OneChangePerVersion, Changed
<1>4. CacheIsCollectionAtCheckpoint'
  BY <1>1 DEF CacheIsCollectionAtCheckpoint
<1>5. BodyStandsAtCheckpoint' /\ StagedIsPartOfInitial'
  BY <1>2 DEF BodyStandsAtCheckpoint, StagedIsPartOfInitial, IsStreamingList
<1>6. listing' = None
  BY DEF IInv, ListingIsNotBehind
<1> QED BY <1>3, <1>4, <1>5, <1>6 DEF IInv, ListingIsNotBehind

(* What a delivered change, and a bookmark, make of a live stream that     *)
(* stands where its body does.                                             *)
LEMMA DeliverMoves ==
  ASSUME IInv, NEW v \in 1..Now, NEW k \in Keys, feed.phase = "changes",
         IsNext(feed.at, v, k), stream' = Observe(stream, EventAt(v, k))
  PROVE  /\ stream' \in WatchStream /\ stream'.state = "live"
         /\ stream'.staging = None
         /\ stream'.checkpoint = v /\ stream'.objects = history[v]
<1>1. /\ stream \in WatchStream /\ stream.state = "live" /\ stream.staging = None
      /\ feed.at \in 1..Now /\ stream.objects = history[feed.at]
  BY DEF IInv, TypeOK, BodyStandsAtCheckpoint, CacheIsCollectionAtCheckpoint, HasSynced,
     StagedIsPartOfInitial, IsStreamingList
<1> DEFINE e == EventAt(v, k)
<1>2. /\ e.type = "change" /\ e.class \in ChangeClass /\ e.key = k
      /\ e.object \in Object /\ e.object.rv = v
      /\ history[v] = [history[feed.at] EXCEPT ![k] = IF e.class = "deleted"
                                                     THEN None ELSE e.object]
  <2>1. ServerTypeOK /\ OneChangePerVersion
    BY DEF IInv, TypeOK
  <2> QED BY <1>1, <2>1, NextEvent
<1>3. stream' = Record(stream, e.class, k, e.object)
  BY <1>1, <1>2 DEF Observe, Stages
<1> HIDE DEF e
<1> QED BY <1>1, <1>2, <1>3, RecordLive

(* A bookmark of a stretch without changes moves the checkpoint and leaves *)
(* a live cache what the collection is there.                              *)
LEMMA BookmarkMoves ==
  ASSUME IInv, NEW v \in (feed.at + 1)..Now, feed.phase = "changes",
         QuietBetween(feed.at, v), stream' = Observe(stream, Bookmark(v))
  PROVE  /\ v \in 1..Now
         /\ stream' \in WatchStream /\ stream'.state = "live"
         /\ stream'.staging = None
         /\ stream'.checkpoint = v /\ stream'.objects = history[v]
<1>1. /\ stream \in WatchStream /\ stream.state = "live" /\ stream.staging = None
      /\ feed.at \in 1..Now /\ stream.objects = history[feed.at]
  BY DEF IInv, TypeOK, BodyStandsAtCheckpoint, CacheIsCollectionAtCheckpoint, HasSynced,
     StagedIsPartOfInitial, IsStreamingList
<1>2. Now \in Nat /\ v \in 1..Now /\ v \in (feed.at + 1)..v
  BY <1>1 DEF IInv, TypeOK, ServerTypeOK, Now
<1>3. history[v] = history[feed.at]
  BY <1>2 DEF QuietBetween
<1>4. stream' = [stream EXCEPT !.checkpoint = v]
  BY <1>1 DEF Observe, Bookmark, Checkpointed
<1>5. v \in Version \cup {None}
  BY <1>2 DEF Version
<1>6. stream' \in WatchStream
  BY <1>1, <1>4, <1>5 DEF WatchStream
<1>7. /\ stream'.state = "live" /\ stream'.staging = None
      /\ stream'.checkpoint = v /\ stream'.objects = stream.objects
  BY <1>1, <1>4 DEF WatchStream
<1> QED BY <1>1, <1>2, <1>3, <1>6, <1>7

(* What a failure makes of the stream.                                     *)
LEMMA InterruptedStands ==
  ASSUME IInv, stream' = Observe(stream, Error("interrupted"))
  PROVE  /\ stream' \in WatchStream
         /\ stream'.state = stream.state \/ (HasSynced(stream) /\ HasSynced(stream'))
         /\ stream'.checkpoint = stream.checkpoint
         /\ stream'.objects = stream.objects
         /\ stream'.staging = stream.staging
BY DEF IInv, TypeOK, Observe, Error, Fail, WatchStream, SyncState, HasSynced

(* An error that breaks continuity leaves a stream that has not            *)
(* synchronised and stages nothing.                                        *)
LEMMA BreakingLoses ==
  ASSUME IInv, NEW failure \in {"expired", "denied"},
         stream' = Observe(stream, Error(failure))
  PROVE  stream' \in WatchStream /\ ~ HasSynced(stream') /\ stream'.staging = None
<1>1. stream' = IF failure = "expired"
                THEN BreakContinuity(stream, "expired", "gap_detected")
                ELSE BreakContinuity(stream, "access_denied", "denied")
  BY DEF Observe, Error, Fail
<1>2. stream \in WatchStream
  BY DEF IInv, TypeOK
<1> QED BY <1>1, <1>2, BreakType DEF GapReason

(* Staging one more object of the initial state.                           *)
LEMMA StagingKeepsIInv == IInv /\ SendInitial => IInv'
<1> SUFFICES ASSUME IInv, SendInitial PROVE IInv'
  OBVIOUS
<1>1. PICK k \in feed.todo :
        /\ stream' = Observe(stream, Change("added", k, history[feed.at][k]))
        /\ feed' = [feed EXCEPT !.todo = @ \ {k}]
  BY DEF SendInitial
<1>2. /\ stream \in WatchStream /\ feed \in Feed /\ k \in Keys
      /\ feed.phase = "initial" /\ feed.at \in 1..Now
      /\ stream.staging # None /\ stream.staging \in Cache
      /\ history[feed.at] \in Cache
  BY <1>1 DEF IInv, TypeOK, SendInitial, StagedIsPartOfInitial, IsStreamingList, Feed,
     WatchStream, ServerTypeOK, Now
<1> DEFINE staged == [stream.staging EXCEPT ![k] = history[feed.at][k]]
<1>3. stream' = [stream EXCEPT !.staging = staged]
  BY <1>1, <1>2 DEF Observe, Change, Stages, WatchStream
<1>4. staged \in Cache /\ staged # None
  <2>1. staged \in Cache
    BY <1>2 DEF Cache
  <2>2. \A j \in Keys : staged[j] = IF j = k THEN history[feed.at][k] ELSE stream.staging[j]
    BY <1>2 DEF Cache
  <2> QED BY <2>1, NoneAssumption
<1>5. stream' \in WatchStream /\ stream'.staging = staged /\ stream'.state = stream.state
      /\ stream'.checkpoint = stream.checkpoint /\ stream'.objects = stream.objects
  <2> HIDE DEF staged
  <2> QED BY <1>2, <1>3, <1>4 DEF WatchStream
<1>6. /\ feed' \in Feed /\ feed'.phase = "initial" /\ feed'.at = feed.at
      /\ feed'.todo = feed.todo \ {k}
  BY <1>1, <1>2 DEF Feed
<1>7. history' = history /\ Now' = Now /\ listing' = listing
  BY DEF SendInitial, server, Now
<1>8. TypeOK' /\ OneChangePerVersion'
  BY <1>5, <1>6 DEF IInv, TypeOK, SendInitial, server, ServerTypeOK, Now,
     OneChangePerVersion, Changed
<1>9. CacheIsCollectionAtCheckpoint'
  BY <1>5, <1>7 DEF IInv, CacheIsCollectionAtCheckpoint, HasSynced
<1>10. StagedIsPartOfInitial'
  <2>1. ~ HasSynced(stream')
    BY <1>2, <1>5 DEF IInv, StagedIsPartOfInitial, IsStreamingList, HasSynced
  <2>2. \A j \in Keys : staged[j] = IF j \in feed.todo \ {k} THEN None ELSE history[feed.at][j]
    BY <1>2, <1>4 DEF IInv, StagedIsPartOfInitial, Cache
  <2> HIDE DEF staged
  <2> QED BY <1>2, <1>4, <1>5, <1>6, <1>7, <2>1, <2>2 DEF StagedIsPartOfInitial, IsStreamingList
<1>11. BodyStandsAtCheckpoint'
  BY <1>6 DEF BodyStandsAtCheckpoint
<1>12. ListingIsNotBehind'
  BY <1>2, <1>7 DEF IInv, ListingIsNotBehind
<1> QED BY <1>8, <1>9, <1>10, <1>11, <1>12 DEF IInv

(* Opening a body at the checkpoint of a live stream.                      *)
LEMMA OpeningKeepsIInv == IInv /\ OpenWatch => IInv'
<1> SUFFICES ASSUME IInv, OpenWatch PROVE IInv'
  OBVIOUS
<1>1. /\ stream.state = "live" /\ stream.checkpoint \in 1..Now
      /\ feed' = [phase |-> "changes", at |-> stream.checkpoint, todo |-> {}]
      /\ stream' = stream /\ listing' = None /\ history' = history /\ Now' = Now
  BY DEF OpenWatch, Idle, IInv, CacheIsCollectionAtCheckpoint, HasSynced, server, Now
<1>2. feed' \in Feed
  BY <1>1, FeedType DEF IInv, TypeOK, WatchStream, Version, ServerTypeOK, Now
<1>3. TypeOK' /\ OneChangePerVersion'
  BY <1>1, <1>2 DEF IInv, TypeOK, OpenWatch, server, ServerTypeOK, Now,
     OneChangePerVersion, Changed
<1>4. CacheIsCollectionAtCheckpoint'
  BY <1>1 DEF IInv, CacheIsCollectionAtCheckpoint
<1>5. BodyStandsAtCheckpoint'
  BY <1>1 DEF BodyStandsAtCheckpoint
<1>6. StagedIsPartOfInitial'
  BY <1>1 DEF IInv, StagedIsPartOfInitial, IsStreamingList
<1> QED BY <1>1, <1>3, <1>4, <1>5, <1>6 DEF IInv, ListingIsNotBehind

(* Deciding to ask for the initial state on the watch itself.              *)
LEMMA BeginningKeepsIInv == IInv /\ BeginStream => IInv'
<1> SUFFICES ASSUME IInv, BeginStream PROVE IInv'
  OBVIOUS
<1>1. /\ stream.state \in {"syncing", "gap_detected"} /\ stream \in WatchStream
      /\ stream' = [stream EXCEPT !.staging = EmptyCache]
      /\ feed' = feed /\ feed.phase = "closed"
      /\ listing' = None /\ history' = history /\ Now' = Now
  BY DEF BeginStream, BeginStreamingList, Idle, server, Now, IInv, TypeOK
<1>2. EmptyCache \in Cache /\ EmptyCache # None
  BY NoneAssumption DEF EmptyCache, Cache
<1>3. /\ stream' \in WatchStream /\ stream'.state = stream.state
  BY <1>1, <1>2 DEF WatchStream
<1>4. TypeOK' /\ OneChangePerVersion'
  BY <1>1, <1>3 DEF IInv, TypeOK, BeginStream, server, ServerTypeOK, Now,
     OneChangePerVersion, Changed
<1>5. ~ HasSynced(stream')
  BY <1>1, <1>3 DEF HasSynced
<1> QED
  BY <1>1, <1>4, <1>5 DEF IInv, CacheIsCollectionAtCheckpoint, BodyStandsAtCheckpoint,
     StagedIsPartOfInitial, ListingIsNotBehind

(* The server starts to send the initial state: nothing of it is staged.   *)
LEMMA StreamingKeepsIInv == IInv /\ OpenStreamingList => IInv'
<1> SUFFICES ASSUME IInv, OpenStreamingList PROVE IInv'
  OBVIOUS
<1>1. /\ stream' = stream /\ stream.staging = EmptyCache
      /\ feed' = [phase |-> "initial", at |-> Now, todo |-> {k \in Keys : history[Now][k] # None}]
      /\ listing' = None /\ history' = history /\ Now' = Now
  BY DEF OpenStreamingList, Idle, server, Now
<1>2. EmptyCache # None
  BY NoneAssumption DEF EmptyCache, Cache
<1>3. Now \in Version /\ Now \in 1..Now
  BY DEF IInv, TypeOK, ServerTypeOK, Now, Version
<1>4. feed' \in Feed
  BY <1>1, <1>3, FeedType
<1>5. TypeOK' /\ OneChangePerVersion'
  BY <1>1, <1>4 DEF IInv, TypeOK, OpenStreamingList, server, ServerTypeOK, Now,
     OneChangePerVersion, Changed
<1>6. StagedIsPartOfInitial'
  BY <1>1, <1>2, <1>3 DEF IInv, StagedIsPartOfInitial, IsStreamingList, EmptyCache
<1> QED
  BY <1>1, <1>5, <1>6 DEF IInv, CacheIsCollectionAtCheckpoint, BodyStandsAtCheckpoint,
     ListingIsNotBehind

(* The terminating bookmark: all of the initial state has been staged.     *)
LEMMA EndInitialLists ==
  ASSUME IInv, EndInitial
  PROVE  stream' = Listed(stream, history[feed.at], feed.at)
<1>1. /\ stream.staging # None /\ stream.staging \in Cache
      /\ feed.at \in 1..Now /\ history[feed.at] \in Cache
      /\ \A k \in Keys : stream.staging[k] = history[feed.at][k]
  BY DEF IInv, TypeOK, EndInitial, StagedIsPartOfInitial, IsStreamingList, WatchStream,
     ServerTypeOK, Now
<1>2. stream.staging = history[feed.at]
  BY <1>1 DEF Cache
<1> QED BY <1>1, <1>2 DEF EndInitial, Observe, InitialEventsEnd

(* The closing bookmark of a streaming list preserves the invariant.       *)
LEMMA EndInitialKeepsIInv == IInv /\ EndInitial => IInv'
<1> SUFFICES ASSUME IInv, EndInitial PROVE IInv'
  OBVIOUS
<1>1. /\ feed.at \in 1..Now /\ listing' = None /\ UNCHANGED server
      /\ feed' = [feed EXCEPT !.phase = "changes"]
  BY DEF EndInitial, IInv, ListingIsNotBehind, StagedIsPartOfInitial
<1> QED BY <1>1, EndInitialLists, SynchronisingKeepsIInv

(* Quarantining one object claims less and moves nothing.                  *)
LEMMA OwnWriteKeepsIInv == ASSUME NEW k \in Keys PROVE IInv /\ OwnWrite(k) => IInv'
<1> SUFFICES ASSUME IInv, OwnWrite(k) PROVE IInv'
  OBVIOUS
<1>1. /\ stream' \in WatchStream /\ stream'.state = stream.state
      /\ stream'.checkpoint = stream.checkpoint /\ stream'.objects = stream.objects
      /\ stream'.staging = stream.staging
  BY DEF IInv, TypeOK, OwnWrite, Written, WatchStream
<1>2. history' = history /\ Now' = Now /\ feed' = feed /\ listing' = listing /\ oldest' = oldest
  BY DEF OwnWrite, server, Now
<1> QED
  BY <1>1, <1>2 DEF IInv, TypeOK, ServerTypeOK, OneChangePerVersion, Changed,
     CacheIsCollectionAtCheckpoint, BodyStandsAtCheckpoint, StagedIsPartOfInitial,
     ListingIsNotBehind, HasSynced, IsStreamingList, Now

(* Starting and losing a listing touch neither the stream nor its feed.    *)
LEMMA ListingKeepsIInv == IInv /\ (StartListing \/ LoseListing) => IInv'
<1> SUFFICES ASSUME IInv, StartListing \/ LoseListing PROVE IInv'
  OBVIOUS
<1>1. /\ stream' = stream /\ feed' = feed /\ history' = history /\ oldest' = oldest
      /\ Now' = Now
      /\ \/ listing' = None
         \/ listing' = Now /\ feed.phase = "closed"
  BY DEF StartListing, LoseListing, Idle, server, Now
<1>2. Now \in Version /\ Now \in Nat /\ Now \in 1..Now
  BY DEF IInv, TypeOK, ServerTypeOK, Now, Version
<1>3. HasSynced(stream) => stream.checkpoint \in 1..Now
  BY DEF IInv, CacheIsCollectionAtCheckpoint
<1>4. ListingIsNotBehind'
  BY <1>1, <1>2, <1>3 DEF ListingIsNotBehind
<1> QED
  BY <1>1, <1>2, <1>4 DEF IInv, TypeOK, ServerTypeOK, OneChangePerVersion, Changed,
     CacheIsCollectionAtCheckpoint, BodyStandsAtCheckpoint, StagedIsPartOfInitial, Now

-----------------------------------------------------------------------------
(* The inductive invariant holds of every behaviour: a stream that says it *)
(* has synchronised holds the collection as it was at its checkpoint, and  *)
(* the body it reads stands there too.                                     *)
THEOREM InductiveInvariant == Spec => []IInv
<1>1. Init => IInv
  BY InitIInv
<1>2. IInv /\ [Next]_vars => IInv'
  <2> SUFFICES ASSUME IInv, [Next]_vars PROVE IInv'
    OBVIOUS
  <2>0. stream \in WatchStream /\ listing \in Version \cup {None}
    BY DEF IInv, TypeOK
  <2>1. CASE ServerStep
    BY <2>1, ServerKeepsIInv
  <2>2. CASE StartListing \/ LoseListing
    BY <2>2, ListingKeepsIInv
  <2>3. CASE FinishListing
    <3>1. listing \in 1..Now /\ feed.phase = "closed"
      BY <2>3 DEF FinishListing, IInv, ListingIsNotBehind
    <3>2. UNCHANGED server /\ feed' = feed
      BY <2>3 DEF FinishListing
    <3>3. stream' = Listed(stream, history[listing], listing) /\ listing' = None
      BY <2>3 DEF FinishListing
    <3> QED BY <2>0, <3>1, <3>2, <3>3, SynchronisingKeepsIInv
  <2>4. CASE BeginStream \/ OpenStreamingList
    BY <2>4, BeginningKeepsIInv, StreamingKeepsIInv
  <2>5. CASE AbandonStream
    <3>1. /\ stream' \in WatchStream /\ stream'.state = stream.state
          /\ stream'.checkpoint = stream.checkpoint /\ stream'.objects = stream.objects
          /\ stream'.staging = None
      BY <2>0, <2>5 DEF AbandonStream, AbandonStreamingList, WatchStream
    <3> QED BY <2>5, <3>1, StandingKeepsIInv DEF AbandonStream, Idle
  <2>6. CASE Reconnect
    <3>1. /\ stream' \in WatchStream /\ HasSynced(stream) /\ HasSynced(stream')
          /\ stream'.checkpoint = stream.checkpoint /\ stream'.objects = stream.objects
          /\ stream'.staging = stream.staging
      BY <2>0, <2>6 DEF Reconnect, Reconnected, WatchStream, SyncState, HasSynced
    <3> QED BY <2>6, <3>1, StandingKeepsIInv DEF Reconnect, Idle
  <2>7. CASE OpenWatch
    BY <2>7, OpeningKeepsIInv
  <2>8. CASE OpenRefused
    <3>1. stream' \in WatchStream /\ ~ HasSynced(stream') /\ stream'.staging = None
      BY <2>8, BreakingLoses DEF OpenRefused
    <3> QED BY <2>8, <3>1, LosingKeepsIInv DEF OpenRefused, Idle
  <2>9. CASE SendInitial
    BY <2>9, StagingKeepsIInv
  <2>10. CASE EndInitial
    BY <2>10, EndInitialKeepsIInv
  <2>11. CASE Deliver
    <3>1. PICK v \in 1..Now, k \in Keys :
            /\ IsNext(feed.at, v, k)
            /\ stream' = Observe(stream, EventAt(v, k))
            /\ feed' = [feed EXCEPT !.at = v]
      BY <2>11 DEF Deliver
    <3> QED BY <2>11, <3>1, DeliverMoves, AdvancingKeepsIInv DEF Deliver
  <2>12. CASE SendBookmark
    <3>1. PICK v \in (feed.at + 1)..Now :
            /\ QuietBetween(feed.at, v)
            /\ stream' = Observe(stream, Bookmark(v))
            /\ feed' = [feed EXCEPT !.at = v]
      BY <2>12 DEF SendBookmark
    <3> QED BY <2>12, <3>1, BookmarkMoves, AdvancingKeepsIInv DEF SendBookmark
  <2>13. CASE EndBody
    <3>1. stream' = stream \/ stream' = Observe(stream, Error("interrupted"))
      BY <2>13 DEF EndBody
    <3>2. listing' = None
      BY <2>13 DEF EndBody, IInv, ListingIsNotBehind
    <3>3. CASE stream' = stream
      BY <2>0, <2>13, <3>2, <3>3, StandingKeepsIInv DEF EndBody
    <3>4. CASE stream' = Observe(stream, Error("interrupted"))
      BY <2>13, <3>2, <3>4, InterruptedStands, StandingKeepsIInv DEF EndBody
    <3> QED BY <3>1, <3>3, <3>4
  <2>14. CASE BreakBody
    <3>1. stream' \in WatchStream /\ ~ HasSynced(stream') /\ stream'.staging = None
      BY <2>14, BreakingLoses DEF BreakBody
    <3>2. listing' = None
      BY <2>14 DEF BreakBody, IInv, ListingIsNotBehind
    <3> QED BY <2>14, <3>1, <3>2, LosingKeepsIInv DEF BreakBody
  <2>15. ASSUME NEW k \in Keys, OwnWrite(k) PROVE IInv'
    BY <2>15, OwnWriteKeepsIInv
  <2>16. CASE Release
    <3>1. stream' \in WatchStream /\ ~ HasSynced(stream') /\ stream'.staging = None
      BY <2>16, NewStreamType DEF Release, NewStream, HasSynced
    <3> QED BY <2>16, <3>1, LosingKeepsIInv DEF Release, Idle
  <2>17. CASE UNCHANGED vars
    BY <2>17 DEF vars, client, server, IInv, TypeOK, ServerTypeOK, OneChangePerVersion,
       Changed, CacheIsCollectionAtCheckpoint, BodyStandsAtCheckpoint,
       StagedIsPartOfInitial, ListingIsNotBehind, Now
  <2> QED BY <2>1, <2>2, <2>3, <2>4, <2>5, <2>6, <2>7, <2>8, <2>9, <2>10, <2>11, <2>12,
             <2>13, <2>14, <2>15, <2>16, <2>17 DEF Next
<1> QED BY <1>1, <1>2, PTL DEF Spec

(* §20.3 of the specification the code cites: what a synchronised cache    *)
(* answers, a hit as much as an absence, is the collection at the version  *)
(* the stream stands at.                                                   *)
THEOREM CacheIsSound == Spec => []CacheIsCollectionAtCheckpoint
<1>1. IInv => CacheIsCollectionAtCheckpoint
  BY DEF IInv
<1> QED BY <1>1, InductiveInvariant, PTL

(* Every reachable state is well typed.                                    *)
THEOREM TypeCorrect == Spec => []TypeOK
<1>1. IInv => TypeOK
  BY DEF IInv
<1> QED BY <1>1, InductiveInvariant, PTL

-----------------------------------------------------------------------------
(* The refinement.  Three facts say what a step may do to what is known:   *)
(* nothing, a whole snapshot no older than it, or the next change.         *)
(* Both specifications stand over the same server.                         *)
LEMMA SameServer ==
  /\ Observed!ServerInit <=> ServerInit
  /\ Observed!ServerNext <=> ServerNext
  /\ Observed!server = server
  /\ Observed!Now = Now
  /\ \A from, to : Observed!QuietBetween(from, to) <=> QuietBetween(from, to)
  /\ Observed!EmptyCache = EmptyCache
<1>1. /\ Observed!server = server /\ Observed!Now = Now
      /\ Observed!ServerInit <=> ServerInit
      /\ \A from, to : Observed!QuietBetween(from, to) <=> QuietBetween(from, to)
      /\ Observed!EmptyCache = EmptyCache
  BY DEF Observed!server, server, Observed!Now, Now, Observed!ServerInit, ServerInit,
     Observed!QuietBetween, QuietBetween, Observed!EmptyCache, EmptyCache
<1>2. \A k \in Keys : /\ Observed!Write(k) <=> Write(k)
                      /\ Observed!Delete(k) <=> Delete(k)
  BY DEF Observed!Write, Write, Observed!Put, Put, Observed!Delete, Delete,
     Observed!Now, Now
<1>3. /\ Observed!WriteElsewhere <=> WriteElsewhere
      /\ Observed!Compact <=> Compact
  BY DEF Observed!WriteElsewhere, WriteElsewhere, Observed!Compact, Compact,
     Observed!Now, Now
<1> QED BY <1>1, <1>2, <1>3 DEF Observed!ServerNext, ServerNext

(* What is known stands still where neither cache, checkpoint nor          *)
(* synchronisation moves.                                                  *)
LEMMA ViewStands ==
  ASSUME stream'.checkpoint = stream.checkpoint, stream'.objects = stream.objects,
         HasSynced(stream) <=> HasSynced(stream')
  PROVE  KnownView' = KnownView
BY DEF KnownView

(* A stream that is no longer synchronised is a loss of what was known.    *)
LEMMA ViewIsLost ==
  ASSUME UNCHANGED server, ~ HasSynced(stream')
  PROVE  Observed!Lose \/ KnownView' = KnownView
BY SameServer DEF KnownView, Observed!Lose, Observed!Unknown, Observed!server, server

(* A listing of a version not older than what was known is an acquisition. *)
LEMMA ViewIsAcquired ==
  ASSUME IInv, UNCHANGED server, NEW v \in 1..Now,
         HasSynced(stream) => stream.checkpoint <= v,
         stream' = Listed(stream, history[v], v)
  PROVE  Observed!Acquire
<1>1. KnownView' = [known |-> TRUE, at |-> v, objects |-> history[v]]
  BY DEF KnownView, Listed, HasSynced
<1>2. KnownView.known => KnownView.at <= v
  BY DEF KnownView
<1>3. KnownView' = Observed!Snapshot(v)
  BY <1>1 DEF Observed!Snapshot
<1>4. UNCHANGED Observed!server /\ v \in 1..Observed!Now
  BY SameServer DEF Observed!server, server
<1> HIDE DEF KnownView
<1> QED BY <1>2, <1>3, <1>4 DEF Observed!Acquire

(* A live cache that is the collection after the next change is one        *)
(* advance.                                                                *)
LEMMA ViewAdvances ==
  ASSUME IInv, UNCHANGED server, feed.phase = "changes", NEW v \in (feed.at + 1)..Now,
         QuietBetween(feed.at, v - 1),
         stream'.state = "live", stream'.checkpoint = v, stream'.objects = history[v]
  PROVE  Observed!Advance
<1>1. KnownView.known = TRUE /\ KnownView.at = feed.at
  BY DEF IInv, BodyStandsAtCheckpoint, KnownView, HasSynced
<1>2. KnownView' = [known |-> TRUE, at |-> v, objects |-> history[v]]
  BY DEF KnownView, HasSynced
<1>3. KnownView' = Observed!Snapshot(v)
  BY <1>2 DEF Observed!Snapshot
<1>4. UNCHANGED Observed!server
  BY DEF Observed!server, server
<1>5. v \in (KnownView.at + 1)..Observed!Now /\ Observed!QuietBetween(KnownView.at, v - 1)
  BY <1>1, SameServer
<1> HIDE DEF KnownView
<1> QED BY <1>1, <1>3, <1>4, <1>5 DEF Observed!Advance

(* A watch stream implements the collection a reader may rely on: whatever *)
(* the server does to it, what it claims to know is one snapshot that only *)
(* moves forward, and a break costs everything rather than some of it.     *)
THEOREM Refinement == Spec => ImplementsObserved
<1>1. Init => Observed!Init
  BY SameServer DEF Init, Observed!Init, KnownView, NewStream, HasSynced, Observed!Unknown
<1>2. IInv /\ [Next]_vars => [Observed!Next]_<< Observed!server, KnownView >>
  <2> SUFFICES ASSUME IInv, [Next]_vars
               PROVE  Observed!Next \/ (UNCHANGED server /\ KnownView' = KnownView)
    BY DEF Observed!server, server
  <2> USE DEF Observed!Next
  <2>1. CASE ServerStep
    BY <2>1, SameServer DEF ServerStep, client, KnownView
  <2>2. CASE StartListing \/ LoseListing \/ OpenStreamingList \/ OpenWatch
    BY <2>2 DEF StartListing, LoseListing, OpenStreamingList, OpenWatch, KnownView
  <2>3. CASE FinishListing
    <3>1. /\ listing \in 1..Now /\ UNCHANGED server
          /\ HasSynced(stream) => stream.checkpoint <= listing
          /\ stream' = Listed(stream, history[listing], listing)
      BY <2>3 DEF FinishListing, IInv, ListingIsNotBehind
    <3> QED BY <3>1, ViewIsAcquired
  <2>4. CASE BeginStream
    <3>1. ~ HasSynced(stream')
      BY <2>4 DEF BeginStream, BeginStreamingList, HasSynced, IInv, TypeOK, WatchStream
    <3> QED BY <2>4, <3>1, ViewIsLost DEF BeginStream
  <2>5. CASE AbandonStream
    BY <2>5, ViewStands DEF AbandonStream, AbandonStreamingList, HasSynced, IInv, TypeOK,
       WatchStream
  <2>6. CASE Reconnect
    BY <2>6, ViewStands DEF Reconnect, Reconnected, HasSynced, IInv, TypeOK, WatchStream
  <2>7. CASE OpenRefused
    BY <2>7, BreakingLoses, ViewIsLost DEF OpenRefused
  <2>8. CASE SendInitial
    <3>1. PICK k \in feed.todo : stream' = Observe(stream, Change("added", k, history[feed.at][k]))
      BY <2>8 DEF SendInitial
    <3>2. /\ stream.staging # None /\ ~ HasSynced(stream) /\ stream \in WatchStream
      BY <2>8 DEF IInv, TypeOK, SendInitial, StagedIsPartOfInitial, IsStreamingList
    <3>3. ~ HasSynced(stream')
      BY <3>1, <3>2 DEF Observe, Change, Stages, WatchStream, HasSynced
    <3> QED BY <2>8, <3>3, ViewIsLost DEF SendInitial
  <2>9. CASE EndInitial
    <3>1. /\ feed.at \in 1..Now /\ stream' = Listed(stream, history[feed.at], feed.at)
          /\ ~ HasSynced(stream)
      BY <2>9, EndInitialLists DEF IInv, EndInitial, StagedIsPartOfInitial
    <3> QED BY <2>9, <3>1, ViewIsAcquired DEF EndInitial
  <2>10. CASE Deliver
    <3>1. PICK v \in 1..Now, k \in Keys :
            IsNext(feed.at, v, k) /\ stream' = Observe(stream, EventAt(v, k))
      BY <2>10 DEF Deliver
    <3>2. v \in (feed.at + 1)..Now /\ QuietBetween(feed.at, v - 1)
      BY <3>1 DEF IsNext
    <3> QED BY <2>10, <3>1, <3>2, DeliverMoves, ViewAdvances DEF Deliver
  <2>11. CASE SendBookmark
    <3>1. PICK v \in (feed.at + 1)..Now :
            QuietBetween(feed.at, v) /\ stream' = Observe(stream, Bookmark(v))
      BY <2>11 DEF SendBookmark
    <3>2. feed.at \in Nat /\ v \in Nat
      BY <2>11, <3>1 DEF IInv, TypeOK, Feed, Version
    <3>3. QuietBetween(feed.at, v - 1)
      BY <3>1, <3>2 DEF QuietBetween
    <3> QED BY <2>11, <3>1, <3>3, BookmarkMoves, ViewAdvances DEF SendBookmark
  <2>12. CASE EndBody
    <3>1. stream' = stream \/ stream' = Observe(stream, Error("interrupted"))
      BY <2>12 DEF EndBody
    <3>2. CASE stream' = stream
      BY <2>12, <3>2 DEF EndBody, KnownView
    <3>3. CASE stream' = Observe(stream, Error("interrupted"))
      BY <2>12, <3>3, InterruptedStands, ViewStands DEF EndBody, HasSynced
    <3> QED BY <3>1, <3>2, <3>3
  <2>13. CASE BreakBody
    BY <2>13, BreakingLoses, ViewIsLost DEF BreakBody
  <2>14. ASSUME NEW k \in Keys, OwnWrite(k)
         PROVE  UNCHANGED server /\ KnownView' = KnownView
    BY <2>14, ViewStands DEF OwnWrite, Written, HasSynced, IInv, TypeOK, WatchStream
  <2>15. CASE Release
    <3>1. ~ HasSynced(stream')
      BY <2>15 DEF Release, NewStream, HasSynced
    <3> QED BY <2>15, <3>1, ViewIsLost DEF Release
  <2>16. CASE UNCHANGED vars
    BY <2>16 DEF vars, client, KnownView
  <2> QED BY <2>1, <2>2, <2>3, <2>4, <2>5, <2>6, <2>7, <2>8, <2>9, <2>10, <2>11, <2>12,
             <2>13, <2>14, <2>15, <2>16 DEF Next
<1> QED BY <1>1, <1>2, InductiveInvariant, PTL DEF Spec, ImplementsObserved, Observed!Spec

-----------------------------------------------------------------------------
(* The record a stream keeps of itself.  A stream is a value, and what     *)
(* each method makes of one is a lemma about any stream: the step of the   *)
(* specification only says which method.                                   *)

(* What ContinuityAgrees says, of any stream, and that a stream that has   *)
(* not been acquired has no period at all.                                 *)
IsBroken(s) == s.state \in {"gap_detected", "denied"}

Continuous(s) ==
  /\ HasSynced(s) <=> s.checkpoint # None
  /\ HasSynced(s) <=> HasOpenSegment(s)
  /\ IsBroken(s) <=> HasOpenGap(s)
  /\ \A i \in 1..Len(s.segments) - 1 : ~ IsOpen(s.segments[i])
  /\ \A j \in 1..Len(s.gaps) - 1 : s.gaps[j].resumed_at # None
  /\ s.state = "syncing" => s.segments = << >>

(* What PeriodsAreSeparatedByGaps says, of any stream, and what the next   *)
(* period will need: an open gap begins where the last period ended, and   *)
(* the gap that a trim moves is none of those between two periods.         *)
Separates(gap, before, after) ==
  /\ gap.reason # "trimmed"
  /\ gap.after = before.closed_at
  /\ gap.resumed_at = after.started_at

Separated(s) ==
  /\ \A i \in 1..Len(s.segments) - 1 :
       \E j \in 1..Len(s.gaps) : Separates(s.gaps[j], s.segments[i], s.segments[i + 1])
  /\ HasOpenGap(s) =>
       /\ s.gaps[Len(s.gaps)].reason # "trimmed"
       /\ s.segments # << >> =>
            s.gaps[Len(s.gaps)].after = s.segments[Len(s.segments)].closed_at
  /\ s.trim_gap # None =>
       /\ s.trim_gap \in 1..Len(s.gaps)
       /\ s.gaps[s.trim_gap].reason = "trimmed"

(* What TrimIsReported says, of any stream, and which of the gaps it is:   *)
(* that of the open period is the one the next trim moves.                 *)
TrimGap(segment) == Gap("trimmed", segment.started_at, RetainedFrom(segment))

TrimsTold(s) ==
  /\ \A i \in 1..Len(s.segments) :
       s.segments[i].trimmed > 0 =>
         /\ s.segments[i].changes # << >>
         /\ \E j \in 1..Len(s.gaps) :
              /\ s.gaps[j] = TrimGap(s.segments[i])
              /\ s.trim_gap # None => (j = s.trim_gap <=> i = Len(s.segments))
  /\ s.trim_gap # None =>
       HasOpenSegment(s) /\ s.segments[Len(s.segments)].trimmed > 0
  /\ HasOpenSegment(s) /\ s.segments[Len(s.segments)].trimmed > 0 =>
       s.trim_gap # None

(* What LogIsCompleteSinceTrim says, of one period over any history.       *)
ChangesIn(h, from, to) == {v \in (from + 1)..to : h[v] # h[v - 1]}

Logged(log) == {log[j].rv : j \in 1..Len(log)}

(* A logged change is one the collection went through, of the lifetime the *)
(* log says.                                                               *)
IsChange(h, k, uid, v) ==
  /\ h[v][k] # h[v - 1][k]
  /\ uid = (IF h[v][k] = None THEN h[v - 1][k].uid ELSE h[v][k].uid)

Tells(h, c) == IsChange(h, c.key, c.uid, c.rv)

WholeLog(h, segment, end) ==
  /\ \A i, j \in 1..Len(segment.changes) :
       i < j => segment.changes[i].rv < segment.changes[j].rv
  /\ Logged(segment.changes) \subseteq ChangesIn(h, segment.started_at, end)
  /\ \A v \in ChangesIn(h, segment.started_at, end) \ Logged(segment.changes) :
       \A w \in Logged(segment.changes) : v < w
  /\ (segment.trimmed = 0) <=>
       (Logged(segment.changes) = ChangesIn(h, segment.started_at, end))
  /\ \A j \in 1..Len(segment.changes) : Tells(h, segment.changes[j])

End(s, segment) == IF IsOpen(segment) THEN s.checkpoint ELSE segment.closed_at

LogsWhole(h, s) ==
  \A i \in 1..Len(s.segments) :
    /\ s.segments[i].started_at \in 1..Len(h)
    /\ End(s, s.segments[i]) \in s.segments[i].started_at..Len(h)
    /\ WholeLog(h, s.segments[i], End(s, s.segments[i]))

(* The inductive invariant, over that of WatchedCollection.                *)
Recorded(h, s) == Continuous(s) /\ Separated(s) /\ TrimsTold(s) /\ LogsWhole(h, s)

CInv == IInv /\ Recorded(history, stream)

-----------------------------------------------------------------------------
(* One period of observation and its log.                                  *)

(* A period of which no change has been observed has an empty log.         *)
LEMMA NewLog ==
  ASSUME NEW h, NEW v \in Nat
  PROVE  WholeLog(h, [started_at |-> v, closed_at |-> None, changes |-> << >>, trimmed |-> 0], v)
BY DEF WholeLog, Logged, ChangesIn

(* What a server adds to its history is after every period.                *)
LEMMA LaterHistory ==
  ASSUME NEW h, NEW g, NEW n \in Nat, \A v \in 1..n : g[v] = h[v],
         NEW segment \in Segment, segment.started_at \in 1..n, NEW end \in 0..n,
         WholeLog(h, segment, end)
  PROVE  WholeLog(g, segment, end)
<1>1. segment.started_at \in Nat
  BY DEF Segment, Version
<1>2. ChangesIn(g, segment.started_at, end) = ChangesIn(h, segment.started_at, end)
  BY <1>1 DEF ChangesIn
<1>3. ASSUME NEW j \in 1..Len(segment.changes) PROVE Tells(g, segment.changes[j])
  <2> DEFINE c == segment.changes[j]
  <2>1. Tells(h, c) /\ c.rv \in ChangesIn(h, segment.started_at, end)
    BY DEF WholeLog, Logged
  <2> HIDE DEF c
  <2>2. c.rv \in 1..n /\ c.rv - 1 \in 1..n
    BY <1>1, <2>1 DEF ChangesIn
  <2>3. Tells(g, c)
    BY <2>1, <2>2 DEF Tells, IsChange
  <2> QED BY <2>3 DEF c
<1> QED BY <1>2, <1>3 DEF WholeLog

(* A bookmark moves the end of a period over versions of no change.        *)
LEMMA QuietLog ==
  ASSUME NEW h, NEW segment \in Segment, NEW at \in Nat, NEW v \in Nat,
         at < v, segment.started_at <= at,
         \A w \in (at + 1)..v : h[w] = h[at],
         WholeLog(h, segment, at)
  PROVE  WholeLog(h, segment, v)
<1>1. segment.started_at \in Nat
  BY DEF Segment, Version
<1>2. \A w \in (at + 1)..v : h[w] = h[w - 1]
  <2>1. ASSUME NEW w \in (at + 1)..v PROVE h[w] = h[w - 1]
    <3>1. h[w] = h[at]
      BY <2>1
    <3>2. h[w - 1] = h[at]
      <4>1. CASE w = at + 1
        BY <4>1
      <4>2. CASE w # at + 1
        <5>1. w - 1 \in (at + 1)..v
          BY <2>1, <4>2
        <5> QED BY <5>1
      <4> QED BY <4>1, <4>2
    <3> QED BY <3>1, <3>2
  <2> QED BY <2>1
<1>3. ChangesIn(h, segment.started_at, v) = ChangesIn(h, segment.started_at, at)
  BY <1>1, <1>2 DEF ChangesIn
<1> QED BY <1>3 DEF WholeLog

(* The next change is in the period from then on, and is its last.         *)
LEMMA NextChange ==
  ASSUME NEW h, NEW from \in Nat, NEW at \in Nat, NEW v \in Nat,
         from <= at, at < v,
         \A w \in (at + 1)..(v - 1) : h[w] = h[at], h[v] # h[at]
  PROVE  /\ ChangesIn(h, from, v) = ChangesIn(h, from, at) \cup {v}
         /\ \A w \in ChangesIn(h, from, at) : w \in Nat /\ w < v
<1>1. \A w \in (at + 1)..(v - 1) : h[w] = h[w - 1]
  <2>1. ASSUME NEW w \in (at + 1)..(v - 1) PROVE h[w] = h[w - 1]
    <3>1. h[w] = h[at]
      BY <2>1
    <3>2. CASE w = at + 1
      BY <3>1, <3>2
    <3>3. CASE w # at + 1
      <4>1. w - 1 \in (at + 1)..(v - 1)
        BY <2>1, <3>3
      <4> QED BY <3>1, <4>1
    <3> QED BY <3>2, <3>3
  <2> QED BY <2>1
<1>2. h[v] # h[v - 1]
  <2>1. CASE v = at + 1
    BY <2>1
  <2>2. CASE v # at + 1
    <3>1. v - 1 \in (at + 1)..(v - 1)
      BY <2>2
    <3> QED BY <3>1
  <2> QED BY <2>1, <2>2
<1> QED BY <1>1, <1>2 DEF ChangesIn

(* A log that forgets its n oldest changes keeps the rest in their order.  *)
Keep(log, n, change) == Append(SubSeq(log, n + 1, Len(log)), change)

(* What the trimming keeps of the log.                                     *)
LEMMA KeptLog ==
  ASSUME NEW log \in Seq(ObservedChange), NEW change \in ObservedChange,
         NEW n \in Nat, n <= Len(log)
  PROVE  /\ Keep(log, n, change) \in Seq(ObservedChange)
         /\ Len(Keep(log, n, change)) = Len(log) - n + 1
         /\ \A j \in 1..Len(log) - n : Keep(log, n, change)[j] = log[j + n]
         /\ Keep(log, n, change)[Len(Keep(log, n, change))] = change
<1> DEFINE rest == SubSeq(log, n + 1, Len(log))
<1>1. Len(log) \in Nat /\ \A i \in n + 1..Len(log) : log[i] \in ObservedChange
  OBVIOUS
<1>2. rest \in Seq(ObservedChange) /\ Len(rest) = Len(log) - n
  BY <1>1, SubSeqProperties
<1>3. \A j \in 1..Len(log) - n : rest[j] = log[j + n]
  BY <1>1
<1>4. Keep(log, n, change) = Append(rest, change)
  BY DEF Keep
<1> HIDE DEF rest
<1>5. /\ Append(rest, change) \in Seq(ObservedChange)
      /\ Len(Append(rest, change)) = Len(rest) + 1
      /\ \A j \in 1..Len(rest) : Append(rest, change)[j] = rest[j]
      /\ Append(rest, change)[Len(rest) + 1] = change
  BY <1>2
<1> QED BY <1>1, <1>2, <1>3, <1>4, <1>5

(* Pushing the next change keeps the log what it claims to be: all of the  *)
(* period, or its later part and a count of the rest.                      *)
LEMMA PushedLog ==
  ASSUME NEW h, NEW segment \in Segment, NEW at \in Nat, NEW v \in Nat,
         segment.started_at <= at, at < v,
         \A w \in (at + 1)..(v - 1) : h[w] = h[at], h[v] # h[at],
         NEW change \in ObservedChange, change.rv = v, Tells(h, change),
         WholeLog(h, segment, at)
  PROVE  WholeLog(h, Push(segment, change), v)
<1> DEFINE log    == segment.changes
           n      == IF LogFull(segment) THEN TrimBlock ELSE 0
           kept   == Keep(log, n, change)
           within == ChangesIn(h, segment.started_at, at)
<1>1. /\ log \in Seq(ObservedChange) /\ Len(log) \in Nat
      /\ segment.started_at \in Nat /\ segment.trimmed \in Nat
  BY DEF Segment, Version
<1>2. n \in Nat /\ n <= Len(log) /\ (LogFull(segment) => n >= 1)
  BY <1>1, LogAssumption DEF LogFull
<1> HIDE DEF log, n, kept
<1>3. /\ kept \in Seq(ObservedChange)
      /\ Len(kept) = Len(log) - n + 1 /\ Len(kept) \in Nat
      /\ \A j \in 1..Len(log) - n : kept[j] = log[j + n]
      /\ kept[Len(kept)] = change
  <2>1. log \in Seq(ObservedChange) /\ n \in Nat /\ n <= Len(log)
    BY <1>1, <1>2
  <2>2. /\ kept \in Seq(ObservedChange)
        /\ Len(kept) = Len(log) - n + 1
        /\ \A j \in 1..Len(log) - n : kept[j] = log[j + n]
        /\ kept[Len(kept)] = change
    BY <2>1, KeptLog DEF kept
  <2>3. Len(log) - n + 1 \in Nat
    BY <1>1, <1>2
  <2> QED BY <2>2, <2>3
<1>4. LET p == Push(segment, change)
      IN  /\ p.changes = kept
          /\ p.trimmed = segment.trimmed + n
          /\ p.started_at = segment.started_at
  <2>1. CASE LogFull(segment)
    <3>1. n = TrimBlock
      BY <2>1 DEF n
    <3>2. Push(segment, change) = [segment EXCEPT !.changes = kept,
                                                  !.trimmed = segment.trimmed + n]
      BY <2>1, <3>1 DEF Push, log, kept, Keep
    <3> QED BY <3>2 DEF Segment
  <2>2. CASE ~ LogFull(segment)
    <3>1. n = 0 /\ n + 1 = 1
      BY <2>2 DEF n
    <3>2. SubSeq(log, n + 1, Len(log)) = log
      BY <1>1, <3>1, SubSeqFull
    <3>3. Push(segment, change) = [segment EXCEPT !.changes = kept]
      BY <2>2, <3>2 DEF Push, log, kept, Keep
    <3> QED BY <1>1, <3>1, <3>3 DEF Segment
  <2> QED BY <2>1, <2>2
<1>5. /\ ChangesIn(h, segment.started_at, v) = within \cup {v}
      /\ \A w \in within : w \in Nat /\ w < v
  BY <1>1, NextChange
<1>6. /\ \A i, j \in 1..Len(log) : i < j => log[i].rv < log[j].rv
      /\ \A j \in 1..Len(log) : log[j].rv \in within
      /\ \A w \in within \ Logged(log) : \A j \in 1..Len(log) : w < log[j].rv
      /\ (segment.trimmed = 0) <=> (Logged(log) = within)
  BY DEF WholeLog, Logged, log
<1> HIDE DEF within
<1>7. \A i, j \in 1..Len(kept) : i < j => kept[i].rv < kept[j].rv
  <2>1. ASSUME NEW i \in 1..Len(kept), NEW j \in 1..Len(kept), i < j
        PROVE  kept[i].rv < kept[j].rv
    <3>1. i \in 1..Len(log) - n /\ i + n \in 1..Len(log)
      BY <1>1, <1>2, <1>3, <2>1
    <3>2. kept[i].rv = log[i + n].rv
      BY <1>3, <3>1
    <3>3. CASE j = Len(kept)
      <4>1. kept[j].rv = v
        BY <1>3, <3>3
      <4> QED BY <1>5, <1>6, <3>1, <3>2, <4>1
    <3>4. CASE j # Len(kept)
      <4>1. j \in 1..Len(log) - n /\ j + n \in 1..Len(log) /\ i + n < j + n
        BY <1>1, <1>2, <1>3, <2>1, <3>4
      <4>2. kept[j].rv = log[j + n].rv
        BY <1>3, <4>1
      <4> QED BY <1>6, <3>1, <3>2, <4>1, <4>2
    <3> QED BY <3>3, <3>4
  <2> QED BY <2>1
<1>8. Logged(kept) = {log[j].rv : j \in (n + 1)..Len(log)} \cup {v}
  <2>1. ASSUME NEW j \in 1..Len(kept)
        PROVE  kept[j].rv \in {log[i].rv : i \in (n + 1)..Len(log)} \cup {v}
    <3>1. CASE j = Len(kept)
      BY <1>3, <3>1
    <3>2. CASE j # Len(kept)
      <4>0. j \in 1..Len(log) - n + 1 /\ j # Len(log) - n + 1
        BY <1>3, <3>2
      <4>1. j \in 1..Len(log) - n
        BY <1>1, <1>2, <4>0
      <4>2. j + n \in (n + 1)..Len(log)
        BY <1>1, <1>2, <4>1
      <4> QED BY <1>3, <4>1, <4>2
    <3> QED BY <3>1, <3>2
  <2>2. ASSUME NEW i \in (n + 1)..Len(log)
        PROVE  \E j \in 1..Len(kept) : kept[j].rv = log[i].rv
    <3>1. i - n \in 1..Len(log) - n /\ i - n \in 1..Len(kept) /\ (i - n) + n = i
      BY <1>1, <1>2, <1>3
    <3>2. kept[i - n] = log[i]
      BY <1>3, <3>1
    <3> QED BY <3>1, <3>2
  <2>3. Len(kept) \in 1..Len(kept) /\ kept[Len(kept)].rv = v
    BY <1>1, <1>2, <1>3
  <2>4. Logged(kept) \subseteq {log[i].rv : i \in (n + 1)..Len(log)} \cup {v}
    BY <2>1 DEF Logged
  <2>5. {log[i].rv : i \in (n + 1)..Len(log)} \subseteq Logged(kept)
    BY <2>2 DEF Logged
  <2>6. v \in Logged(kept)
    BY <2>3 DEF Logged
  <2> QED BY <2>4, <2>5, <2>6
<1>9. Logged(kept) \subseteq within \cup {v}
  BY <1>1, <1>2, <1>6, <1>8
<1>10. \A w \in (within \cup {v}) \ Logged(kept) : \A u \in Logged(kept) : w < u
  <2> SUFFICES ASSUME NEW w \in within, w \notin Logged(kept), NEW u \in Logged(kept)
               PROVE  w < u
    BY <1>8
  <2>1. CASE u = v
    BY <1>5, <2>1
  <2>2. CASE u # v
    <3>1. PICK j \in (n + 1)..Len(log) : u = log[j].rv
      BY <1>8, <2>2
    <3>2. j \in 1..Len(log)
      BY <1>2, <3>1
    <3>3. CASE w \notin Logged(log)
      BY <1>6, <3>1, <3>2, <3>3
    <3>4. CASE w \in Logged(log)
      <4>1. PICK i \in 1..Len(log) : w = log[i].rv
        BY <3>4 DEF Logged
      <4>2. i \notin (n + 1)..Len(log)
        BY <1>8, <4>1
      <4>3. i < j
        BY <1>1, <1>2, <3>1, <4>1, <4>2
      <4> QED BY <1>6, <3>1, <3>2, <4>1, <4>3
    <3> QED BY <3>3, <3>4
  <2> QED BY <2>1, <2>2
<1>11. (segment.trimmed + n = 0) <=> (Logged(kept) = within \cup {v})
  <2>1. CASE n = 0
    <3>1. Logged(kept) = Logged(log) \cup {v}
      <4>1. (n + 1)..Len(log) = 1..Len(log)
        BY <1>1, <2>1
      <4> QED BY <1>8, <4>1 DEF Logged
    <3>2. v \notin within /\ v \notin Logged(log)
      BY <1>5, <1>6 DEF Logged
    <3>3. (Logged(kept) = within \cup {v}) <=> (Logged(log) = within)
      BY <3>1, <3>2
    <3> QED BY <1>1, <1>6, <2>1, <3>3
  <2>2. CASE n # 0
    <3>1. 1 \in 1..Len(log) /\ log[1].rv \in within /\ log[1].rv # v
      BY <1>1, <1>2, <1>5, <1>6, <2>2
    <3>2. \A j \in (n + 1)..Len(log) : log[1].rv # log[j].rv
      <4>1. ASSUME NEW j \in (n + 1)..Len(log) PROVE log[1].rv # log[j].rv
        <5>1. j \in 1..Len(log) /\ 1 < j
          BY <1>1, <1>2, <2>2
        <5>2. log[1].rv < log[j].rv /\ log[1].rv \in Nat
          BY <1>5, <1>6, <3>1, <5>1
        <5>3. log[j].rv \in Nat
          BY <1>5, <1>6, <5>1
        <5> QED BY <5>2, <5>3
      <4> QED BY <4>1
    <3>3. log[1].rv \notin Logged(kept)
      BY <1>8, <3>1, <3>2
    <3> QED BY <1>1, <1>2, <2>2, <3>1, <3>3
  <2> QED BY <2>1, <2>2
<1>12. ASSUME NEW j \in 1..Len(kept) PROVE Tells(h, kept[j])
  <2>1. CASE j = Len(kept)
    BY <1>3, <2>1
  <2>2. CASE j # Len(kept)
    <3>0. j \in 1..Len(log) - n + 1 /\ j # Len(log) - n + 1
      BY <1>3, <2>2
    <3>1. j \in 1..Len(log) - n /\ j + n \in 1..Len(log)
      BY <1>1, <1>2, <3>0
    <3>2. Tells(h, log[j + n])
      BY <3>1 DEF WholeLog, log
    <3> QED BY <1>3, <3>1, <3>2
  <2> QED BY <2>1, <2>2
<1> QED BY <1>4, <1>5, <1>7, <1>9, <1>10, <1>11, <1>12 DEF WholeLog

-----------------------------------------------------------------------------
(* What each method of a stream makes of its record.                       *)

(* A stream whose periods and gaps are those of another, and that is as    *)
(* synchronised, has the same record.                                      *)
LEMMA SameRecord ==
  ASSUME NEW h, NEW s, NEW t, Recorded(h, s),
         t.segments = s.segments, t.gaps = s.gaps, t.trim_gap = s.trim_gap,
         t.checkpoint = s.checkpoint,
         t.state = s.state \/ (HasSynced(s) /\ HasSynced(t))
  PROVE  Recorded(h, t)
<1>1. /\ HasOpenSegment(t) <=> HasOpenSegment(s)
      /\ HasOpenGap(t) <=> HasOpenGap(s)
      /\ \A segment : End(t, segment) = End(s, segment)
  BY DEF HasOpenSegment, HasOpenGap, End
<1>2. /\ HasSynced(t) <=> HasSynced(s)
      /\ IsBroken(t) <=> IsBroken(s)
      /\ t.state = "syncing" <=> s.state = "syncing"
  BY DEF HasSynced, IsBroken
<1>3. Continuous(t)
  BY <1>1, <1>2 DEF Recorded, Continuous
<1>4. Separated(t)
  BY <1>1 DEF Recorded, Separated
<1>5. TrimsTold(t)
  BY <1>1 DEF Recorded, TrimsTold
<1>6. LogsWhole(h, t)
  BY <1>1 DEF Recorded, LogsWhole
<1> QED BY <1>3, <1>4, <1>5, <1>6 DEF Recorded

(* The record of a stream that has not begun.                              *)
LEMMA NewRecord == ASSUME NEW h PROVE Recorded(h, NewStream)
<1>1. Len(NewStream.segments) = 0 /\ Len(NewStream.gaps) = 0
  BY DEF NewStream
<1>2. ~ HasOpenSegment(NewStream) /\ ~ HasOpenGap(NewStream) /\ ~ HasSynced(NewStream)
  BY DEF HasOpenSegment, HasOpenGap, HasSynced, NewStream
<1>3. Continuous(NewStream)
  BY <1>1, <1>2 DEF Continuous, NewStream, IsBroken
<1>4. Separated(NewStream) /\ TrimsTold(NewStream) /\ LogsWhole(h, NewStream)
  BY <1>1, <1>2 DEF Separated, TrimsTold, LogsWhole, NewStream
<1> QED BY <1>3, <1>4 DEF Recorded

(* A longer history leaves the record what it is.                          *)
LEMMA LaterRecord ==
  ASSUME NEW h \in Seq(Cache), NEW g \in Seq(Cache), NEW s \in WatchStream,
         Len(g) >= Len(h), \A v \in 1..Len(h) : g[v] = h[v],
         Recorded(h, s)
  PROVE  Recorded(g, s)
<1>1. Len(h) \in Nat /\ Len(g) \in Nat /\ s.segments \in Seq(Segment)
  BY DEF WatchStream
<1>2. ASSUME NEW i \in 1..Len(s.segments)
      PROVE  /\ s.segments[i].started_at \in 1..Len(g)
             /\ End(s, s.segments[i]) \in s.segments[i].started_at..Len(g)
             /\ WholeLog(g, s.segments[i], End(s, s.segments[i]))
  <2>1. /\ s.segments[i].started_at \in 1..Len(h)
        /\ End(s, s.segments[i]) \in s.segments[i].started_at..Len(h)
        /\ WholeLog(h, s.segments[i], End(s, s.segments[i]))
    BY DEF Recorded, LogsWhole
  <2>2. s.segments[i] \in Segment
    BY <1>1
  <2>3. End(s, s.segments[i]) \in 0..Len(h)
    BY <1>1, <2>1
  <2>4. WholeLog(g, s.segments[i], End(s, s.segments[i]))
    BY <1>1, <2>1, <2>2, <2>3, LaterHistory
  <2> QED BY <1>1, <2>1, <2>4
<1> QED BY <1>2 DEF Recorded, LogsWhole

(* A bookmark moves the end of the open period, and no other.              *)
LEMMA BookmarkRecord ==
  ASSUME NEW h \in Seq(Cache), NEW s \in WatchStream, Recorded(h, s),
         s.state = "live", NEW v \in 1..Len(h), s.checkpoint < v,
         \A w \in (s.checkpoint + 1)..v : h[w] = h[s.checkpoint]
  PROVE  Recorded(h, [s EXCEPT !.checkpoint = v])
<1> DEFINE t == [s EXCEPT !.checkpoint = v]
<1>1. /\ t.state = s.state /\ t.segments = s.segments /\ t.gaps = s.gaps
      /\ t.trim_gap = s.trim_gap /\ t.checkpoint = v
      /\ v \in Nat /\ v # None
  BY NoneAssumption DEF WatchStream
<1>2. HasSynced(s) /\ s.checkpoint # None /\ s.checkpoint \in Nat
  BY DEF Recorded, Continuous, HasSynced, WatchStream, Version
<1> HIDE DEF t
<1>3. /\ HasOpenSegment(t) <=> HasOpenSegment(s)
      /\ HasOpenGap(t) <=> HasOpenGap(s)
      /\ HasSynced(t) <=> HasSynced(s)
      /\ IsBroken(t) <=> IsBroken(s)
  BY <1>1 DEF HasOpenSegment, HasOpenGap, HasSynced, IsBroken
<1>4. Continuous(t)
  BY <1>1, <1>2, <1>3 DEF Recorded, Continuous
<1>5. Separated(t) /\ TrimsTold(t)
  BY <1>1, <1>3 DEF Recorded, Separated, TrimsTold
<1>6. ASSUME NEW i \in 1..Len(t.segments)
      PROVE  /\ t.segments[i].started_at \in 1..Len(h)
             /\ End(t, t.segments[i]) \in t.segments[i].started_at..Len(h)
             /\ WholeLog(h, t.segments[i], End(t, t.segments[i]))
  <2>1. /\ s.segments[i].started_at \in 1..Len(h)
        /\ End(s, s.segments[i]) \in s.segments[i].started_at..Len(h)
        /\ WholeLog(h, s.segments[i], End(s, s.segments[i]))
        /\ s.segments[i] \in Segment
    BY <1>1 DEF Recorded, LogsWhole, WatchStream
  <2>2. CASE IsOpen(s.segments[i])
    <3>1. End(s, s.segments[i]) = s.checkpoint /\ End(t, t.segments[i]) = v
      BY <1>1, <2>2 DEF End
    <3>2. s.segments[i].started_at <= s.checkpoint
      BY <1>2, <2>1, <3>1
    <3>3. WholeLog(h, s.segments[i], v)
      BY <1>1, <1>2, <2>1, <3>1, <3>2, QuietLog
    <3> QED BY <1>1, <1>2, <2>1, <3>1, <3>2, <3>3
  <2>3. CASE ~ IsOpen(s.segments[i])
    BY <1>1, <2>1, <2>3 DEF End
  <2> QED BY <2>2, <2>3
<1>7. LogsWhole(h, t)
  BY <1>6 DEF LogsWhole
<1> QED BY <1>4, <1>5, <1>7 DEF Recorded, t

(* Closing the open period closes it where its log ends, and changes       *)
(* nothing of the others.                                                  *)
LEMMA ClosedPeriods ==
  ASSUME NEW s \in WatchStream, Continuous(s)
  PROVE  /\ CloseOpenSegment(s) \in Seq(Segment)
         /\ Len(CloseOpenSegment(s)) = Len(s.segments)
         /\ \A i \in 1..Len(s.segments) :
              /\ CloseOpenSegment(s)[i].started_at = s.segments[i].started_at
              /\ CloseOpenSegment(s)[i].changes = s.segments[i].changes
              /\ CloseOpenSegment(s)[i].trimmed = s.segments[i].trimmed
              /\ CloseOpenSegment(s)[i].closed_at = End(s, s.segments[i])
              /\ ~ IsOpen(CloseOpenSegment(s)[i])
<1> DEFINE n == Len(s.segments)
<1>1. /\ s.segments \in Seq(Segment) /\ n \in Nat
      /\ s.checkpoint \in Version \cup {None}
  BY DEF WatchStream
<1>2. ASSUME NEW i \in 1..n
      PROVE  /\ CloseOpenSegment(s)[i].started_at = s.segments[i].started_at
             /\ CloseOpenSegment(s)[i].changes = s.segments[i].changes
             /\ CloseOpenSegment(s)[i].trimmed = s.segments[i].trimmed
             /\ CloseOpenSegment(s)[i].closed_at = End(s, s.segments[i])
             /\ ~ IsOpen(CloseOpenSegment(s)[i])
  <2>1. s.segments[i] \in Segment
    BY <1>1
  <2>2. CASE HasOpenSegment(s) /\ i = n
    <3>1. CloseOpenSegment(s)[i] = [s.segments[i] EXCEPT !.closed_at = s.checkpoint]
      BY <1>1, <2>2 DEF CloseOpenSegment
    <3>2. s.checkpoint # None
      BY <2>2 DEF Continuous
    <3>3. End(s, s.segments[i]) = s.checkpoint
      BY <2>2 DEF HasOpenSegment, End
    <3> QED BY <2>1, <3>1, <3>2, <3>3 DEF Segment, IsOpen
  <2>3. CASE ~ HasOpenSegment(s) \/ i # n
    <3>1. CloseOpenSegment(s)[i] = s.segments[i]
      BY <1>1, <2>3 DEF CloseOpenSegment
    <3>2. ~ IsOpen(s.segments[i])
      BY <1>1, <2>3 DEF Continuous, HasOpenSegment
    <3> QED BY <3>1, <3>2 DEF End, IsOpen
  <2> QED BY <2>2, <2>3
<1> QED BY <1>2, CloseOpenSegmentType

(* The logs of closed periods are those of the periods they were.          *)
LEMMA ClosedLogs ==
  ASSUME NEW h, NEW s \in WatchStream, Recorded(h, s),
         NEW i \in 1..Len(s.segments), NEW t,
         t.segments[i] = CloseOpenSegment(s)[i]
  PROVE  /\ t.segments[i].started_at \in 1..Len(h)
         /\ End(t, t.segments[i]) \in t.segments[i].started_at..Len(h)
         /\ WholeLog(h, t.segments[i], End(t, t.segments[i]))
<1> DEFINE closed == CloseOpenSegment(s)[i]
<1>1. /\ closed.started_at = s.segments[i].started_at
      /\ closed.changes = s.segments[i].changes
      /\ closed.trimmed = s.segments[i].trimmed
      /\ closed.closed_at = End(s, s.segments[i])
      /\ ~ IsOpen(closed)
  BY ClosedPeriods DEF Recorded
<1> HIDE DEF closed
<1>2. End(t, closed) = End(s, s.segments[i])
  BY <1>1 DEF End
<1>3. /\ s.segments[i].started_at \in 1..Len(h)
      /\ End(s, s.segments[i]) \in s.segments[i].started_at..Len(h)
      /\ WholeLog(h, s.segments[i], End(s, s.segments[i]))
  BY DEF Recorded, LogsWhole
<1>4. t.segments[i] = closed
  BY DEF closed
<1>5. WholeLog(h, closed, End(s, s.segments[i]))
  BY <1>1, <1>3 DEF WholeLog
<1> QED BY <1>1, <1>2, <1>3, <1>4, <1>5

(* A break closes the open period, and opens a gap where it ended.         *)
LEMMA BreakRecord ==
  ASSUME NEW h, NEW s \in WatchStream, Recorded(h, s), ~ IsBroken(s),
         NEW t, NEW reason \in GapReason \ {"trimmed"}, IsBroken(t),
         t.segments = CloseOpenSegment(s),
         t.gaps = Append(s.gaps, Gap(reason, s.checkpoint, None)),
         t.checkpoint = None, t.trim_gap = None
  PROVE  Recorded(h, t)
<1> DEFINE n == Len(s.segments)
           m == Len(s.gaps)
<1>1. /\ s.segments \in Seq(Segment) /\ s.gaps \in Seq(WatchGap)
      /\ n \in Nat /\ m \in Nat /\ s.checkpoint \in Version \cup {None}
  BY DEF WatchStream
<1>2. /\ Len(t.segments) = n /\ Len(t.gaps) = m + 1 /\ t.gaps # << >>
      /\ \A j \in 1..m : t.gaps[j] = s.gaps[j]
      /\ t.gaps[m + 1] = Gap(reason, s.checkpoint, None)
      /\ t.segments \in Seq(Segment)
  <2>1. Len(t.segments) = n /\ t.segments \in Seq(Segment)
    BY CloseOpenSegmentType
  <2>2. /\ Len(t.gaps) = m + 1 /\ t.gaps # << >>
        /\ \A j \in 1..m : t.gaps[j] = s.gaps[j]
        /\ t.gaps[m + 1] = Gap(reason, s.checkpoint, None)
    BY <1>1
  <2> QED BY <2>1, <2>2
<1>3. \A i \in 1..n :
        /\ t.segments[i].started_at = s.segments[i].started_at
        /\ t.segments[i].changes = s.segments[i].changes
        /\ t.segments[i].trimmed = s.segments[i].trimmed
        /\ t.segments[i].closed_at = End(s, s.segments[i])
        /\ ~ IsOpen(t.segments[i])
  BY ClosedPeriods DEF Recorded
<1>4. ~ HasOpenGap(s) /\ ~ HasSynced(t) /\ t.state # "syncing"
  BY DEF Recorded, Continuous, IsBroken, HasSynced
<1>5. ~ HasOpenSegment(t)
  <2>1. CASE t.segments = << >>
    BY <2>1 DEF HasOpenSegment
  <2>2. CASE t.segments # << >>
    <3>1. n \in 1..n
      BY <1>1, <1>2, <2>2
    <3>2. ~ IsOpen(t.segments[n])
      BY <1>3, <3>1
    <3> QED BY <1>2, <3>2 DEF HasOpenSegment
  <2> QED BY <2>1, <2>2
<1>6. HasOpenGap(t)
  BY <1>1, <1>2 DEF HasOpenGap, Gap
<1>7. \A j \in 1..m : s.gaps[j].resumed_at # None
  BY <1>1, <1>4 DEF Recorded, Continuous, HasOpenGap
<1> HIDE DEF n, m
<1>8. Continuous(t)
  BY <1>1, <1>2, <1>3, <1>4, <1>5, <1>6, <1>7 DEF Continuous
<1>9. Separated(t)
  <2>1. ASSUME NEW i \in 1..n - 1
        PROVE  \E j \in 1..m + 1 : Separates(t.gaps[j], t.segments[i], t.segments[i + 1])
    <3>1. i \in 1..n /\ i + 1 \in 1..n /\ i \in 1..Len(s.segments) - 1
      BY <1>1 DEF n
    <3>2. PICK j \in 1..m : Separates(s.gaps[j], s.segments[i], s.segments[i + 1])
      BY <3>1 DEF Recorded, Separated, m
    <3>3. ~ IsOpen(s.segments[i])
      BY <3>1 DEF Recorded, Continuous
    <3>4. Separates(t.gaps[j], t.segments[i], t.segments[i + 1])
      BY <1>2, <1>3, <3>1, <3>2, <3>3 DEF Separates, End
    <3>5. j \in 1..m + 1
      BY <1>1
    <3> QED BY <3>4, <3>5
  <2>2. s.segments # << >> => s.checkpoint = t.segments[n].closed_at
    <3>1. SUFFICES ASSUME s.segments # << >>
                   PROVE  s.checkpoint = t.segments[n].closed_at
      OBVIOUS
    <3>2. n \in 1..n /\ t.segments[n].closed_at = End(s, s.segments[n])
      BY <1>1, <1>3, <3>1 DEF n
    <3>3. HasSynced(s)
      BY <3>1 DEF Recorded, Continuous, IsBroken, HasSynced, WatchStream, SyncState
    <3> QED BY <3>2, <3>3 DEF Recorded, Continuous, HasOpenSegment, End, n
  <2>3. t.segments # << >> => s.segments # << >>
    BY <1>1, <1>2 DEF n
  <2>4. /\ t.gaps[Len(t.gaps)].reason # "trimmed"
        /\ t.gaps[Len(t.gaps)].after = s.checkpoint
    BY <1>2 DEF Gap
  <2>5. \A i \in 1..Len(t.segments) - 1 :
          \E j \in 1..Len(t.gaps) : Separates(t.gaps[j], t.segments[i], t.segments[i + 1])
    BY <1>2, <2>1
  <2> QED BY <1>2, <2>2, <2>3, <2>4, <2>5 DEF Separated
<1>10. TrimsTold(t)
  <2>1. ASSUME NEW i \in 1..n, t.segments[i].trimmed > 0
        PROVE  /\ t.segments[i].changes # << >>
               /\ \E j \in 1..m + 1 : t.gaps[j] = TrimGap(t.segments[i])
    <3>1. s.segments[i].trimmed > 0 /\ s.segments[i].changes # << >>
      BY <1>3, <2>1 DEF Recorded, TrimsTold, n
    <3>2. PICK j \in 1..m : s.gaps[j] = TrimGap(s.segments[i])
      BY <3>1 DEF Recorded, TrimsTold, n, m
    <3>3. TrimGap(t.segments[i]) = TrimGap(s.segments[i])
      BY <1>3 DEF TrimGap, RetainedFrom
    <3> QED BY <1>1, <1>2, <1>3, <3>1, <3>2, <3>3
  <2> QED BY <1>2, <1>5, <2>1 DEF TrimsTold
<1>11. LogsWhole(h, t)
  BY <1>2, ClosedLogs DEF LogsWhole, n
<1> QED BY <1>8, <1>9, <1>10, <1>11 DEF Recorded

(* What the gaps of a stream are after a listing: those it had, with an    *)
(* edge where the open one ends; or one more if a period was open, which   *)
(* the listing ended; or the same if nothing had been observed.            *)
LEMMA GapsThen ==
  ASSUME NEW s \in WatchStream, Continuous(s), Separated(s), NEW v \in Version,
         NEW after, after = GapsAfterListing(s, v)
  PROVE  /\ after \in Seq(WatchGap)
         /\ Len(after) >= Len(s.gaps)
         /\ \A j \in 1..Len(s.gaps) : s.gaps[j].resumed_at # None => after[j] = s.gaps[j]
         /\ \A j \in 1..Len(s.gaps) : s.gaps[j].reason = "trimmed" => after[j] = s.gaps[j]
         /\ \A j \in 1..Len(after) : after[j].resumed_at # None
         /\ s.segments # << >> =>
              \E j \in 1..Len(after) :
                /\ after[j].reason # "trimmed"
                /\ after[j].after = End(s, s.segments[Len(s.segments)])
                /\ after[j].resumed_at = v
<1> DEFINE m     == Len(s.gaps)
           n     == Len(s.segments)
<1>1. /\ s.gaps \in Seq(WatchGap) /\ m \in Nat /\ v # None
      /\ s.segments \in Seq(Segment) /\ n \in Nat /\ (s.segments # << >> => n \in 1..n)
  BY NoneAssumption DEF WatchStream, Version
<1>2. after \in Seq(WatchGap)
  BY GapsAfterListingType
<1>3. \A j \in 1..m - 1 : s.gaps[j].resumed_at # None
  BY DEF Continuous
<1>4. CASE HasOpenGap(s)
  <2>1. m \in 1..m /\ s.gaps[m] \in WatchGap /\ s.gaps[m].resumed_at = None
    BY <1>1, <1>4 DEF HasOpenGap
  <2>2. after = [s.gaps EXCEPT ![m].resumed_at = v]
    BY <1>4 DEF GapsAfterListing
  <2>3. /\ Len(after) = m /\ \A j \in 1..m : j # m => after[j] = s.gaps[j]
        /\ after[m] = [s.gaps[m] EXCEPT !.resumed_at = v]
    BY <1>1, <2>1, <2>2
  <2>4. s.gaps[m].reason # "trimmed"
    BY <1>4 DEF Separated
  <2>5. after[m].resumed_at = v /\ after[m].reason = s.gaps[m].reason
        /\ after[m].after = s.gaps[m].after
    BY <2>1, <2>3 DEF WatchGap
  <2>6. s.segments # << >> => s.gaps[m].after = End(s, s.segments[n])
    <3>1. ~ HasOpenSegment(s)
      BY <1>4 DEF Continuous, IsBroken, HasSynced
    <3> QED BY <1>4, <3>1 DEF Separated, HasOpenSegment, End
  <2> HIDE DEF m, n
  <2>7. \A j \in 1..m : after[j].resumed_at # None
    <3>1. \A j \in 1..m : j # m => j \in 1..m - 1
      BY <1>1
    <3> QED BY <1>1, <1>3, <2>3, <2>5, <3>1
  <2>8. s.segments # << >> =>
          \E j \in 1..Len(after) : /\ after[j].reason # "trimmed"
                                   /\ after[j].after = End(s, s.segments[n])
                                   /\ after[j].resumed_at = v
    BY <2>1, <2>3, <2>4, <2>5, <2>6
  <2>9. Len(after) >= m
    BY <1>1, <2>3
  <2>10. /\ \A j \in 1..m : s.gaps[j].resumed_at # None => after[j] = s.gaps[j]
         /\ \A j \in 1..m : s.gaps[j].reason = "trimmed" => after[j] = s.gaps[j]
         /\ \A j \in 1..Len(after) : after[j].resumed_at # None
    BY <2>1, <2>3, <2>4, <2>7
  <2> QED BY <1>2, <2>8, <2>9, <2>10 DEF m, n
<1>5. CASE ~ HasOpenGap(s)
  <2>1. \A j \in 1..m : s.gaps[j].resumed_at # None
    BY <1>1, <1>3, <1>5 DEF HasOpenGap
  <2>2. CASE s.segments = << >>
    <3>1. after = s.gaps
      BY <1>5, <2>2 DEF GapsAfterListing
    <3> QED BY <1>1, <1>2, <2>1, <2>2, <3>1
  <2>3. CASE s.segments # << >>
    <3>1. after = Append(s.gaps, Gap("restarted", s.checkpoint, v))
      BY <1>5, <2>3 DEF GapsAfterListing
    <3>2. /\ Len(after) = m + 1 /\ \A j \in 1..m : after[j] = s.gaps[j]
          /\ after[m + 1] = Gap("restarted", s.checkpoint, v)
      BY <1>1, <3>1
    <3>3. End(s, s.segments[n]) = s.checkpoint
      BY <1>5, <2>3 DEF Continuous, IsBroken, HasSynced, HasOpenSegment, End, WatchStream,
         SyncState
    <3> HIDE DEF m, n
    <3>4. after[m + 1].resumed_at = v /\ after[m + 1].reason # "trimmed"
          /\ after[m + 1].after = s.checkpoint
      BY <3>2 DEF Gap
    <3>5. \A j \in 1..m + 1 : after[j].resumed_at # None
      BY <1>1, <2>1, <3>2, <3>4
    <3> QED BY <1>1, <1>2, <2>1, <3>2, <3>3, <3>4, <3>5 DEF m, n
  <2> QED BY <2>2, <2>3
<1> QED BY <1>4, <1>5

(* A listing ends what was open, and begins a period at its version.       *)
LEMMA ListedRecord ==
  ASSUME NEW h \in Seq(Cache), NEW s \in WatchStream, Recorded(h, s),
         NEW objects, NEW v \in 1..Len(h)
  PROVE  Recorded(h, Listed(s, objects, v))
<1> DEFINE t      == Listed(s, objects, v)
           n      == Len(s.segments)
           m      == Len(s.gaps)
           closed == CloseOpenSegment(s)
           begun  == [started_at |-> v, closed_at |-> None, changes |-> << >>, trimmed |-> 0]
<1>1. /\ s.segments \in Seq(Segment) /\ s.gaps \in Seq(WatchGap)
      /\ n \in Nat /\ m \in Nat /\ v \in Version /\ v \in Nat /\ v # None
      /\ v <= Len(h) /\ Len(h) \in Nat /\ begun \in Segment
  BY NoneAssumption DEF WatchStream, Version, Segment
<1>2. /\ t.state = "live" /\ t.checkpoint = v /\ t.trim_gap = None
      /\ t.segments = Append(closed, begun)
      /\ t.gaps = GapsAfterListing(s, v)
  BY DEF Listed
<1>3. /\ closed \in Seq(Segment) /\ Len(closed) = n
      /\ \A i \in 1..n :
           /\ closed[i].started_at = s.segments[i].started_at
           /\ closed[i].changes = s.segments[i].changes
           /\ closed[i].trimmed = s.segments[i].trimmed
           /\ closed[i].closed_at = End(s, s.segments[i])
           /\ ~ IsOpen(closed[i])
  BY ClosedPeriods DEF Recorded
<1> HIDE DEF t, n, m, closed, begun
<1>4. /\ Len(t.segments) = n + 1 /\ t.segments[n + 1] = begun
      /\ \A i \in 1..n : t.segments[i] = closed[i]
      /\ t.segments # << >>
  BY <1>1, <1>2, <1>3, AppendProperties
<1>5. /\ Len(t.gaps) \in Nat /\ Len(t.gaps) >= m
      /\ \A j \in 1..m : s.gaps[j].resumed_at # None => t.gaps[j] = s.gaps[j]
      /\ \A j \in 1..m : s.gaps[j].reason = "trimmed" => t.gaps[j] = s.gaps[j]
      /\ \A j \in 1..Len(t.gaps) : t.gaps[j].resumed_at # None
      /\ n # 0 =>
           \E j \in 1..Len(t.gaps) : /\ t.gaps[j].reason # "trimmed"
                                     /\ t.gaps[j].after = End(s, s.segments[n])
                                     /\ t.gaps[j].resumed_at = v
  <2>1. n # 0 => s.segments # << >>
    BY <1>1 DEF n
  <2>2. Continuous(s) /\ Separated(s) /\ t.gaps = GapsAfterListing(s, v)
    BY <1>2 DEF Recorded
  <2>3. t.gaps \in Seq(WatchGap)
    BY <1>1, <2>2, GapsThen
  <2>4. /\ Len(t.gaps) >= m
        /\ \A j \in 1..m : s.gaps[j].resumed_at # None => t.gaps[j] = s.gaps[j]
        /\ \A j \in 1..m : s.gaps[j].reason = "trimmed" => t.gaps[j] = s.gaps[j]
        /\ \A j \in 1..Len(t.gaps) : t.gaps[j].resumed_at # None
    BY <1>1, <2>2, GapsThen DEF m
  <2>5. s.segments # << >> =>
          \E j \in 1..Len(t.gaps) : /\ t.gaps[j].reason # "trimmed"
                                    /\ t.gaps[j].after = End(s, s.segments[n])
                                    /\ t.gaps[j].resumed_at = v
    BY <1>1, <2>2, GapsThen DEF n
  <2> QED BY <2>1, <2>3, <2>4, <2>5
<1>6. /\ begun.started_at = v /\ begun.trimmed = 0 /\ IsOpen(begun)
      /\ WholeLog(h, begun, v)
  BY <1>1, NewLog DEF begun, IsOpen
<1>7. HasOpenSegment(t) /\ ~ HasOpenGap(t) /\ HasSynced(t) /\ ~ IsBroken(t)
  <2>1. ~ HasOpenGap(t)
    <3>1. t.gaps # << >> => Len(t.gaps) \in 1..Len(t.gaps)
      BY <1>1, <1>2, GapsAfterListingType
    <3> QED BY <1>5, <3>1 DEF HasOpenGap
  <2> QED BY <1>2, <1>4, <1>6, <2>1 DEF HasOpenSegment, HasSynced, IsBroken
<1>8. Continuous(t)
  BY <1>1, <1>2, <1>3, <1>4, <1>5, <1>7 DEF Continuous
<1>9. Separated(t)
  <2>1. ASSUME NEW i \in 1..n
        PROVE  \E j \in 1..Len(t.gaps) : Separates(t.gaps[j], t.segments[i], t.segments[i + 1])
    <3>1. CASE i = n
      <4>1. t.segments[i].closed_at = End(s, s.segments[n]) /\ t.segments[i + 1].started_at = v
        BY <1>3, <1>4, <1>6, <3>1
      <4> QED BY <1>1, <1>5, <3>1, <4>1 DEF Separates
    <3>2. CASE i # n
      <4>1. i \in 1..n - 1 /\ i + 1 \in 1..n
        BY <1>1, <3>2
      <4>2. PICK j \in 1..m : Separates(s.gaps[j], s.segments[i], s.segments[i + 1])
        BY <4>1 DEF Recorded, Separated, n, m
      <4>3. s.segments[i + 1].started_at # None
        <5>1. s.segments[i + 1] \in Segment
          BY <1>1, <4>1 DEF n
        <5> QED BY <5>1, NoneAssumption DEF Segment, Version
      <4>4. t.gaps[j] = s.gaps[j]
        BY <1>5, <4>2, <4>3 DEF Separates
      <4>5. ~ IsOpen(s.segments[i])
        BY <4>1 DEF Recorded, Continuous, n
      <4>6. Separates(t.gaps[j], t.segments[i], t.segments[i + 1])
        BY <1>3, <1>4, <4>1, <4>2, <4>4, <4>5 DEF Separates, End
      <4>7. j \in 1..Len(t.gaps)
        BY <1>1, <1>5
      <4> QED BY <4>6, <4>7
    <3> QED BY <3>1, <3>2
  <2>2. \A i \in 1..Len(t.segments) - 1 :
          \E j \in 1..Len(t.gaps) : Separates(t.gaps[j], t.segments[i], t.segments[i + 1])
    <3>1. Len(t.segments) - 1 = n
      BY <1>1, <1>4
    <3> QED BY <2>1, <3>1
  <2> QED BY <1>2, <1>7, <2>2 DEF Separated
<1>10. TrimsTold(t)
  <2>1. ASSUME NEW i \in 1..n + 1, t.segments[i].trimmed > 0
        PROVE  /\ t.segments[i].changes # << >>
               /\ \E j \in 1..Len(t.gaps) : t.gaps[j] = TrimGap(t.segments[i])
    <3>1. i \in 1..n
      BY <1>1, <1>4, <1>6, <2>1
    <3>2. s.segments[i].trimmed > 0 /\ s.segments[i].changes # << >>
      BY <1>3, <1>4, <2>1, <3>1 DEF Recorded, TrimsTold, n
    <3>3. PICK j \in 1..m : s.gaps[j] = TrimGap(s.segments[i])
      BY <3>1, <3>2 DEF Recorded, TrimsTold, n, m
    <3>4. t.gaps[j] = s.gaps[j] /\ j \in 1..Len(t.gaps)
      <4>1. s.gaps[j].reason = "trimmed"
        BY <3>3 DEF TrimGap, Gap
      <4> QED BY <1>1, <1>5, <4>1
    <3>5. TrimGap(t.segments[i]) = TrimGap(s.segments[i])
      BY <1>3, <1>4, <3>1 DEF TrimGap, RetainedFrom
    <3> QED BY <1>3, <1>4, <3>1, <3>2, <3>3, <3>4, <3>5
  <2>2. ~ t.segments[n + 1].trimmed > 0
    BY <1>4, <1>6
  <2> QED BY <1>2, <1>4, <2>1, <2>2 DEF TrimsTold
<1>11. LogsWhole(h, t)
  <2>1. ASSUME NEW i \in 1..n + 1
        PROVE  /\ t.segments[i].started_at \in 1..Len(h)
               /\ End(t, t.segments[i]) \in t.segments[i].started_at..Len(h)
               /\ WholeLog(h, t.segments[i], End(t, t.segments[i]))
    <3>1. CASE i \in 1..n
      BY <1>4, <3>1, ClosedLogs DEF n, closed
    <3>2. CASE i = n + 1
      BY <1>1, <1>2, <1>4, <1>6, <3>2 DEF End
    <3> QED BY <1>1, <3>1, <3>2
  <2> QED BY <1>4, <2>1 DEF LogsWhole
<1> QED BY <1>8, <1>9, <1>10, <1>11 DEF Recorded, t

(* What a pushed change leaves of its period: where it began and ended,    *)
(* and where its retained record begins unless the log was trimmed.        *)
LEMMA PushedPeriod ==
  ASSUME NEW segment \in Segment, NEW change \in ObservedChange
  PROVE  LET p == Push(segment, change)
         IN  /\ p.started_at = segment.started_at
             /\ p.closed_at = segment.closed_at
             /\ p.changes # << >>
             /\ RetainedFrom(p) \in Version
             /\ LogFull(segment) => p.trimmed > 0
             /\ ~ LogFull(segment) =>
                  /\ p.trimmed = segment.trimmed
                  /\ segment.changes # << >> => RetainedFrom(p) = RetainedFrom(segment)
<1> DEFINE p == Push(segment, change)
<1>1. p.changes # << >> /\ RetainedFrom(p) \in Version
  BY PushType DEF RetainedFrom, ObservedChange
<1>2. segment.changes \in Seq(ObservedChange) /\ segment.trimmed \in Nat
  BY DEF Segment
<1>3. CASE LogFull(segment)
  <2> DEFINE log == Append(SubSeq(segment.changes, TrimBlock + 1, Len(segment.changes)), change)
  <2>1. p = [segment EXCEPT !.changes = log, !.trimmed = segment.trimmed + TrimBlock]
    BY <1>3 DEF Push
  <2> HIDE DEF log, p
  <2>2. /\ p.started_at = segment.started_at /\ p.closed_at = segment.closed_at
        /\ p.trimmed = segment.trimmed + TrimBlock
    BY <2>1 DEF Segment
  <2>3. p.trimmed > 0
    BY <1>2, <2>2, LogAssumption
  <2> QED BY <1>1, <1>3, <2>2, <2>3 DEF p
<1>4. CASE ~ LogFull(segment)
  <2> DEFINE log == Append(segment.changes, change)
  <2>1. p = [segment EXCEPT !.changes = log]
    BY <1>4 DEF Push
  <2>2. segment.changes # << >> => log[1] = segment.changes[1]
    BY <1>2
  <2> HIDE DEF log, p
  <2>3. /\ p.started_at = segment.started_at /\ p.closed_at = segment.closed_at
        /\ p.trimmed = segment.trimmed /\ p.changes = log
    BY <2>1 DEF Segment
  <2>4. segment.changes # << >> => RetainedFrom(p) = RetainedFrom(segment)
    BY <2>2, <2>3 DEF RetainedFrom
  <2> QED BY <1>1, <1>4, <2>3, <2>4 DEF p
<1> QED BY <1>3, <1>4

(* Where a trim is told: the gap that tells it is that of the open period, *)
(* new or moved, and every other gap stands.                               *)
TrimIndex(gaps, trim_gap) ==
  IF trim_gap = None \/ trim_gap \notin 1..Len(gaps) THEN Len(gaps) + 1 ELSE trim_gap

(* A change that trims the log leaves the gap of what it dropped.          *)
LEMMA TrimIsTold ==
  ASSUME NEW gaps \in Seq(WatchGap), NEW trim_gap \in Nat \cup {None}, NEW p,
         RetainedFrom(p) \in Version,
         trim_gap # None =>
           /\ trim_gap \in 1..Len(gaps)
           /\ gaps[trim_gap].reason = "trimmed"
           /\ gaps[trim_gap].after = p.started_at
  PROVE  LET after == RecordTrim(gaps, trim_gap, p)
             at    == TrimIndex(gaps, trim_gap)
         IN  /\ Len(after) \in Nat /\ Len(after) >= Len(gaps)
             /\ at \in 1..Len(after) /\ at # None
             /\ after[at] = TrimGap(p)
             /\ \A j \in 1..Len(after) : j # at => j \in 1..Len(gaps) /\ after[j] = gaps[j]
             /\ at \in 1..Len(gaps) => at = trim_gap
             /\ trim_gap # None => at = trim_gap
<1> DEFINE after == RecordTrim(gaps, trim_gap, p)
           at    == TrimIndex(gaps, trim_gap)
<1>1. Len(gaps) \in Nat
  OBVIOUS
<1>2. CASE trim_gap = None
  <2>1. after = Append(gaps, TrimGap(p)) /\ at = Len(gaps) + 1
    BY <1>2 DEF RecordTrim, TrimGap, TrimIndex
  <2> HIDE DEF TrimGap
  <2>2. /\ Len(after) = Len(gaps) + 1 /\ after[Len(gaps) + 1] = TrimGap(p)
        /\ \A j \in 1..Len(gaps) : after[j] = gaps[j]
    BY <1>1, <2>1
  <2>3. at \in Nat /\ at # None
    BY <1>1, <2>1, NoneAssumption
  <2> QED BY <1>1, <1>2, <2>1, <2>2, <2>3
<1>3. CASE trim_gap # None
  <2>1. /\ trim_gap \in 1..Len(gaps) /\ at = trim_gap
        /\ after = [gaps EXCEPT ![trim_gap].resumed_at = RetainedFrom(p)]
    BY <1>3 DEF RecordTrim, TrimIndex
  <2>2. /\ Len(after) = Len(gaps)
        /\ \A j \in 1..Len(gaps) : j # trim_gap => after[j] = gaps[j]
        /\ after[trim_gap] = [gaps[trim_gap] EXCEPT !.resumed_at = RetainedFrom(p)]
        /\ gaps[trim_gap] \in WatchGap
    BY <1>1, <2>1
  <2>3. after[trim_gap] = TrimGap(p)
    BY <1>3, <2>1, <2>2 DEF WatchGap, TrimGap, Gap
  <2> QED BY <1>1, <1>3, <2>1, <2>2, <2>3
<1> QED BY <1>2, <1>3

(* A delivered change is the next of the open period, and if its log was   *)
(* full the oldest of it is told to be gone.                               *)
LEMMA ChangeRecord ==
  ASSUME NEW h \in Seq(Cache), NEW s \in WatchStream, Recorded(h, s), s.state = "live",
         NEW class \in ChangeClass, NEW k \in Keys, NEW o \in Object,
         s.checkpoint < o.rv, o.rv \in 1..Len(h),
         \A w \in (s.checkpoint + 1)..(o.rv - 1) : h[w] = h[s.checkpoint],
         h[o.rv] # h[s.checkpoint],
         IsChange(h, k, o.uid, o.rv)
  PROVE  Recorded(h, Record(s, class, k, o))
<1> DEFINE n      == Len(s.segments)
           m      == Len(s.gaps)
           last   == s.segments[n]
           change == [class |-> class, key |-> k, uid |-> o.uid, rv |-> o.rv]
           p      == Push(last, change)
           full   == LogFull(last)
           at     == TrimIndex(s.gaps, s.trim_gap)
           told   == RecordTrim(s.gaps, s.trim_gap, p)
           t      == Record(s, class, k, o)
<1>1. /\ s.segments \in Seq(Segment) /\ s.gaps \in Seq(WatchGap)
      /\ n \in Nat /\ m \in Nat /\ s.trim_gap \in Nat \cup {None}
      /\ s.checkpoint \in Version \cup {None} /\ Len(h) \in Nat
  BY DEF WatchStream
<1>2. /\ HasSynced(s) /\ s.checkpoint # None /\ HasOpenSegment(s)
      /\ ~ IsBroken(s) /\ ~ HasOpenGap(s) /\ s.segments # << >>
  BY DEF HasSynced, IsBroken, Recorded, Continuous, HasOpenSegment
<1>3. n \in 1..n /\ n > 0 /\ last \in Segment /\ IsOpen(last)
  BY <1>1, <1>2 DEF HasOpenSegment
<1>4. change \in ObservedChange /\ change.rv = o.rv /\ o.rv \in Nat /\ o.rv # None
      /\ s.checkpoint \in Nat
  BY <1>1, <1>2, NoneAssumption DEF ObservedChange, Object, Version
<1>5. /\ t.state = "live" /\ t.checkpoint = o.rv
      /\ t.segments = [s.segments EXCEPT ![n] = p]
      /\ t.gaps = IF full THEN told ELSE s.gaps
      /\ t.trim_gap = IF full THEN at ELSE s.trim_gap
  <2>1. t = [s EXCEPT
              !.checkpoint     = o.rv,
              !.objects[k]     = IF class = "deleted" THEN None ELSE o,
              !.pending_writes = @ \ {k},
              !.segments       = [s.segments EXCEPT ![n] = p],
              !.gaps           = IF full THEN told ELSE s.gaps,
              !.trim_gap       = IF full THEN at ELSE s.trim_gap]
    BY <1>3 DEF Record, WatchStream, TrimIndex
  <2> HIDE DEF t, n, m, p, full, at, told
  <2> QED BY <2>1 DEF WatchStream
<1> HIDE DEF t, n, m, last, change, p, full, at, told
<1>6. /\ p.started_at = last.started_at
      /\ p.closed_at = last.closed_at
      /\ p.changes # << >> /\ RetainedFrom(p) \in Version
      /\ full => p.trimmed > 0
      /\ ~ full => /\ p.trimmed = last.trimmed
                   /\ last.changes # << >> => RetainedFrom(p) = RetainedFrom(last)
  BY <1>3, <1>4, PushedPeriod DEF p, full
<1>7. /\ last.started_at \in 1..Len(h)
      /\ s.checkpoint \in last.started_at..Len(h)
      /\ WholeLog(h, last, s.checkpoint)
  BY <1>3 DEF Recorded, LogsWhole, End, last, n
<1>8. WholeLog(h, p, o.rv)
  <2>1. last.started_at <= s.checkpoint
    BY <1>1, <1>4, <1>7
  <2>2. Tells(h, change)
    BY DEF change, Tells
  <2> QED BY <1>3, <1>4, <1>7, <2>1, <2>2, PushedLog DEF p
<1>9. \A j \in 1..m : s.gaps[j].resumed_at # None
  BY <1>1, <1>2 DEF Recorded, Continuous, HasOpenGap, m
<1>10. s.trim_gap # None =>
         /\ s.trim_gap \in 1..m
         /\ s.gaps[s.trim_gap].reason = "trimmed"
         /\ s.gaps[s.trim_gap] = TrimGap(last)
  <2>1. SUFFICES ASSUME s.trim_gap # None
                 PROVE  /\ s.trim_gap \in 1..m
                        /\ s.gaps[s.trim_gap].reason = "trimmed"
                        /\ s.gaps[s.trim_gap] = TrimGap(last)
    OBVIOUS
  <2>2. last.trimmed > 0
    BY <2>1 DEF Recorded, TrimsTold, last, n
  <2>3. PICK j \in 1..m : s.gaps[j] = TrimGap(last) /\ j = s.trim_gap
    BY <1>3, <2>1, <2>2 DEF Recorded, TrimsTold, last, n, m
  <2> QED BY <2>1, <2>3 DEF Recorded, Separated
<1>11. full =>
         /\ Len(told) \in Nat /\ Len(told) >= m
         /\ at \in 1..Len(told) /\ at # None
         /\ told[at] = TrimGap(p)
         /\ \A j \in 1..Len(told) : j # at => j \in 1..m /\ told[j] = s.gaps[j]
         /\ at \in 1..m => at = s.trim_gap
         /\ s.trim_gap # None => at = s.trim_gap
  <2>1. s.trim_gap # None => s.gaps[s.trim_gap].after = p.started_at
    BY <1>6, <1>10 DEF TrimGap, Gap
  <2>2. /\ at = TrimIndex(s.gaps, s.trim_gap)
        /\ told = RecordTrim(s.gaps, s.trim_gap, p)
        /\ m = Len(s.gaps)
    BY DEF at, told, m
  <2>3. s.trim_gap # None =>
          /\ s.trim_gap \in 1..Len(s.gaps)
          /\ s.gaps[s.trim_gap].reason = "trimmed"
          /\ s.gaps[s.trim_gap].after = p.started_at
    BY <1>10, <2>1, <2>2
  <2>4. /\ Len(told) \in Nat /\ Len(told) >= Len(s.gaps)
        /\ at \in 1..Len(told) /\ at # None
        /\ told[at] = TrimGap(p)
        /\ \A j \in 1..Len(told) : j # at => j \in 1..Len(s.gaps) /\ told[j] = s.gaps[j]
        /\ at \in 1..Len(s.gaps) => at = s.trim_gap
        /\ s.trim_gap # None => at = s.trim_gap
    <3>1. /\ s.gaps \in Seq(WatchGap) /\ s.trim_gap \in Nat \cup {None}
          /\ RetainedFrom(p) \in Version
      BY <1>1, <1>6
    <3> QED BY <2>3, <3>1, TrimIsTold DEF told, at
  <2> QED BY <2>2, <2>4
<1>12. /\ Len(t.segments) = n /\ t.segments[n] = p
       /\ \A i \in 1..n : i # n => t.segments[i] = s.segments[i]
       /\ t.segments # << >>
  BY <1>1, <1>3, <1>5 DEF n
<1>13. \A j \in 1..m : s.gaps[j].reason # "trimmed" =>
         j \in 1..Len(t.gaps) /\ t.gaps[j] = s.gaps[j]
  <2>1. CASE full
    BY <1>1, <1>5, <1>10, <1>11, <2>1
  <2>2. CASE ~ full
    BY <1>5, <2>2 DEF m
  <2> QED BY <2>1, <2>2
<1>14. \A j \in 1..Len(t.gaps) : t.gaps[j].resumed_at # None
  <2>1. CASE full
    <3>1. TrimGap(p).resumed_at # None
      BY <1>6, NoneAssumption DEF TrimGap, Gap, Version
    <3> QED BY <1>5, <1>9, <1>11, <2>1, <3>1
  <2>2. CASE ~ full
    BY <1>5, <1>9, <2>2 DEF m
  <2> QED BY <2>1, <2>2
<1>15. HasOpenSegment(t) /\ HasSynced(t) /\ ~ IsBroken(t)
  BY <1>3, <1>5, <1>6, <1>12 DEF HasOpenSegment, HasSynced, IsBroken, IsOpen
<1>16. Len(t.gaps) \in Nat /\ ~ HasOpenGap(t)
  <2>1. Len(t.gaps) \in Nat
    BY <1>1, <1>5, <1>11 DEF m
  <2>2. t.gaps # << >> => Len(t.gaps) \in 1..Len(t.gaps)
    <3>1. t.gaps \in Seq(WatchGap)
      BY <1>4, RecordLive DEF t, WatchStream
    <3> QED BY <3>1
  <2> QED BY <1>14, <2>1, <2>2 DEF HasOpenGap
<1>17. Continuous(t)
  <2>1. \A i \in 1..n - 1 : ~ IsOpen(t.segments[i])
    BY <1>1, <1>12 DEF Recorded, Continuous, n
  <2>2. \A j \in 1..Len(t.gaps) - 1 : t.gaps[j].resumed_at # None
    <3>1. \A j \in 1..Len(t.gaps) - 1 : j \in 1..Len(t.gaps)
      BY <1>16
    <3> QED BY <1>14, <3>1
  <2> QED BY <1>4, <1>5, <1>12, <1>15, <1>16, <2>1, <2>2 DEF Continuous
<1>18. Separated(t)
  <2>1. ASSUME NEW i \in 1..n - 1
        PROVE  \E j \in 1..Len(t.gaps) : Separates(t.gaps[j], t.segments[i], t.segments[i + 1])
    <3>1. PICK j \in 1..m : Separates(s.gaps[j], s.segments[i], s.segments[i + 1])
      BY DEF Recorded, Separated, n, m
    <3>2. t.gaps[j] = s.gaps[j] /\ j \in 1..Len(t.gaps)
      BY <1>13, <3>1 DEF Separates
    <3>3. t.segments[i] = s.segments[i]
      BY <1>1, <1>12
    <3>4. t.segments[i + 1].started_at = s.segments[i + 1].started_at
      BY <1>1, <1>6, <1>12 DEF last
    <3> QED BY <3>1, <3>2, <3>3, <3>4 DEF Separates
  <2>2. t.trim_gap # None => /\ t.trim_gap \in 1..Len(t.gaps)
                             /\ t.gaps[t.trim_gap].reason = "trimmed"
    <3>1. CASE full
      BY <1>5, <1>11, <3>1 DEF TrimGap, Gap
    <3>2. CASE ~ full
      BY <1>5, <1>10, <3>2 DEF m
    <3> QED BY <3>1, <3>2
  <2> QED BY <1>12, <1>16, <2>1, <2>2 DEF Separated
<1>19. TrimsTold(t)
  <2>1. p.trimmed > 0 <=> t.trim_gap # None
    <3>1. CASE full
      BY <1>5, <1>6, <1>11, <3>1
    <3>2. CASE ~ full
      BY <1>2, <1>5, <1>6, <3>2 DEF Recorded, TrimsTold, last, n
    <3> QED BY <3>1, <3>2
  <2>2. p.trimmed > 0 => /\ t.trim_gap \in 1..Len(t.gaps)
                         /\ t.gaps[t.trim_gap] = TrimGap(p)
    <3>1. CASE full
      BY <1>5, <1>11, <3>1
    <3>2. CASE ~ full /\ p.trimmed > 0
      <4>1. last.trimmed > 0 /\ last.changes # << >> /\ s.trim_gap # None
        BY <1>3, <1>2, <1>5, <1>6, <2>1, <3>2 DEF Recorded, TrimsTold, last, n
      <4>2. TrimGap(p) = TrimGap(last)
        BY <1>6, <3>2, <4>1 DEF TrimGap
      <4> QED BY <1>5, <1>10, <3>2, <4>1, <4>2 DEF m
    <3> QED BY <3>1, <3>2
  <2>3. ASSUME NEW i \in 1..n, i # n, t.segments[i].trimmed > 0
        PROVE  /\ t.segments[i].changes # << >>
               /\ \E j \in 1..Len(t.gaps) :
                    /\ t.gaps[j] = TrimGap(t.segments[i])
                    /\ t.trim_gap # None => j # t.trim_gap
    <3>1. t.segments[i] = s.segments[i]
      BY <1>12, <2>3
    <3>2. /\ s.segments[i].changes # << >>
          /\ \E j \in 1..m : /\ s.gaps[j] = TrimGap(s.segments[i])
                             /\ s.trim_gap # None => j # s.trim_gap
      BY <2>3, <3>1 DEF Recorded, TrimsTold, n, m
    <3>3. PICK j \in 1..m : /\ s.gaps[j] = TrimGap(s.segments[i])
                            /\ s.trim_gap # None => j # s.trim_gap
      BY <3>2
    <3>4. CASE full
      <4>1. j # at
        BY <1>1, <1>11, <3>3, <3>4 DEF at, TrimIndex
      <4>2. j \in 1..Len(told) /\ told[j] = s.gaps[j]
        BY <1>1, <1>11, <3>4, <4>1
      <4> QED BY <1>5, <3>1, <3>2, <3>3, <3>4, <4>1, <4>2
    <3>5. CASE ~ full
      BY <1>5, <3>1, <3>2, <3>3, <3>5 DEF m
    <3> QED BY <3>4, <3>5
  <2> QED BY <1>6, <1>12, <1>15, <2>1, <2>2, <2>3 DEF TrimsTold
<1>20. LogsWhole(h, t)
  <2>1. ASSUME NEW i \in 1..n
        PROVE  /\ t.segments[i].started_at \in 1..Len(h)
               /\ End(t, t.segments[i]) \in t.segments[i].started_at..Len(h)
               /\ WholeLog(h, t.segments[i], End(t, t.segments[i]))
    <3>1. CASE i = n
      <4>1. End(t, p) = o.rv
        BY <1>3, <1>5, <1>6 DEF End, IsOpen
      <4> QED BY <1>1, <1>4, <1>6, <1>7, <1>8, <1>12, <3>1, <4>1
    <3>2. CASE i # n
      <4>1. t.segments[i] = s.segments[i]
        BY <1>12, <3>2
      <4>2. ~ IsOpen(s.segments[i])
        BY <1>1, <3>2 DEF Recorded, Continuous, n
      <4>3. End(t, t.segments[i]) = End(s, s.segments[i])
        BY <4>1, <4>2 DEF End
      <4> QED BY <4>1, <4>3 DEF Recorded, LogsWhole, n
    <3> QED BY <3>1, <3>2
  <2> QED BY <1>12, <2>1 DEF LogsWhole
<1> QED BY <1>17, <1>18, <1>19, <1>20 DEF Recorded, t

-----------------------------------------------------------------------------
(* What the steps of the specification make of the record.                 *)

(* The server only adds to its history.                                    *)
LEMMA ServerKeepsRecord == CInv /\ ServerStep => Recorded(history, stream)'
<1> SUFFICES ASSUME CInv, ServerStep PROVE Recorded(history', stream')
  OBVIOUS
<1>1. /\ ServerTypeOK' /\ Now' >= Now /\ \A v \in 1..Now : history'[v] = history[v]
  BY ServerGrows DEF CInv, IInv, TypeOK, ServerStep
<1>2. stream' = stream /\ stream \in WatchStream
  BY DEF ServerStep, client, CInv, IInv, TypeOK
<1>3. history \in Seq(Cache) /\ history' \in Seq(Cache)
  BY <1>1 DEF CInv, IInv, TypeOK, ServerTypeOK
<1> QED BY <1>1, <1>2, <1>3, LaterRecord DEF CInv, Now

(* A change delivered by the body is the next after the checkpoint.        *)
LEMMA DeliverKeepsRecord ==
  ASSUME CInv, NEW v \in 1..Now, NEW k \in Keys, feed.phase = "changes",
         IsNext(feed.at, v, k), stream' = Observe(stream, EventAt(v, k))
  PROVE  Recorded(history, stream')
<1>1. /\ stream \in WatchStream /\ stream.state = "live" /\ stream.staging = None
      /\ feed.at \in 1..Now /\ feed.at = stream.checkpoint
      /\ history \in Seq(Cache) /\ Now \in Nat
  BY DEF CInv, IInv, TypeOK, BodyStandsAtCheckpoint, CacheIsCollectionAtCheckpoint, HasSynced,
     StagedIsPartOfInitial, IsStreamingList, ServerTypeOK, Now
<1> DEFINE e == EventAt(v, k)
<1>2. /\ e.type = "change" /\ e.class \in ChangeClass /\ e.key = k
      /\ e.object \in Object /\ e.object.rv = v
  <2>1. ServerTypeOK /\ OneChangePerVersion /\ feed.at \in 1..Now
    BY <1>1 DEF CInv, IInv, TypeOK
  <2> HIDE DEF e
  <2>2. /\ EventAt(v, k).type = "change" /\ EventAt(v, k).key = k
        /\ EventAt(v, k).class \in ChangeClass
        /\ EventAt(v, k).object \in Object /\ EventAt(v, k).object.rv = v
        /\ history[v] = [history[feed.at] EXCEPT ![k] = IF EventAt(v, k).class = "deleted"
                                                        THEN None ELSE EventAt(v, k).object]
    BY <2>1, NextEvent
  <2> QED BY <2>2 DEF e
<1>3. stream' = Record(stream, e.class, k, e.object)
  BY <1>1, <1>2 DEF Observe, Stages
<1>4. /\ v \in (feed.at + 1)..Now
      /\ \A w \in (feed.at + 1)..(v - 1) : history[w] = history[feed.at]
      /\ history[v][k] # history[v - 1][k]
  BY DEF IsNext, QuietBetween, Changed
<1>5. history[v - 1] = history[feed.at]
  <2>1. CASE v = feed.at + 1
    BY <1>1, <2>1
  <2>2. CASE v # feed.at + 1
    <3>1. v - 1 \in (feed.at + 1)..(v - 1)
      BY <1>1, <1>4, <2>2
    <3>2. \A w \in (feed.at + 1)..(v - 1) : history[w] = history[feed.at]
      BY <1>4
    <3> QED BY <3>1, <3>2
  <2> QED BY <2>1, <2>2
<1>6. history[v] # history[feed.at] /\ feed.at < v
  BY <1>1, <1>4, <1>5
<1> HIDE DEF e
<1>7. Recorded(history, stream)
  BY DEF CInv
<1>8. v \in 1..Len(history)
  BY DEF Now
<1>9. /\ stream.checkpoint < e.object.rv /\ e.object.rv \in 1..Len(history)
      /\ \A w \in (stream.checkpoint + 1)..(e.object.rv - 1) :
           history[w] = history[stream.checkpoint]
      /\ history[e.object.rv] # history[stream.checkpoint]
  <2>1. e.object.rv = v /\ stream.checkpoint = feed.at
    BY <1>1, <1>2
  <2> QED BY <1>4, <1>6, <1>8, <2>1
<1>10. /\ history \in Seq(Cache) /\ stream \in WatchStream /\ stream.state = "live"
       /\ e.class \in ChangeClass /\ e.object \in Object
  BY <1>1, <1>2
<1>11. IsChange(history, k, e.object.uid, e.object.rv)
  <2>1. e.object.uid = (IF history[v][k] = None THEN history[v - 1][k].uid ELSE history[v][k].uid)
    BY DEF e, EventAt, Change
  <2> QED BY <1>2, <1>4, <2>1 DEF IsChange
<1>12. Recorded(history, Record(stream, e.class, k, e.object))
  BY <1>7, <1>9, <1>10, <1>11, ChangeRecord
<1> QED BY <1>3, <1>12

(* A bookmark is delivered over versions of no change.                     *)
LEMMA BookmarkKeepsRecord ==
  ASSUME CInv, NEW v \in (feed.at + 1)..Now, feed.phase = "changes",
         QuietBetween(feed.at, v), stream' = Observe(stream, Bookmark(v))
  PROVE  Recorded(history, stream')
<1>1. /\ stream \in WatchStream /\ stream.state = "live"
      /\ feed.at \in 1..Now /\ feed.at = stream.checkpoint
      /\ history \in Seq(Cache) /\ Now = Len(history) /\ Now \in Nat
  BY DEF CInv, IInv, TypeOK, BodyStandsAtCheckpoint, CacheIsCollectionAtCheckpoint, HasSynced,
     ServerTypeOK, Now
<1>2. stream' = [stream EXCEPT !.checkpoint = v]
  BY <1>1 DEF Observe, Bookmark, Checkpointed
<1>3. v \in 1..Len(history) /\ stream.checkpoint < v
  BY <1>1
<1>4. \A w \in (stream.checkpoint + 1)..v : history[w] = history[stream.checkpoint]
  BY <1>1 DEF QuietBetween
<1> QED BY <1>1, <1>2, <1>3, <1>4, BookmarkRecord DEF CInv

(* A failure suspends the stream, or ends its period and opens a gap, or   *)
(* finds it broken already.                                                *)
LEMMA FailureKeepsRecord ==
  ASSUME CInv, NEW failure \in {"interrupted", "expired", "denied"},
         stream' = Observe(stream, Error(failure))
  PROVE  Recorded(history, stream')
<1>1. stream \in WatchStream /\ Recorded(history, stream) /\ stream' = Fail(stream, failure)
  BY DEF CInv, IInv, TypeOK, Observe, Error
<1>2. CASE failure = "interrupted"
  <2>1. /\ stream'.segments = stream.segments /\ stream'.gaps = stream.gaps
        /\ stream'.trim_gap = stream.trim_gap /\ stream'.checkpoint = stream.checkpoint
        /\ stream'.state = stream.state \/ (HasSynced(stream) /\ HasSynced(stream'))
    BY <1>1, <1>2 DEF Fail, WatchStream, HasSynced, SyncState
  <2> QED BY <1>1, <2>1, SameRecord
<1>3. CASE failure # "interrupted"
  <2>1. PICK reason \in GapReason \ {"trimmed"}, state \in {"gap_detected", "denied"} :
          stream' = BreakContinuity(stream, reason, state)
    BY <1>1, <1>3 DEF Fail, GapReason
  <2>2. CASE IsBroken(stream)
    <3>1. /\ stream'.segments = stream.segments /\ stream'.gaps = stream.gaps
          /\ stream'.trim_gap = stream.trim_gap /\ stream'.checkpoint = stream.checkpoint
          /\ stream'.state = stream.state
      BY <1>1, <2>1, <2>2 DEF BreakContinuity, WatchStream, IsBroken
    <3> QED BY <1>1, <3>1, SameRecord
  <2>3. CASE ~ IsBroken(stream)
    <3>1. /\ stream'.segments = CloseOpenSegment(stream)
          /\ stream'.gaps = Append(stream.gaps, Gap(reason, stream.checkpoint, None))
          /\ stream'.checkpoint = None /\ stream'.trim_gap = None
          /\ IsBroken(stream')
      BY <1>1, <2>1, <2>3 DEF BreakContinuity, WatchStream, IsBroken
    <3> QED BY <1>1, <2>3, <3>1, BreakRecord
  <2> QED BY <2>2, <2>3
<1> QED BY <1>2, <1>3

(* What neither ends a period nor begins one leaves the record alone.      *)
LEMMA OthersKeepRecord ==
  ASSUME CInv,
         \/ StartListing \/ LoseListing \/ BeginStream \/ OpenStreamingList
         \/ AbandonStream \/ Reconnect \/ OpenWatch \/ SendInitial
         \/ \E k \in Keys : OwnWrite(k)
         \/ UNCHANGED vars
  PROVE  Recorded(history, stream)'
<1>1. stream \in WatchStream /\ Recorded(history, stream) /\ history' = history
  BY DEF CInv, IInv, TypeOK, StartListing, LoseListing, BeginStream, OpenStreamingList,
     AbandonStream, Reconnect, OpenWatch, SendInitial, OwnWrite, vars, server
<1>2. /\ stream'.segments = stream.segments /\ stream'.gaps = stream.gaps
      /\ stream'.trim_gap = stream.trim_gap /\ stream'.checkpoint = stream.checkpoint
      /\ stream'.state = stream.state \/ (HasSynced(stream) /\ HasSynced(stream'))
  <2>1. CASE StartListing \/ LoseListing \/ OpenStreamingList \/ OpenWatch \/ UNCHANGED vars
    BY <2>1 DEF StartListing, LoseListing, OpenStreamingList, OpenWatch, vars, client
  <2>2. CASE BeginStream
    BY <1>1, <2>2 DEF BeginStream, BeginStreamingList, WatchStream
  <2>3. CASE AbandonStream
    BY <1>1, <2>3 DEF AbandonStream, AbandonStreamingList, WatchStream
  <2>4. CASE Reconnect
    BY <1>1, <2>4 DEF Reconnect, Reconnected, WatchStream, HasSynced, SyncState
  <2>5. CASE SendInitial
    <3>1. PICK k \in feed.todo :
            stream' = Observe(stream, Change("added", k, history[feed.at][k]))
      BY <2>5 DEF SendInitial
    <3>2. stream.staging # None
      BY <2>5 DEF SendInitial, CInv, IInv, StagedIsPartOfInitial, IsStreamingList
    <3>3. stream' = [stream EXCEPT !.staging[k] = history[feed.at][k]]
      BY <3>1, <3>2 DEF Observe, Change, Stages
    <3> QED BY <1>1, <3>3 DEF WatchStream
  <2>6. ASSUME NEW k \in Keys, OwnWrite(k)
        PROVE  /\ stream'.segments = stream.segments /\ stream'.gaps = stream.gaps
               /\ stream'.trim_gap = stream.trim_gap /\ stream'.checkpoint = stream.checkpoint
               /\ stream'.state = stream.state
    BY <1>1, <2>6 DEF OwnWrite, Written, WatchStream
  <2> QED BY <2>1, <2>2, <2>3, <2>4, <2>5, <2>6
<1> QED BY <1>1, <1>2, SameRecord

(* The record is kept by every behaviour: the periods and the gaps of a    *)
(* stream agree, and every log is every change of its period but those a   *)
(* gap tells are gone.                                                     *)
THEOREM ContinuityInvariant == Spec => []CInv
<1>1. Init => Recorded(history, stream)
  BY NewRecord DEF Init
<1>2. CInv /\ [Next]_vars => Recorded(history, stream)'
  <2> SUFFICES ASSUME CInv, [Next]_vars PROVE Recorded(history', stream')
    OBVIOUS
  <2>0. /\ stream \in WatchStream /\ history \in Seq(Cache) /\ Now = Len(history)
        /\ Recorded(history, stream)
    BY DEF CInv, IInv, TypeOK, ServerTypeOK, Now
  <2>1. CASE ServerStep
    BY <2>1, ServerKeepsRecord
  <2>2. CASE \/ StartListing \/ LoseListing \/ BeginStream \/ OpenStreamingList
             \/ AbandonStream \/ Reconnect \/ OpenWatch \/ SendInitial
             \/ \E k \in Keys : OwnWrite(k)
             \/ UNCHANGED vars
    BY <2>2, OthersKeepRecord
  <2>3. CASE FinishListing
    <3>1. /\ listing \in 1..Now /\ history' = history
          /\ stream' = Listed(stream, history[listing], listing)
      BY <2>3 DEF FinishListing, server, CInv, IInv, ListingIsNotBehind
    <3> QED BY <2>0, <3>1, ListedRecord
  <2>4. CASE EndInitial
    <3>1. /\ feed.at \in 1..Now /\ history' = history
          /\ stream' = Listed(stream, history[feed.at], feed.at)
      BY <2>4, EndInitialLists DEF CInv, IInv, EndInitial, StagedIsPartOfInitial, server
    <3> QED BY <2>0, <3>1, ListedRecord
  <2>5. CASE OpenRefused \/ BreakBody
    <3>1. /\ history' = history
          /\ \E failure \in {"expired", "denied"} : stream' = Observe(stream, Error(failure))
      BY <2>5 DEF OpenRefused, BreakBody, server
    <3> QED BY <3>1, FailureKeepsRecord
  <2>6. CASE Deliver
    <3>1. PICK v \in 1..Now, k \in Keys :
            IsNext(feed.at, v, k) /\ stream' = Observe(stream, EventAt(v, k))
      BY <2>6 DEF Deliver
    <3> QED BY <2>6, <3>1, DeliverKeepsRecord DEF Deliver, server
  <2>7. CASE SendBookmark
    <3>1. PICK v \in (feed.at + 1)..Now :
            QuietBetween(feed.at, v) /\ stream' = Observe(stream, Bookmark(v))
      BY <2>7 DEF SendBookmark
    <3> QED BY <2>7, <3>1, BookmarkKeepsRecord DEF SendBookmark, server
  <2>8. CASE EndBody
    <3>1. /\ history' = history
          /\ stream' = stream \/ stream' = Observe(stream, Error("interrupted"))
      BY <2>8 DEF EndBody, server
    <3> QED BY <2>0, <3>1, FailureKeepsRecord
  <2>9. CASE Release
    BY <2>9, NewRecord DEF Release
  <2> QED BY <2>1, <2>2, <2>3, <2>4, <2>5, <2>6, <2>7, <2>8, <2>9 DEF Next
<1>3. Spec => [](Recorded(history, stream))
  <2>1. IInv /\ Recorded(history, stream) /\ [Next]_vars => Recorded(history, stream)'
    BY <1>2 DEF CInv
  <2> QED BY <1>1, <2>1, InductiveInvariant, PTL DEF Spec
<1> QED BY <1>3, InductiveInvariant, PTL DEF CInv

(* §18.5, §19.4: nothing is lost silently.  The log of every period, open  *)
(* or closed, is every change the collection went through in it, in order  *)
(* and once, less the oldest, which a gap of that period tells are gone;   *)
(* `push` and `record_trim` (watch.rs) keep it so for any log bound.       *)
THEOREM LossesReported == Spec => []LossesAreReported
<1>1. CInv => LossesAreReported
  <2> SUFFICES ASSUME CInv PROVE LossesAreReported
    OBVIOUS
  <2>1. stream.segments \in Seq(Segment) /\ Len(stream.segments) \in Nat
    BY DEF CInv, IInv, TypeOK, WatchStream
  <2>2. ASSUME NEW i \in 1..Len(stream.segments)
        PROVE  LET segment == stream.segments[i]
                   log     == segment.changes
                   within  == ChangesWithin(segment)
                   logged  == {log[j].rv : j \in 1..Len(log)}
               IN  /\ \A j \in 1..Len(log) - 1 : log[j].rv < log[j + 1].rv
                   /\ logged \subseteq within
                   /\ \A v \in within \ logged : \A w \in logged : v < w
                   /\ (segment.trimmed = 0) <=> (logged = within)
    <3> DEFINE segment == stream.segments[i]
    <3>1. WholeLog(history, segment, EndOf(segment)) /\ segment.changes \in Seq(ObservedChange)
      <4>1. EndOf(segment) = End(stream, segment)
        BY DEF End, EndOf
      <4>2. segment \in Segment
        BY <2>1
      <4>3. WholeLog(history, segment, End(stream, segment))
        BY DEF CInv, Recorded, LogsWhole
      <4> QED BY <4>1, <4>2, <4>3 DEF Segment
    <3>2. /\ ChangesWithin(segment) = ChangesIn(history, segment.started_at, EndOf(segment))
          /\ Logged(segment.changes) = {segment.changes[j].rv : j \in 1..Len(segment.changes)}
      BY DEF ChangesWithin, ChangesIn, Logged
    <3> HIDE DEF segment
    <3>3. \A j \in 1..Len(segment.changes) - 1 : segment.changes[j].rv < segment.changes[j + 1].rv
      <4>1. Len(segment.changes) \in Nat
        BY <3>1
      <4>2. ASSUME NEW j \in 1..Len(segment.changes) - 1
            PROVE  segment.changes[j].rv < segment.changes[j + 1].rv
        <5>1. j \in 1..Len(segment.changes) /\ j + 1 \in 1..Len(segment.changes) /\ j < j + 1
          BY <4>1
        <5> QED BY <3>1, <5>1 DEF WholeLog
      <4> QED BY <4>2
    <3> QED BY <3>1, <3>2, <3>3 DEF WholeLog, segment
  <2>3. LogIsCompleteSinceTrim
    BY <2>2 DEF LogIsCompleteSinceTrim
  <2>4. TrimIsReported
    BY DEF TrimIsReported, CInv, Recorded, TrimsTold, TrimGap
  <2> QED BY <2>3, <2>4 DEF LossesAreReported
<1> QED BY <1>1, ContinuityInvariant, PTL

(* §63.11, §19.5: two periods of observation are never joined.  Between    *)
(* them lies a gap whose edges are the end of the one and the beginning of *)
(* the other, the last gap is open exactly while the stream is broken, and *)
(* the last period is open exactly while it has synchronised.              *)
THEOREM PeriodsAndGaps == Spec => []PeriodsAndGapsAgree
<1>1. CInv => PeriodsAndGapsAgree
  <2> SUFFICES ASSUME CInv PROVE PeriodsAndGapsAgree
    OBVIOUS
  <2>1. PeriodsAreSeparatedByGaps
    BY DEF CInv, Recorded, Separated, Separates, PeriodsAreSeparatedByGaps
  <2>2. ContinuityAgrees
    BY DEF CInv, Recorded, Continuous, IsBroken, ContinuityAgrees
  <2> QED BY <2>1, <2>2 DEF PeriodsAndGapsAgree
<1> QED BY <1>1, ContinuityInvariant, PTL

-----------------------------------------------------------------------------
(* The timeline of an object, of the record of its collection.             *)

(* There is a least one among any numbers.                                 *)
LEMMA Least ==
  ASSUME NEW T \in SUBSET Nat, T # {}
  PROVE  \E x \in T : \A y \in T : x <= y
<1> DEFINE R == {ss \in Nat \X Nat : ss[1] < ss[2]}
<1>1. IsWellFoundedOn(R, Nat)
  BY NatLessThanWellFounded DEF OpToRel
<1>2. \A x, y \in Nat : y < x => <<y, x>> \in R
  OBVIOUS
<1> HIDE DEF R
<1>3. PICK x \in T : \A y \in T : ~ (<<y, x>> \in R)
  BY <1>1, WFMin
<1>4. \A y \in T : x \in Nat /\ y \in Nat
  OBVIOUS
<1>5. ASSUME NEW y \in T PROVE x <= y
  <2>1. x \in Nat /\ y \in Nat /\ ~ (<<y, x>> \in R)
    BY <1>3, <1>4
  <2>2. ~ (y < x)
    BY <1>2, <2>1
  <2> QED
    BY <2>1, <2>2
<1> QED
  BY <1>5

(* What holds of 0, and of the next number whenever of one below a bound,  *)
(* holds up to that bound.                                                 *)
LEMMA Upwards ==
  ASSUME NEW bound \in Nat, NEW T \in SUBSET Nat, 0 \in T,
         \A m \in Nat : m < bound /\ m \in T => m + 1 \in T
  PROVE  \A m \in 0..bound : m \in T
<1> SUFFICES ASSUME NEW m \in 0..bound, m \notin T PROVE FALSE
  OBVIOUS
<1> DEFINE without == {n \in 0..bound : n \notin T}
<1>1. PICK x \in without : \A y \in without : x <= y
  <2>1. without \in SUBSET Nat /\ without # {}
    OBVIOUS
  <2> HIDE DEF without
  <2> QED BY <2>1, Least
<1>2. x \in 1..bound /\ x \notin T /\ x - 1 \in 0..bound
  BY <1>1
<1>3. x - 1 \in T
  BY <1>1, <1>2
<1>4. x - 1 \in Nat /\ x - 1 < bound /\ (x - 1) + 1 = x
  BY <1>2
<1> QED BY <1>2, <1>3, <1>4

(* The changes of a log that are one lifetime's of one key.                *)
Mine(subject, c) == c.key = subject.key /\ c.uid = subject.uid

(* The definition of `ChangesOf`: what it selects of each beginning of a   *)
(* log.                                                                    *)
IsSelected(f, subject, log, m) ==
  f = [n \in 0..m |-> IF n = 0 THEN << >>
                      ELSE IF Mine(subject, log[n]) THEN Append(f[n - 1], log[n]) ELSE f[n - 1]]

(* That definition defines a function, however long the log.               *)
LEMMA SelectionExists ==
  ASSUME NEW subject, NEW log, NEW bound \in Nat
  PROVE  \E f : IsSelected(f, subject, log, bound)
<1> DEFINE T == {m \in Nat : \E f : IsSelected(f, subject, log, m)}
<1>1. 0 \in T
  <2>1. IsSelected([n \in 0..0 |-> << >>], subject, log, 0)
    BY DEF IsSelected
  <2> QED BY <2>1
<1>2. ASSUME NEW m \in Nat, m \in T PROVE m + 1 \in T
  <2>1. PICK f : IsSelected(f, subject, log, m)
    BY <1>2
  <2> DEFINE last == IF Mine(subject, log[m + 1]) THEN Append(f[m], log[m + 1]) ELSE f[m]
             g == [n \in 0..m + 1 |-> IF n = m + 1 THEN last ELSE f[n]]
  <2>2. \A n \in 0..m : f[n] = IF n = 0 THEN << >>
                               ELSE IF Mine(subject, log[n]) THEN Append(f[n - 1], log[n])
                               ELSE f[n - 1]
    BY <2>1 DEF IsSelected
  <2>3. \A n \in 0..m + 1 : g[n] = IF n = 0 THEN << >>
                               ELSE IF Mine(subject, log[n]) THEN Append(g[n - 1], log[n])
                               ELSE g[n - 1]
    <3> SUFFICES ASSUME NEW n \in 0..m + 1
                 PROVE  g[n] = IF n = 0 THEN << >>
                               ELSE IF Mine(subject, log[n]) THEN Append(g[n - 1], log[n])
                               ELSE g[n - 1]
      OBVIOUS
    <3>1. CASE n = m + 1
      <4>1. n - 1 = m /\ m \in 0..m + 1 /\ m # m + 1 /\ n # 0
        BY <3>1
      <4>2. g[n] = last /\ g[n - 1] = f[m]
        BY <3>1, <4>1
      <4> HIDE DEF g
      <4> QED BY <3>1, <4>1, <4>2
    <3>2. CASE n = 0
      <4>1. n \in 0..m /\ n # m + 1
        BY <3>2
      <4> QED BY <2>2, <3>2, <4>1
    <3>3. CASE n # m + 1 /\ n # 0
      <4>1. n \in 0..m /\ n - 1 \in 0..m + 1 /\ n - 1 # m + 1
        BY <3>3
      <4>2. g[n] = f[n] /\ g[n - 1] = f[n - 1]
        BY <3>3, <4>1
      <4> HIDE DEF g
      <4> QED BY <2>2, <3>3, <4>1, <4>2
    <3> QED BY <3>1, <3>2, <3>3
  <2>4. IsSelected(g, subject, log, m + 1)
    <3>1. g = [n \in 0..m + 1 |-> g[n]]
      OBVIOUS
    <3> HIDE DEF g
    <3> QED BY <2>3, <3>1 DEF IsSelected
  <2> QED BY <2>4
<1> HIDE DEF T
<1>3. \A m \in 0..bound : m \in T
  <2>1. T \in SUBSET Nat
    BY DEF T
  <2> QED BY <1>1, <1>2, <2>1, Upwards
<1> QED BY <1>3 DEF T

(* What is selected of the beginning of a log.                             *)
Selection(mine, subject, log, m) ==
  /\ mine \in Seq(ObservedChange)
  /\ \A i \in 1..Len(mine) : \E j \in 1..m : mine[i] = log[j] /\ Mine(subject, log[j])
  /\ \A j \in 1..m : Mine(subject, log[j]) => \E i \in 1..Len(mine) : mine[i] = log[j]
  /\ \A i \in 1..Len(mine) - 1 : mine[i].rv < mine[i + 1].rv

(* One more change of the log is selected if it is of the lifetime.        *)
LEMMA SelectsOneMore ==
  ASSUME NEW subject, NEW log \in Seq(ObservedChange), NEW m \in Nat, m < Len(log),
         \A i, j \in 1..Len(log) : i < j => log[i].rv < log[j].rv,
         NEW mine, Selection(mine, subject, log, m)
  PROVE  Selection(IF Mine(subject, log[m + 1]) THEN Append(mine, log[m + 1]) ELSE mine,
                   subject, log, m + 1)
<1> DEFINE c == log[m + 1]
           l == Len(mine)
<1>1. /\ mine \in Seq(ObservedChange) /\ l \in Nat
      /\ \A i \in 1..l : \E j \in 1..m : mine[i] = log[j] /\ Mine(subject, log[j])
      /\ \A j \in 1..m : Mine(subject, log[j]) => \E i \in 1..l : mine[i] = log[j]
      /\ \A i \in 1..l - 1 : mine[i].rv < mine[i + 1].rv
  BY DEF Selection
<1>2. /\ Len(log) \in Nat /\ m + 1 \in 1..Len(log) /\ c \in ObservedChange
      /\ \A j \in 1..m : j \in 1..Len(log) /\ j \in 1..m + 1 /\ j < m + 1
      /\ \A j \in 1..m + 1 : j = m + 1 \/ j \in 1..m
      /\ m + 1 \in 1..m + 1
  OBVIOUS
<1>3. c = log[m + 1]
  OBVIOUS
<1> HIDE DEF c, l
<1>4. CASE ~ Mine(subject, c)
  <2>1. \A i \in 1..l : \E j \in 1..m + 1 : mine[i] = log[j] /\ Mine(subject, log[j])
    BY <1>1, <1>2
  <2>2. \A j \in 1..m + 1 : Mine(subject, log[j]) => \E i \in 1..l : mine[i] = log[j]
    BY <1>1, <1>2, <1>3, <1>4
  <2> QED BY <1>1, <1>3, <1>4, <2>1, <2>2 DEF Selection, l
<1>5. CASE Mine(subject, c)
  <2> DEFINE more == Append(mine, c)
  <2>1. /\ more \in Seq(ObservedChange) /\ Len(more) = l + 1
        /\ \A i \in 1..l : more[i] = mine[i]
        /\ more[l + 1] = c
    BY <1>1, <1>2, AppendProperties DEF l
  <2> HIDE DEF more
  <2>2. /\ \A i \in 1..l + 1 : i = l + 1 \/ i \in 1..l
        /\ \A i \in 1..l : i \in 1..l + 1
        /\ l + 1 \in 1..l + 1
    BY <1>1
  <2>3. \A i \in 1..l + 1 : \E j \in 1..m + 1 : more[i] = log[j] /\ Mine(subject, log[j])
    BY <1>1, <1>2, <1>3, <1>5, <2>1, <2>2
  <2>4. \A j \in 1..m + 1 : Mine(subject, log[j]) => \E i \in 1..l + 1 : more[i] = log[j]
    BY <1>1, <1>2, <1>3, <2>1, <2>2
  <2>5. ASSUME NEW i \in 1..l PROVE more[i].rv < more[i + 1].rv
    <3>1. CASE i = l
      <4>1. PICK j \in 1..m : mine[i] = log[j]
        BY <1>1
      <4>2. log[j].rv < log[m + 1].rv
        BY <1>2, <4>1
      <4> QED BY <1>3, <2>1, <3>1, <4>1, <4>2
    <3>2. CASE i # l
      <4>1. i \in 1..l - 1 /\ i + 1 \in 1..l
        BY <1>1, <3>2
      <4> QED BY <1>1, <2>1, <4>1
    <3> QED BY <3>1, <3>2
  <2>6. Len(more) - 1 = l
    BY <1>1, <2>1
  <2>7. Selection(more, subject, log, m + 1)
    BY <2>1, <2>3, <2>4, <2>5, <2>6 DEF Selection
  <2> QED BY <1>3, <1>5, <2>7 DEF more
<1> QED BY <1>3, <1>4, <1>5

(* `absorb_segment` takes all of the changes of the lifetime, and nothing  *)
(* else, in the order of the log.                                          *)
LEMMA ChangesOfSelects ==
  ASSUME NEW subject, NEW segment, segment.changes \in Seq(ObservedChange),
         \A i, j \in 1..Len(segment.changes) :
           i < j => segment.changes[i].rv < segment.changes[j].rv
  PROVE  Selection(H!ChangesOf(subject, segment), subject, segment.changes, Len(segment.changes))
<1> DEFINE log == segment.changes
           bound == Len(log)
           f == CHOOSE g : IsSelected(g, subject, log, bound)
           T == {m \in Nat : m <= bound => Selection(f[m], subject, log, m)}
<1>1. H!ChangesOf(subject, segment) = f[bound]
  BY DEF H!ChangesOf, IsSelected, Mine
<1>2. bound \in Nat
  OBVIOUS
<1>3. IsSelected(f, subject, log, bound)
  <2> HIDE DEF bound, log
  <2>1. \E g : IsSelected(g, subject, log, bound)
    BY <1>2, SelectionExists
  <2> QED BY <2>1
<1> HIDE DEF f
<1>4. \A n \in 0..bound : f[n] = IF n = 0 THEN << >>
                             ELSE IF Mine(subject, log[n]) THEN Append(f[n - 1], log[n])
                             ELSE f[n - 1]
  BY <1>3 DEF IsSelected
<1>5. 0 \in T
  <2>1. f[0] = << >> /\ Len(f[0]) = 0
    BY <1>2, <1>4
  <2>2. Selection(f[0], subject, log, 0)
    BY <2>1 DEF Selection
  <2> QED BY <2>2
<1> HIDE DEF bound, log
<1>6. ASSUME NEW m \in Nat, m < bound, m \in T PROVE m + 1 \in T
  <2>1. Selection(f[m], subject, log, m)
    BY <1>2, <1>6
  <2>2. /\ m + 1 \in 0..bound /\ m + 1 # 0 /\ (m + 1) - 1 = m
    BY <1>2, <1>6
  <2>3. f[m + 1] = IF Mine(subject, log[m + 1]) THEN Append(f[m], log[m + 1]) ELSE f[m]
    BY <1>4, <2>2
  <2>4. Selection(f[m + 1], subject, log, m + 1)
    BY <1>6, <2>1, <2>3, SelectsOneMore DEF log, bound
  <2> QED BY <2>4
<1>7. \A m \in 0..bound : m \in T
  <2>1. T \in SUBSET Nat
    OBVIOUS
  <2> HIDE DEF T
  <2> QED BY <1>2, <1>5, <1>6, <2>1, Upwards
<1> QED BY <1>1, <1>2, <1>7 DEF log, bound

-----------------------------------------------------------------------------
(* What a timeline has taken of the first m periods of a stream.           *)
IsAbsorbed(f, base, subject, segments, m) ==
  f = [n \in 0..m |-> IF n = 0 THEN base ELSE H!Absorb(f[n - 1], subject, segments[n])]

(* The definition of `IncludeWatch` defines a function, however many       *)
(* periods there are.                                                      *)
LEMMA AbsorptionExists ==
  ASSUME NEW base, NEW subject, NEW segments, NEW bound \in Nat
  PROVE  \E f : IsAbsorbed(f, base, subject, segments, bound)
<1> DEFINE T == {m \in Nat : \E f : IsAbsorbed(f, base, subject, segments, m)}
<1>1. 0 \in T
  <2>1. IsAbsorbed([n \in 0..0 |-> base], base, subject, segments, 0)
    BY DEF IsAbsorbed
  <2> QED BY <2>1
<1>2. ASSUME NEW m \in Nat, m \in T PROVE m + 1 \in T
  <2>1. PICK f : IsAbsorbed(f, base, subject, segments, m)
    BY <1>2
  <2> DEFINE last == H!Absorb(f[m], subject, segments[m + 1])
             g == [n \in 0..m + 1 |-> IF n = m + 1 THEN last ELSE f[n]]
  <2>2. \A n \in 0..m : f[n] = IF n = 0 THEN base ELSE H!Absorb(f[n - 1], subject, segments[n])
    BY <2>1 DEF IsAbsorbed
  <2>3. \A n \in 0..m + 1 :
          g[n] = IF n = 0 THEN base ELSE H!Absorb(g[n - 1], subject, segments[n])
    <3> SUFFICES ASSUME NEW n \in 0..m + 1
                 PROVE  g[n] = IF n = 0 THEN base ELSE H!Absorb(g[n - 1], subject, segments[n])
      OBVIOUS
    <3>1. CASE n = m + 1
      <4>1. n - 1 = m /\ m \in 0..m + 1 /\ m # m + 1 /\ n # 0
        BY <3>1
      <4>2. g[n] = last /\ g[n - 1] = f[m]
        BY <3>1, <4>1
      <4> HIDE DEF g
      <4> QED BY <3>1, <4>1, <4>2
    <3>2. CASE n = 0
      <4>1. n \in 0..m /\ n # m + 1
        BY <3>2
      <4> QED BY <2>2, <3>2, <4>1
    <3>3. CASE n # m + 1 /\ n # 0
      <4>1. n \in 0..m /\ n - 1 \in 0..m + 1 /\ n - 1 # m + 1
        BY <3>3
      <4>2. g[n] = f[n] /\ g[n - 1] = f[n - 1]
        BY <3>3, <4>1
      <4> HIDE DEF g
      <4> QED BY <2>2, <3>3, <4>1, <4>2
    <3> QED BY <3>1, <3>2, <3>3
  <2>4. IsAbsorbed(g, base, subject, segments, m + 1)
    <3>1. g = [n \in 0..m + 1 |-> g[n]]
      OBVIOUS
    <3> HIDE DEF g
    <3> QED BY <2>3, <3>1 DEF IsAbsorbed
  <2> QED BY <2>4
<1> HIDE DEF T
<1>3. \A m \in 0..bound : m \in T
  <2>1. T \in SUBSET Nat
    BY DEF T
  <2> QED BY <1>1, <1>2, <2>1, Upwards
<1> QED BY <1>3 DEF T

(* Of each period absorbed the changes of the lifetime are there, in their *)
(* order, and where the period says they are; the gaps are the stream's.   *)
Files(period, observations, mine, ordinal) ==
  /\ period.first \in Nat
  /\ period.count = Len(mine)
  /\ period.first + Len(mine) <= Len(observations)
  /\ \A j \in 1..Len(mine) : observations[period.first + j] = H!Witnessed(mine[j], ordinal)

(* A timeline of the same interval and gaps as another.                    *)
TimelineRecord(t, base) ==
  t = [from |-> base.from, to |-> base.to, observations |-> t.observations, gaps |-> base.gaps,
       periods |-> t.periods, unread |-> base.unread]

(* What a timeline is that has taken m periods of the stream.              *)
Absorption(t, base, subject, segments, m) ==
  /\ TimelineRecord(t, base)
  /\ t.observations \in Seq({H!Witnessed(c, n) : c \in ObservedChange, n \in Nat})
  /\ \E S : t.periods \in Seq(S)
  /\ Len(t.periods) = m
  /\ \A i \in 1..m : Files(t.periods[i], t.observations, H!ChangesOf(subject, segments[i]), i)

(* Taking one more period leaves what was taken of the others where it is. *)
LEMMA AbsorbsOneMore ==
  ASSUME NEW base, NEW subject, NEW segments, NEW m \in Nat, NEW t,
         H!ChangesOf(subject, segments[m + 1]) \in Seq(ObservedChange),
         Absorption(t, base, subject, segments, m)
  PROVE  Absorption(H!Absorb(t, subject, segments[m + 1]), base, subject, segments, m + 1)
<1> DEFINE segment == segments[m + 1]
           mine == H!ChangesOf(subject, segment)
           new  == [n \in DOMAIN mine |-> H!Witnessed(mine[n], m + 1)]
           period == [ordinal |-> m + 1, from |-> segment.started_at, to |-> segment.closed_at,
                      first |-> Len(t.observations), count |-> Len(mine)]
           told == {H!Witnessed(c, n) : c \in ObservedChange, n \in Nat}
           obs == t.observations
           u == H!Absorb(t, subject, segment)
<1>1. /\ TimelineRecord(t, base) /\ obs \in Seq(told) /\ Len(t.periods) = m
      /\ \A i \in 1..m : Files(t.periods[i], obs, H!ChangesOf(subject, segments[i]), i)
  BY DEF Absorption
<1>2. PICK S : t.periods \in Seq(S)
  BY DEF Absorption
<1>3. u = [t EXCEPT !.observations = obs \o new, !.periods = Append(t.periods, period)]
  BY <1>1 DEF H!Absorb
<1>4. mine \in Seq(ObservedChange) /\ DOMAIN mine = 1..Len(mine) /\ Len(mine) \in Nat
  OBVIOUS
<1>5. /\ new \in Seq(told) /\ Len(new) = Len(mine)
      /\ \A j \in 1..Len(mine) : new[j] = H!Witnessed(mine[j], m + 1)
  BY <1>4
<1> HIDE DEF mine, new, told, obs, u, segment
<1>6. /\ obs \o new \in Seq(told) /\ Len(obs \o new) = Len(obs) + Len(mine) /\ Len(obs) \in Nat
      /\ \A j \in 1..Len(obs) : (obs \o new)[j] = obs[j]
      /\ \A j \in 1..Len(mine) : (obs \o new)[Len(obs) + j] = H!Witnessed(mine[j], m + 1)
  <2>1. /\ obs \o new \in Seq(told) /\ Len(obs \o new) = Len(obs) + Len(new) /\ Len(obs) \in Nat
        /\ \A j \in 1..Len(obs) + Len(new) :
             (obs \o new)[j] = IF j <= Len(obs) THEN obs[j] ELSE new[j - Len(obs)]
    <3>1. obs \in Seq(told) /\ new \in Seq(told)
      BY <1>1, <1>5
    <3> QED BY <3>1, ConcatProperties
  <2>2. \A j \in 1..Len(mine) : /\ Len(obs) + j \in 1..Len(obs) + Len(new)
                                /\ ~ (Len(obs) + j <= Len(obs)) /\ (Len(obs) + j) - Len(obs) = j
    BY <1>4, <1>5, <2>1
  <2>3. \A j \in 1..Len(obs) : j \in 1..Len(obs) + Len(new) /\ j <= Len(obs)
    BY <1>4, <1>5, <2>1
  <2> QED BY <1>5, <2>1, <2>2, <2>3
<1> DEFINE more == obs \o new
           periods == Append(t.periods, period)
<1>7. /\ periods \in Seq(S \cup {period}) /\ Len(periods) = m + 1
      /\ \A i \in 1..m : periods[i] = t.periods[i]
      /\ periods[m + 1] = period
  <2> HIDE DEF period
  <2>1. t.periods \in Seq(S \cup {period})
    BY <1>2
  <2> QED BY <1>1, <2>1, AppendProperties
<1>8. /\ period.first = Len(obs) /\ period.count = Len(mine)
  BY DEF obs
<1> HIDE DEF more, periods, period
<1>9. /\ u.observations = more /\ u.periods = periods /\ TimelineRecord(u, base)
  <2>1. PICK o, p : t = [from |-> base.from, to |-> base.to, observations |-> o,
                          gaps |-> base.gaps, periods |-> p, unread |-> base.unread]
    BY <1>1 DEF TimelineRecord
  <2>2. u = [t EXCEPT !.observations = more, !.periods = periods]
    BY <1>3 DEF more, periods
  <2>3. u = [from |-> base.from, to |-> base.to, observations |-> more,
             gaps |-> base.gaps, periods |-> periods, unread |-> base.unread]
    BY <2>1, <2>2
  <2>4. u.observations = more /\ u.periods = periods
    BY <2>3
  <2> QED BY <2>3, <2>4 DEF TimelineRecord
<1>10. Files(period, more, mine, m + 1)
  BY <1>4, <1>6, <1>8 DEF Files, more
<1>11. ASSUME NEW i \in 1..m
       PROVE  Files(periods[i], more, H!ChangesOf(subject, segments[i]), i)
  <2> DEFINE before == H!ChangesOf(subject, segments[i])
             p == t.periods[i]
  <2>1. Files(p, obs, before, i) /\ periods[i] = p
    BY <1>1, <1>7
  <2> HIDE DEF before, p
  <2>2. /\ p.first \in Nat /\ p.count = Len(before) /\ p.first + Len(before) <= Len(obs)
        /\ \A j \in 1..Len(before) : obs[p.first + j] = H!Witnessed(before[j], i)
    BY <2>1 DEF Files
  <2>3. Len(more) = Len(obs) + Len(mine) /\ Len(obs) \in Nat /\ Len(mine) \in Nat
    BY <1>4, <1>6 DEF more
  <2>4. \A j \in 1..Len(before) : p.first + j \in 1..Len(obs)
    BY <2>2, <2>3
  <2>5. \A j \in 1..Len(before) : more[p.first + j] = H!Witnessed(before[j], i)
    BY <1>6, <2>2, <2>4 DEF more
  <2> QED BY <2>1, <2>2, <2>3, <2>5 DEF Files, before
<1>12. \A i \in 1..m + 1 : Files(periods[i], more, H!ChangesOf(subject, segments[i]), i)
  <2>1. \A i \in 1..m + 1 : i \in 1..m \/ i = m + 1
    OBVIOUS
  <2> QED BY <1>7, <1>10, <1>11, <2>1 DEF mine, segment
<1>13. Absorption(u, base, subject, segments, m + 1)
  BY <1>6, <1>7, <1>9, <1>12 DEF Absorption, more, told
<1> QED BY <1>13 DEF u, segment

(* What a stream makes of a new timeline before its periods are taken.     *)
Base == H!Widened(H!Opened(0), stream, 0)

LEMMA BaseIs ==
  ASSUME stream \in WatchStream
  PROVE  \E unread : Base = [from |-> 0, to |-> 0, observations |-> << >>,
                             gaps |-> [n \in DOMAIN stream.gaps |-> H!FromWatch(stream.gaps[n], 0)],
                             periods |-> << >>, unread |-> unread]
<1> DEFINE gaps == [n \in DOMAIN stream.gaps |-> H!FromWatch(stream.gaps[n], 0)]
           unread == {} \cup CASE stream.state = "syncing" -> {"not queried"}
                                [] stream.state = "denied"  -> {"list denied"}
                                [] OTHER -> {}
<1>1. /\ stream.gaps \in Seq(WatchGap) /\ DOMAIN stream.gaps = 1..Len(stream.gaps)
      /\ Len(stream.gaps) \in Nat
  BY DEF WatchStream
<1>2. << >> \o gaps = gaps
  <2>1. gaps \in Seq({H!FromWatch(g, 0) : g \in WatchGap})
    BY <1>1
  <2> HIDE DEF gaps
  <2> QED BY <2>1, ConcatEmptySeq
<1>3. Base = [H!Opened(0) EXCEPT !.from = IF 0 < @ THEN 0 ELSE @,
                                 !.to = IF 0 > @ THEN 0 ELSE @,
                                 !.gaps = @ \o gaps, !.unread = unread]
  BY DEF Base, H!Widened, H!Opened
<1> HIDE DEF gaps, unread
<1>4. Base = [from |-> 0, to |-> 0, observations |-> << >>, gaps |-> gaps, periods |-> << >>,
              unread |-> unread]
  BY <1>2, <1>3 DEF H!Opened
<1> QED BY <1>4 DEF gaps

(* A timeline that has taken no period yet.                                *)
LEMMA BaseHasNone ==
  ASSUME stream \in WatchStream, NEW subject, NEW segments
  PROVE  Absorption(Base, Base, subject, segments, 0)
<1>1. PICK gaps, unread : Base = [from |-> 0, to |-> 0, observations |-> << >>, gaps |-> gaps,
                                  periods |-> << >>, unread |-> unread]
  BY BaseIs
<1>2. TimelineRecord(Base, Base) /\ Base.observations = << >> /\ Base.periods = << >>
  BY <1>1 DEF TimelineRecord
<1>3. << >> \in Seq({H!Witnessed(c, n) : c \in ObservedChange, n \in Nat})
      /\ << >> \in Seq({}) /\ Len(<< >>) = 0
  OBVIOUS
<1>4. /\ Base.observations \in Seq({H!Witnessed(c, n) : c \in ObservedChange, n \in Nat})
      /\ Base.periods \in Seq({}) /\ Len(Base.periods) = 0
  BY <1>2, <1>3
<1> QED BY <1>2, <1>4 DEF Absorption

(* The timeline of an object has taken every period of the stream.         *)
LEMMA TimelineAbsorbs ==
  ASSUME stream \in WatchStream, NEW k, NEW uid,
         \A n \in 1..Len(stream.segments) : \A i, j \in 1..Len(stream.segments[n].changes) :
           i < j => stream.segments[n].changes[i].rv < stream.segments[n].changes[j].rv
  PROVE  Absorption(TimelineOf(k, uid), Base, [key |-> k, uid |-> uid], stream.segments,
                    Len(stream.segments))
<1> DEFINE subject  == [key |-> k, uid |-> uid]
           segments == stream.segments
           bound    == Len(segments)
           f == CHOOSE g : IsAbsorbed(g, Base, subject, segments, bound)
           T == {m \in Nat : m <= bound => Absorption(f[m], Base, subject, segments, m)}
<1>1. TimelineOf(k, uid) = f[bound]
  BY DEF TimelineOf, H!IncludeWatch, IsAbsorbed, Base
<1>2. segments \in Seq(Segment) /\ bound \in Nat
  BY DEF WatchStream
<1>3. IsAbsorbed(f, Base, subject, segments, bound)
  <2> HIDE DEF bound, segments, subject
  <2>1. \E g : IsAbsorbed(g, Base, subject, segments, bound)
    BY <1>2, AbsorptionExists
  <2> QED BY <2>1
<1> HIDE DEF f, subject
<1>4. \A n \in 0..bound : f[n] = IF n = 0 THEN Base ELSE H!Absorb(f[n - 1], subject, segments[n])
  BY <1>3 DEF IsAbsorbed
<1>5. 0 \in T
  <2>1. f[0] = Base
    BY <1>2, <1>4
  <2>2. Absorption(Base, Base, subject, segments, 0)
    BY BaseHasNone
  <2> HIDE DEF bound, segments
  <2> QED BY <2>1, <2>2
<1>6. ASSUME NEW n \in 1..bound PROVE H!ChangesOf(subject, segments[n]) \in Seq(ObservedChange)
  <2>1. segments[n].changes \in Seq(ObservedChange)
    <3>1. segments[n] \in Segment
      BY <1>2
    <3> QED BY <3>1 DEF Segment
  <2>2. \A i, j \in 1..Len(segments[n].changes) :
           i < j => segments[n].changes[i].rv < segments[n].changes[j].rv
    OBVIOUS
  <2> HIDE DEF segments
  <2>3. Selection(H!ChangesOf(subject, segments[n]), subject, segments[n].changes,
                  Len(segments[n].changes))
    BY <2>1, <2>2, ChangesOfSelects
  <2> QED BY <2>3 DEF Selection
<1> HIDE DEF bound, segments
<1>7. ASSUME NEW m \in Nat, m < bound, m \in T PROVE m + 1 \in T
  <2>1. Absorption(f[m], Base, subject, segments, m)
    BY <1>2, <1>7
  <2>2. m + 1 \in 0..bound /\ m + 1 # 0 /\ (m + 1) - 1 = m /\ m + 1 \in 1..bound
    BY <1>2, <1>7
  <2>3. f[m + 1] = H!Absorb(f[m], subject, segments[m + 1])
    BY <1>4, <2>2
  <2>4. Absorption(f[m + 1], Base, subject, segments, m + 1)
    BY <1>6, <2>1, <2>2, <2>3, AbsorbsOneMore
  <2> QED BY <2>4
<1>8. \A m \in 0..bound : m \in T
  <2>1. T \in SUBSET Nat
    OBVIOUS
  <2> HIDE DEF T
  <2> QED BY <1>2, <1>5, <1>7, <2>1, Upwards
<1> QED BY <1>1, <1>2, <1>8 DEF segments, bound, subject

(* A slice of a sequence.                                                  *)
LEMMA Slice ==
  ASSUME NEW S, NEW s \in Seq(S), NEW x \in Nat, NEW y \in Nat, x + y <= Len(s)
  PROVE  /\ Len(SubSeq(s, x + 1, x + y)) = y
         /\ \A n \in 1..y : SubSeq(s, x + 1, x + y)[n] = s[x + n]
<1>1. \A n \in x + 1..x + y : s[n] \in S
  OBVIOUS
<1>2. /\ Len(SubSeq(s, x + 1, x + y)) = IF x + 1 <= x + y THEN x + y - (x + 1) + 1 ELSE 0
      /\ \A n \in 1..x + y - (x + 1) + 1 : SubSeq(s, x + 1, x + y)[n] = s[x + 1 + n - 1]
  BY <1>1, SubSeqProperties
<1>3. ASSUME NEW n \in 1..y PROVE SubSeq(s, x + 1, x + y)[n] = s[x + n]
  <2>1. n \in 1..x + y - (x + 1) + 1 /\ x + 1 + n - 1 = x + n
    OBVIOUS
  <2> QED BY <1>2, <2>1
<1> QED BY <1>2, <1>3

(* What was witnessed in a period is what was selected of it.              *)
LEMMA WitnessedIs ==
  ASSUME NEW t, NEW base, NEW subject, NEW segments, NEW m \in Nat,
         Absorption(t, base, subject, segments, m), NEW i \in 1..m,
         H!ChangesOf(subject, segments[i]) \in Seq(ObservedChange)
  PROVE  /\ Len(H!WitnessedIn(t, t.periods[i])) = Len(H!ChangesOf(subject, segments[i]))
         /\ \A j \in 1..Len(H!ChangesOf(subject, segments[i])) :
              H!WitnessedIn(t, t.periods[i])[j].detail.position
                = H!ChangesOf(subject, segments[i])[j].rv
<1> DEFINE mine == H!ChangesOf(subject, segments[i])
           p    == t.periods[i]
           obs  == t.observations
           told == {H!Witnessed(c, n) : c \in ObservedChange, n \in Nat}
           seen == SubSeq(obs, p.first + 1, p.first + p.count)
<1>1. obs \in Seq(told) /\ Files(p, obs, mine, i) /\ mine \in Seq(ObservedChange)
  BY DEF Absorption
<1>2. H!WitnessedIn(t, p) = seen
  BY DEF H!WitnessedIn
<1> HIDE DEF mine, p, obs, told
<1>3. /\ p.first \in Nat /\ p.count = Len(mine) /\ Len(mine) \in Nat
      /\ p.first + Len(mine) <= Len(obs) /\ Len(obs) \in Nat
      /\ \A j \in 1..Len(mine) : obs[p.first + j] = H!Witnessed(mine[j], i)
  BY <1>1 DEF Files
<1>4. Len(seen) = Len(mine) /\ \A j \in 1..Len(mine) : seen[j] = obs[p.first + j]
  <2>1. /\ obs \in Seq(told) /\ p.first \in Nat /\ p.count \in Nat
        /\ p.count = Len(mine) /\ p.first + p.count <= Len(obs)
    BY <1>1, <1>3
  <2>2. /\ Len(SubSeq(obs, p.first + 1, p.first + p.count)) = p.count
        /\ \A j \in 1..p.count :
             SubSeq(obs, p.first + 1, p.first + p.count)[j] = obs[p.first + j]
    <3> DEFINE x == p.first
               y == p.count
    <3>1. obs \in Seq(told) /\ x \in Nat /\ y \in Nat /\ x + y <= Len(obs)
      BY <2>1
    <3> HIDE DEF x, y
    <3>2. /\ Len(SubSeq(obs, x + 1, x + y)) = y
          /\ \A j \in 1..y : SubSeq(obs, x + 1, x + y)[j] = obs[x + j]
      BY <3>1, Slice
    <3> QED BY <3>2 DEF x, y
  <2> QED BY <2>1, <2>2 DEF seen
<1> HIDE DEF seen
<1>5. ASSUME NEW n \in 1..Len(mine) PROVE seen[n].detail.position = mine[n].rv
  <2>1. seen[n] = H!Witnessed(mine[n], i)
    BY <1>3, <1>4
  <2>2. H!Witnessed(mine[n], i).detail
          = [class |-> mine[n].class, position |-> mine[n].rv, period |-> i]
    BY DEF H!Witnessed, H!Observation
  <2> QED BY <2>1, <2>2
<1> QED BY <1>2, <1>4, <1>5 DEF mine, p

(* The gaps of a timeline are those of the stream.                         *)
LEMMA TimelineGaps ==
  ASSUME stream \in WatchStream, NEW t, TimelineRecord(t, Base)
  PROVE  /\ Len(t.gaps) = Len(stream.gaps) /\ Len(t.gaps) \in Nat
         /\ \A g \in 1..Len(t.gaps) : t.gaps[g] = H!FromWatch(stream.gaps[g], 0)
<1>1. PICK unread : Base = [from |-> 0, to |-> 0, observations |-> << >>,
                            gaps |-> [n \in DOMAIN stream.gaps |-> H!FromWatch(stream.gaps[n], 0)],
                            periods |-> << >>, unread |-> unread]
  BY BaseIs
<1> DEFINE gaps == [n \in DOMAIN stream.gaps |-> H!FromWatch(stream.gaps[n], 0)]
<1>2. t.gaps = Base.gaps
  BY DEF TimelineRecord
<1>3. Base.gaps = gaps
  BY <1>1
<1>4. stream.gaps \in Seq(WatchGap) /\ DOMAIN stream.gaps = 1..Len(stream.gaps)
      /\ Len(stream.gaps) \in Nat
  BY DEF WatchStream
<1>5. Len(gaps) = Len(stream.gaps)
      /\ \A g \in 1..Len(stream.gaps) : gaps[g] = H!FromWatch(stream.gaps[g], 0)
  BY <1>4
<1> HIDE DEF gaps
<1> QED BY <1>2, <1>3, <1>4, <1>5

(* What is selected of a period of a recorded stream.                      *)
LEMMA PeriodSelects ==
  ASSUME CInv, NEW i \in 1..Len(stream.segments), NEW subject
  PROVE  LET segment == stream.segments[i]
         IN  /\ segment \in Segment /\ segment.changes \in Seq(ObservedChange)
             /\ WholeLog(history, segment, EndOf(segment))
             /\ segment.started_at \in 1..Now /\ EndOf(segment) \in segment.started_at..Now
             /\ Selection(H!ChangesOf(subject, segment), subject, segment.changes,
                          Len(segment.changes))
<1> DEFINE segment == stream.segments[i]
<1>1. segment \in Segment
  BY DEF CInv, IInv, TypeOK, WatchStream
<1>2. segment.changes \in Seq(ObservedChange)
  BY <1>1 DEF Segment
<1>3. EndOf(segment) = End(stream, segment)
  BY DEF EndOf, End
<1>4. /\ WholeLog(history, segment, End(stream, segment))
      /\ segment.started_at \in 1..Now /\ End(stream, segment) \in segment.started_at..Now
  BY DEF CInv, Recorded, LogsWhole, Now
<1> HIDE DEF segment
<1>5. Selection(H!ChangesOf(subject, segment), subject, segment.changes, Len(segment.changes))
  <2>1. \A m, n \in 1..Len(segment.changes) :
          m < n => segment.changes[m].rv < segment.changes[n].rv
    BY <1>4 DEF WholeLog
  <2> QED BY <1>2, <2>1, ChangesOfSelects
<1> QED BY <1>1, <1>2, <1>3, <1>4, <1>5 DEF segment

(* What TimelineIsTheLifetime says, of one period of one timeline.         *)
PeriodIsTold(t, k, uid, i) ==
  LET segment   == stream.segments[i]
      witnessed == H!WitnessedIn(t, t.periods[i])
      told      == {witnessed[j].detail.position : j \in 1..Len(witnessed)}
      happened  == ChangesOfLifetime(segment, k, uid)
  IN  /\ told \subseteq happened
      /\ \A j \in 1..Len(witnessed) - 1 :
           witnessed[j].detail.position < witnessed[j + 1].detail.position
      /\ \A v \in happened \ told : \E g \in 1..Len(t.gaps) :
           /\ t.gaps[g].reason = "trimmed"
           /\ t.gaps[g].after = segment.started_at
           /\ v < t.gaps[g].resumed

(* What a timeline says was witnessed in a period is what happened to the  *)
(* lifetime in it, in order, and what is missing a gap of it stands for.   *)
LEMMA PeriodIsTrue ==
  ASSUME CInv, NEW k \in Keys, NEW uid, NEW t, t = TimelineOf(k, uid),
         NEW i \in 1..Len(stream.segments)
  PROVE  PeriodIsTold(t, k, uid, i)
<1> DEFINE segment   == stream.segments[i]
           log       == segment.changes
           subject   == [key |-> k, uid |-> uid]
           mine      == H!ChangesOf(subject, segment)
           witnessed == H!WitnessedIn(t, t.periods[i])
           told      == {witnessed[j].detail.position : j \in 1..Len(witnessed)}
           happened  == ChangesOfLifetime(segment, k, uid)
<1>1. stream \in WatchStream /\ Len(stream.segments) \in Nat /\ OneChangePerVersion
      /\ Now \in Nat
  BY DEF CInv, IInv, TypeOK, WatchStream, ServerTypeOK, Now
<1>2. /\ segment \in Segment /\ log \in Seq(ObservedChange)
      /\ WholeLog(history, segment, EndOf(segment))
      /\ segment.started_at \in 1..Now /\ EndOf(segment) \in segment.started_at..Now
      /\ Selection(mine, subject, log, Len(log))
  BY PeriodSelects
<1>3. Absorption(t, Base, subject, stream.segments, Len(stream.segments))
  <2>1. ASSUME NEW n \in 1..Len(stream.segments), NEW a \in 1..Len(stream.segments[n].changes),
               NEW b \in 1..Len(stream.segments[n].changes), a < b
        PROVE  stream.segments[n].changes[a].rv < stream.segments[n].changes[b].rv
    <3>1. WholeLog(history, stream.segments[n], EndOf(stream.segments[n]))
      BY PeriodSelects
    <3> QED BY <2>1, <3>1 DEF WholeLog
  <2> QED BY <1>1, <2>1, TimelineAbsorbs
<1>4. /\ Len(witnessed) = Len(mine)
      /\ \A j \in 1..Len(mine) : witnessed[j].detail.position = mine[j].rv
  <2>1. mine \in Seq(ObservedChange)
    BY <1>2 DEF Selection
  <2> QED BY <1>1, <1>3, <2>1, WitnessedIs
<1>5. subject.key = k /\ subject.uid = uid
  OBVIOUS
<1> HIDE DEF mine, witnessed, subject
<1>6. told = {mine[j].rv : j \in 1..Len(mine)}
  BY <1>4
<1>7. /\ mine \in Seq(ObservedChange) /\ Len(mine) \in Nat
      /\ \A j \in 1..Len(mine) : \E l \in 1..Len(log) : mine[j] = log[l] /\ Mine(subject, log[l])
      /\ \A l \in 1..Len(log) : Mine(subject, log[l]) => \E j \in 1..Len(mine) : mine[j] = log[l]
      /\ \A j \in 1..Len(mine) - 1 : mine[j].rv < mine[j + 1].rv
  BY <1>2 DEF Selection
<1>8. /\ Logged(log) \subseteq ChangesWithin(segment)
      /\ \A v \in ChangesWithin(segment) \ Logged(log) : \A w \in Logged(log) : v < w
      /\ (segment.trimmed = 0) <=> (Logged(log) = ChangesWithin(segment))
      /\ \A l \in 1..Len(log) : Tells(history, log[l])
  <2>1. ChangesWithin(segment) = ChangesIn(history, segment.started_at, EndOf(segment))
    BY DEF ChangesWithin, ChangesIn
  <2> QED BY <1>2, <2>1 DEF WholeLog
<1>9. \A v \in ChangesWithin(segment) : v \in 2..Now
  BY <1>1, <1>2 DEF ChangesWithin
<1>10. Len(log) \in Nat /\ segment.trimmed \in Nat
  BY <1>2 DEF Segment
<1> HIDE DEF segment, log, told, happened
<1>11. told \subseteq happened
  <2> SUFFICES ASSUME NEW j \in 1..Len(mine) PROVE mine[j].rv \in happened
    BY <1>6
  <2>1. PICK l \in 1..Len(log) : mine[j] = log[l] /\ Mine(subject, log[l])
    BY <1>7
  <2>2. log[l].rv \in ChangesWithin(segment)
    BY <1>8 DEF Logged
  <2>3. IsChange(history, k, uid, log[l].rv)
    BY <1>5, <1>8, <2>1 DEF Tells, Mine
  <2> QED BY <2>1, <2>2, <2>3 DEF happened, ChangesOfLifetime, Changed, IsChange
<1>12. \A j \in 1..Len(witnessed) - 1 :
         witnessed[j].detail.position < witnessed[j + 1].detail.position
  <2> SUFFICES ASSUME NEW j \in 1..Len(mine) - 1
               PROVE  witnessed[j].detail.position < witnessed[j + 1].detail.position
    BY <1>4
  <2>1. j \in 1..Len(mine) /\ j + 1 \in 1..Len(mine)
    BY <1>7
  <2> QED BY <1>4, <1>7, <2>1
<1>13. ASSUME NEW v \in happened \ told
       PROVE  \E g \in 1..Len(t.gaps) : /\ t.gaps[g].reason = "trimmed"
                                        /\ t.gaps[g].after = segment.started_at
                                        /\ v < t.gaps[g].resumed
  <2>1. v \in ChangesWithin(segment) /\ Changed(v, k) /\ IsChange(history, k, uid, v)
    BY <1>13 DEF happened, ChangesOfLifetime, Changed, IsChange
  <2>2. v \notin Logged(log)
    <3> SUFFICES ASSUME NEW l \in 1..Len(log), v = log[l].rv PROVE FALSE
      BY DEF Logged
    <3>1. log[l].key \in Keys
      <4>1. log[l] \in ObservedChange
        BY <1>2
      <4> QED BY <4>1 DEF ObservedChange
    <3>2. IsChange(history, log[l].key, log[l].uid, v)
      BY <1>8 DEF Tells
    <3>3. log[l].key = k
      <4>1. Changed(v, log[l].key) /\ v \in 2..Now
        BY <1>9, <2>1, <3>2 DEF Changed, IsChange
      <4> QED BY <1>1, <2>1, <3>1, <4>1 DEF OneChangePerVersion
    <3>4. log[l].uid = uid
      BY <2>1, <3>2, <3>3 DEF IsChange
    <3>5. PICK j \in 1..Len(mine) : mine[j] = log[l]
      BY <1>5, <1>7, <3>3, <3>4 DEF Mine
    <3> QED BY <1>6, <1>13, <3>5
  <2>3. segment.trimmed > 0
    BY <1>8, <1>10, <2>1, <2>2
  <2>4. /\ log # << >>
        /\ \E g \in 1..Len(stream.gaps) : stream.gaps[g] = TrimGap(segment)
    BY <2>3 DEF CInv, Recorded, TrimsTold, segment, log
  <2>5. PICK g \in 1..Len(stream.gaps) : stream.gaps[g] = TrimGap(segment)
    BY <2>4
  <2>6. Len(t.gaps) = Len(stream.gaps) /\ t.gaps[g] = H!FromWatch(stream.gaps[g], 0)
    <3>1. TimelineRecord(t, Base)
      BY <1>3 DEF Absorption
    <3> QED BY <1>1, <3>1, TimelineGaps
  <2>7. /\ t.gaps[g].reason = "trimmed" /\ t.gaps[g].after = segment.started_at
        /\ t.gaps[g].resumed = RetainedFrom(segment)
    BY <2>5, <2>6 DEF H!FromWatch, TrimGap, Gap
  <2>8. v < RetainedFrom(segment)
    <3>1. 1 \in 1..Len(log)
      BY <1>2, <1>10, <2>4
    <3>2. log[1].rv \in Logged(log)
      BY <3>1 DEF Logged
    <3> QED BY <1>8, <2>1, <2>2, <3>2 DEF RetainedFrom, log
  <2> QED BY <2>6, <2>7, <2>8
<1> QED BY <1>11, <1>12, <1>13 DEF PeriodIsTold, segment, witnessed, told, happened

(* §17.4, §18.2, §63.11: what a `k8s-timeline` says was witnessed of a     *)
(* lifetime in a period of observation is what happened to it then, in     *)
(* order and once; what is missing of it, a gap of the timeline stands     *)
(* for; and a timeline of two periods is not called continuous             *)
(* (`include_watch`, temporal.rs), whatever the log could hold.            *)
THEOREM TimelinesAreTrue == Spec => []TimelineIsTheLifetime
<1>1. CInv => TimelineIsTheLifetime
  <2> SUFFICES ASSUME CInv, NEW k \in Keys, NEW uid \in Lifetimes(k)
               PROVE  LET t == TimelineOf(k, uid)
                      IN  /\ Len(t.periods) = Len(stream.segments)
                          /\ Len(t.periods) > 1 => ~ H!IsContinuous(t)
                          /\ \A i \in 1..Len(t.periods) : PeriodIsTold(t, k, uid, i)
    BY DEF TimelineIsTheLifetime, PeriodIsTold
  <2> DEFINE t == TimelineOf(k, uid)
  <2>1. stream \in WatchStream /\ Len(stream.segments) \in Nat
    BY DEF CInv, IInv, TypeOK, WatchStream
  <2>2. Absorption(t, Base, [key |-> k, uid |-> uid], stream.segments, Len(stream.segments))
    <3>1. ASSUME NEW n \in 1..Len(stream.segments), NEW a \in 1..Len(stream.segments[n].changes),
                 NEW b \in 1..Len(stream.segments[n].changes), a < b
          PROVE  stream.segments[n].changes[a].rv < stream.segments[n].changes[b].rv
      <4>1. WholeLog(history, stream.segments[n], EndOf(stream.segments[n]))
        BY PeriodSelects
      <4> QED BY <3>1, <4>1 DEF WholeLog
    <3> QED BY <2>1, <3>1, TimelineAbsorbs
  <2>3. Len(t.periods) = Len(stream.segments) /\ TimelineRecord(t, Base)
    BY <2>2 DEF Absorption
  <2> HIDE DEF t
  <2>4. Len(t.periods) > 1 => ~ H!IsContinuous(t)
    <3> SUFFICES ASSUME Len(stream.segments) > 1 PROVE t.gaps # << >>
      BY <2>3 DEF H!IsContinuous
    <3>1. 1 \in 1..Len(stream.segments) - 1
      BY <2>1
    <3>2. \E j \in 1..Len(stream.gaps) : TRUE
      BY <3>1 DEF CInv, Recorded, Separated
    <3>3. Len(t.gaps) = Len(stream.gaps) /\ Len(t.gaps) \in Nat
      BY <2>1, <2>3, TimelineGaps
    <3> QED BY <3>2, <3>3
  <2>5. \A i \in 1..Len(t.periods) : i \in 1..Len(stream.segments)
    BY <2>3
  <2>6. \A i \in 1..Len(t.periods) : PeriodIsTold(t, k, uid, i)
    BY <2>5, PeriodIsTrue DEF t
  <2> QED BY <2>3, <2>4, <2>6 DEF t
<1> QED BY <1>1, ContinuityInvariant, PTL
=============================================================================
